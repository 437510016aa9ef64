-------------------------- MODULE PythonServiceProofs --------------------------
(***************************************************************************)
(* Three components of the Python service, for every value of their        *)
(* constants: what the regions of a replicated document say of each other, *)
(* what a WORM row, its flag and the verification say of a file, and what  *)
(* a screening says of a customer.  The components share no variable; each *)
(* part opens with the inductive invariant of its component.               *)
(***************************************************************************)
EXTENDS ReplicatedDocuments, WormLocks, AmlScreening, SequenceTheorems, FiniteSetTheorems, TLAPS

-----------------------------------------------------------------------------
(* REPLICATED DOCUMENTS.  Regions handle requests as they come, any number *)
(* at once.  What depends on none of them being stored over another one    *)
(* says so (raced), region by region where it can.                         *)

Value == [by : Nat, count : Nat]
Doc == [known : BOOLEAN, clock : [Regions -> Nat], fields : [Fields -> Value], status : Value]
Handled == [read : Doc, new : Doc, steps : Seq(Value), ids : Nat]

ReplicaTypeOK ==
    /\ row \in [Regions -> Doc]
    /\ steps \in [Regions -> Seq(Value)]
    /\ handling \in [Regions -> SUBSET Handled]
    /\ sent \subseteq [row : Doc, steps : Seq(Value)]
    /\ journal \subseteq Doc
    /\ raced \subseteq Regions

\* What R says of the edits, every region that lost none has made.
Counted(R) == \A q \in Regions \ raced : R.clock[q] <= row[q].clock[q]

\* The values of R are edits that its clock knows of.
Backed(R) == raced = {} => \A f \in Fields : R.fields[f] # None =>
    /\ R.fields[f].by \in Regions
    /\ R.fields[f].count <= R.clock[R.fields[f].by]

\* If the edits were made in turn, R is what one of them left, but for fields
\* that the edit emptied.
Settled(R) == (EditedInTurn /\ raced = {}) =>
    /\ \E j \in journal : j.clock = R.clock
    /\ \A j \in journal : \A f \in Fields :
           (j.clock = R.clock /\ j.fields[f] # None) => R.fields[f] = j.fields[f]

RowInv(r) ==
    /\ Counted(row[r]) /\ Backed(row[r])
    /\ IF row[r].known THEN Settled(row[r]) ELSE row[r].clock = NoClock

SentInv(m) == m.row.known /\ Counted(m.row) /\ Backed(m.row) /\ Settled(m.row)

\* What a request makes of the clock and the fields that it has read is another
\* edit, or a merge that makes none.
HandlingInv(r, h) ==
    /\ \A q \in Regions : h.read.clock[q] <= h.new.clock[q]
    /\ \A q \in Regions \ raced : q # r => h.new.clock[q] <= row[q].clock[q]
    /\ Backed(h.new)
    /\ h.new.clock[r] > h.read.clock[r] \/ (Counted(h.new) /\ Settled(h.new))

ReplicaInv ==
    /\ ReplicaTypeOK
    /\ \A r \in Regions : RowInv(r)
    /\ \A m \in sent : SentInv(m)
    /\ \A r \in Regions : \A h \in handling[r] : HandlingInv(r, h)
    /\ \A j \in journal : Counted(j)

-----------------------------------------------------------------------------
(* Clocks.                                                                 *)

LEMMA MaxOfTwo ==
    ASSUME NEW m \in Nat, NEW n \in Nat
    PROVE  Max({m, n}) = IF m >= n THEN m ELSE n
<1>1. \E x \in {m, n} : \A y \in {m, n} : x >= y
  OBVIOUS
<1>2. Max({m, n}) \in {m, n} /\ \A y \in {m, n} : Max({m, n}) >= y
  BY <1>1 DEF Max
<1> QED BY <1>2

LEMMA MergedIs ==
    ASSUME NEW a \in [Regions -> Nat], NEW b \in [Regions -> Nat]
    PROVE  /\ Merged(a, b) \in [Regions -> Nat]
           /\ \A q \in Regions : /\ Merged(a, b)[q] = IF a[q] >= b[q] THEN a[q] ELSE b[q]
                                /\ Merged(a, b)[q] >= a[q] /\ Merged(a, b)[q] >= b[q]
           /\ a = b \/ Dominates(a, b) => Merged(a, b) = a
           /\ Dominates(b, a) => Merged(a, b) = b
<1>1. \A q \in Regions : a[q] \in Nat /\ b[q] \in Nat
  OBVIOUS
<1>2. Merged(a, b) = [q \in Regions |-> IF a[q] >= b[q] THEN a[q] ELSE b[q]]
  BY <1>1, MaxOfTwo DEF Merged
<1>3. ASSUME a = b \/ Dominates(a, b) PROVE Merged(a, b) = a
  <2>1. \A q \in Regions : a[q] >= b[q]
    BY <1>1, <1>3 DEF Dominates
  <2> QED BY <1>2, <2>1
<1>4. ASSUME Dominates(b, a) PROVE Merged(a, b) = b
  <2>1. \A q \in Regions : a[q] <= b[q]
    BY <1>1, <1>4 DEF Dominates
  <2>2. \A q \in Regions : (IF a[q] >= b[q] THEN a[q] ELSE b[q]) = b[q]
    BY <1>1, <2>1
  <2> QED BY <1>2, <2>2
<1> QED BY <1>1, <1>2, <1>3, <1>4

\* merge of services/crdt.py joins two clocks: however snapshots are grouped,
\* ordered and repeated, the merged clock is the same, and it is the least that
\* knows of the edits of both.
THEOREM MergeJoins ==
    ASSUME NEW a \in [Regions -> Nat], NEW b \in [Regions -> Nat], NEW c \in [Regions -> Nat]
    PROVE  /\ Merged(a, a) = a
           /\ Merged(a, b) = Merged(b, a)
           /\ Merged(a, Merged(b, c)) = Merged(Merged(a, b), c)
           /\ (c = a \/ Dominates(c, a)) /\ (c = b \/ Dominates(c, b)) =>
                  c = Merged(a, b) \/ Dominates(c, Merged(a, b))
<1> DEFINE join(x, y) == [q \in Regions |-> IF x[q] >= y[q] THEN x[q] ELSE y[q]]
<1>1. \A x, y \in [Regions -> Nat] : Merged(x, y) = join(x, y) /\ join(x, y) \in [Regions -> Nat]
  <2> SUFFICES ASSUME NEW x \in [Regions -> Nat], NEW y \in [Regions -> Nat]
               PROVE  Merged(x, y) = join(x, y) /\ join(x, y) \in [Regions -> Nat]
    OBVIOUS
  <2>1. \A q \in Regions : x[q] \in Nat /\ y[q] \in Nat
    OBVIOUS
  <2> QED BY <2>1, MaxOfTwo DEF Merged
<1>2. \A q \in Regions : a[q] \in Nat /\ b[q] \in Nat /\ c[q] \in Nat
  OBVIOUS
<1>3. join(a, a) = a
  OBVIOUS
<1>4. join(a, b) = join(b, a)
  BY <1>2
<1>5. join(a, join(b, c)) = join(join(a, b), c)
  <2>1. \A q \in Regions : join(a, join(b, c))[q] = join(join(a, b), c)[q]
    BY <1>2
  <2> QED BY <2>1
<1>6. (c = a \/ Dominates(c, a)) /\ (c = b \/ Dominates(c, b)) =>
          c = join(a, b) \/ Dominates(c, join(a, b))
  BY <1>2 DEF Dominates
<1> HIDE DEF join
<1> QED BY <1>1, <1>3, <1>4, <1>5, <1>6

\* The newer of two clocks wins.
LEMMA NewerWins ==
    ASSUME NEW a, NEW b, NEW cmp \in Comparisons(a, b)
    PROVE  /\ Dominates(a, b) => cmp = "after"
           /\ ~Dominates(a, b) /\ Dominates(b, a) => cmp = "before"
BY DEF Comparisons

LEMMA NoneTyped == None \in Value /\ NoClock \in [Regions -> Nat] /\ NoRow \in Doc
BY DEF None, NoClock, NoRow, Value, Doc

\* A snapshot resolved into a row of the same document.
LEMMA ResolveIs ==
    ASSUME NEW local \in Doc, NEW remote \in Doc, NEW cmp
    PROVE  LET new == Resolve(local, remote, cmp) IN
           /\ new \in Doc
           /\ new.clock = Merged(local.clock, remote.clock)
           /\ \A f \in Fields :
                  new.fields[f] = IF cmp = "before" /\ remote.fields[f] # None
                                  THEN remote.fields[f] ELSE local.fields[f]
<1> DEFINE clock  == Merged(local.clock, remote.clock)
           fields == IF cmp = "before"
                     THEN [f \in Fields |-> Taken(local.fields[f], remote.fields[f])]
                     ELSE local.fields
           status == IF cmp = "before" THEN Taken(local.status, remote.status) ELSE local.status
<1>1. clock \in [Regions -> Nat]
  BY MergedIs DEF Doc
<1>2. fields \in [Fields -> Value] /\ status \in Value
  BY DEF Doc, Taken
<1>3. \A f \in Fields : fields[f] = IF cmp = "before" /\ remote.fields[f] # None
                                    THEN remote.fields[f] ELSE local.fields[f]
  BY DEF Doc, Taken
<1>4. Resolve(local, remote, cmp) = [known |-> TRUE, clock |-> clock, fields |-> fields,
                                     status |-> status]
  BY DEF Resolve
<1> HIDE DEF clock, fields, status
<1>5. Resolve(local, remote, cmp) \in Doc
  BY <1>1, <1>2, <1>4 DEF Doc
<1>6. /\ Resolve(local, remote, cmp).clock = clock
      /\ Resolve(local, remote, cmp).fields = fields
  BY <1>4
<1> QED BY <1>3, <1>5, <1>6 DEF clock

LEMMA ResolveCounted ==
    ASSUME ReplicaTypeOK, NEW local \in Doc, NEW remote \in Doc, NEW cmp,
           Counted(local), Counted(remote)
    PROVE  Counted(Resolve(local, remote, cmp))
<1>1. local.clock \in [Regions -> Nat] /\ remote.clock \in [Regions -> Nat]
  BY DEF Doc
<1>2. \A q \in Regions : Merged(local.clock, remote.clock)[q] \in {local.clock[q], remote.clock[q]}
  BY <1>1, MergedIs
<1> QED BY <1>2, ResolveIs DEF Counted

LEMMA ResolveBacked ==
    ASSUME NEW local \in Doc, NEW remote \in Doc, NEW cmp, Backed(local), Backed(remote)
    PROVE  Backed(Resolve(local, remote, cmp))
<1> DEFINE new == Resolve(local, remote, cmp)
<1>1. local.clock \in [Regions -> Nat] /\ remote.clock \in [Regions -> Nat]
  BY DEF Doc
<1>2. \A q \in Regions : new.clock[q] >= local.clock[q] /\ new.clock[q] >= remote.clock[q]
  BY <1>1, MergedIs, ResolveIs
<1>3. new \in Doc
  BY ResolveIs
<1>4. \A f \in Fields : new.fields[f] = remote.fields[f] \/ new.fields[f] = local.fields[f]
  BY ResolveIs
<1> HIDE DEF new
<1>5. SUFFICES ASSUME raced = {}, NEW f \in Fields, new.fields[f] # None
               PROVE  /\ new.fields[f].by \in Regions
                      /\ new.fields[f].count <= new.clock[new.fields[f].by]
  BY DEF Backed, new
<1>6. PICK R \in {local, remote} : new.fields[f] = R.fields[f]
  BY <1>4
<1>7. R.fields[f] \in Value /\ R.clock \in [Regions -> Nat]
  BY DEF Doc
<1>8. R.fields[f].by \in Regions /\ R.fields[f].count <= R.clock[R.fields[f].by]
  BY <1>5, <1>6 DEF Backed
<1>9. R.clock[R.fields[f].by] <= new.clock[R.fields[f].by]
  BY <1>1, <1>2, <1>3, <1>8 DEF Doc
<1>10. /\ R.fields[f].count \in Nat /\ R.clock[R.fields[f].by] \in Nat
       /\ new.clock[R.fields[f].by] \in Nat
  BY <1>3, <1>7, <1>8 DEF Value, Doc
<1> QED BY <1>6, <1>8, <1>9, <1>10

\* If the edits were made in turn, a merge of what two of them left is what the
\* later one left.
LEMMA ResolveSettled ==
    ASSUME NEW local \in Doc, NEW remote \in Doc,
           NEW cmp \in Comparisons(local.clock, remote.clock),
           journal \subseteq Doc, Settled(local), Settled(remote)
    PROVE  Settled(Resolve(local, remote, cmp))
<1> DEFINE new == Resolve(local, remote, cmp)
<1>1. SUFFICES ASSUME EditedInTurn, raced = {}
               PROVE  /\ \E j \in journal : j.clock = new.clock
                      /\ \A j \in journal : \A f \in Fields :
                             (j.clock = new.clock /\ j.fields[f] # None) =>
                                 new.fields[f] = j.fields[f]
  BY DEF Settled
<1>2. local.clock \in [Regions -> Nat] /\ remote.clock \in [Regions -> Nat]
  BY DEF Doc
<1>3. PICK a \in journal : a.clock = local.clock
  BY <1>1 DEF Settled
<1>4. PICK b \in journal : b.clock = remote.clock
  BY <1>1 DEF Settled
<1>5. \/ local.clock = remote.clock
      \/ Dominates(local.clock, remote.clock)
      \/ Dominates(remote.clock, local.clock)
  BY <1>1, <1>3, <1>4 DEF EditedInTurn
<1>6. /\ new.clock = Merged(local.clock, remote.clock)
      /\ \A f \in Fields : new.fields[f] = IF cmp = "before" /\ remote.fields[f] # None
                                           THEN remote.fields[f] ELSE local.fields[f]
  BY ResolveIs
<1> HIDE DEF new
<1>7. /\ \A j \in journal : \A f \in Fields :
            j.clock = local.clock /\ j.fields[f] # None => local.fields[f] = j.fields[f]
      /\ \A j \in journal : \A f \in Fields :
            j.clock = remote.clock /\ j.fields[f] # None => remote.fields[f] = j.fields[f]
  BY <1>1 DEF Settled
<1>8. CASE local.clock = remote.clock
  <2>1. new.clock = local.clock
    BY <1>2, <1>6, <1>8, MergedIs
  <2> QED BY <1>3, <1>6, <1>7, <1>8, <2>1
<1>9. CASE Dominates(local.clock, remote.clock)
  <2>1. new.clock = local.clock /\ cmp = "after"
    BY <1>2, <1>6, <1>9, MergedIs, NewerWins
  <2> QED BY <1>3, <1>6, <1>7, <2>1
<1>10. CASE Dominates(remote.clock, local.clock) /\ ~Dominates(local.clock, remote.clock)
  <2>1. new.clock = remote.clock /\ cmp = "before"
    BY <1>2, <1>6, <1>10, MergedIs, NewerWins
  <2> QED BY <1>4, <1>6, <1>7, <2>1
<1> QED BY <1>5, <1>8, <1>9, <1>10

-----------------------------------------------------------------------------
(* The invariant.                                                          *)

LEMMA ReplicaStart == ReplicaInit => ReplicaInv
<1> SUFFICES ASSUME ReplicaInit PROVE ReplicaInv
  OBVIOUS
<1>1. PICK u \in Uploads : row = [r \in Regions |-> IF r = Home THEN u ELSE NoRow]
  BY DEF ReplicaInit
<1>2. PICK n \in 0 .. 1 :
         u = [NoRow EXCEPT !.known = TRUE, !.clock[Home] = n, !.status = [by |-> Home, count |-> 0],
                           !.fields = [f \in Fields |-> [by |-> Home, count |-> n]]]
  BY DEF Uploads
<1>3. Home \in Regions /\ Home \in Nat /\ n \in Nat
  BY ReplicaAssumption
<1>4. /\ u \in Doc /\ u.known = TRUE /\ u.clock = [NoClock EXCEPT ![Home] = n]
      /\ u.fields = [f \in Fields |-> [by |-> Home, count |-> n]]
  <2>1. u = [known |-> TRUE, clock |-> [NoClock EXCEPT ![Home] = n],
             fields |-> [f \in Fields |-> [by |-> Home, count |-> n]],
             status |-> [by |-> Home, count |-> 0]]
    BY <1>2 DEF NoRow
  <2>2. [NoClock EXCEPT ![Home] = n] \in [Regions -> Nat]
    BY <1>3 DEF NoClock
  <2>3. [by |-> Home, count |-> n] \in Value /\ [by |-> Home, count |-> 0] \in Value
    BY <1>3 DEF Value
  <2> QED BY <2>1, <2>2, <2>3 DEF Doc
<1>5. /\ row[Home] = u /\ \A r \in Regions : r # Home => row[r] = NoRow
      /\ NoRow.known = FALSE /\ NoRow.clock = NoClock
      /\ \A f \in Fields : NoRow.fields[f] = None
  BY <1>3, <1>1 DEF NoRow
<1>6. /\ steps = [r \in Regions |-> <<>>] /\ handling = [r \in Regions |-> {}]
      /\ sent = {} /\ journal = {u} /\ raced = {}
  BY <1>5 DEF ReplicaInit
<1>7. ReplicaTypeOK
  BY <1>1, <1>4, <1>6, NoneTyped DEF ReplicaTypeOK
<1>8. u.clock[Home] = n /\ \A q \in Regions : q # Home => u.clock[q] = 0
  BY <1>3, <1>4 DEF NoClock
<1>9. Counted(u) /\ Counted(NoRow)
  <2>1. \A q \in Regions : NoRow.clock[q] = 0
    BY <1>5 DEF NoClock
  <2>2. \A q \in Regions : row[q].clock[q] >= u.clock[q] /\ row[q].clock[q] >= 0
    BY <1>3, <1>5, <1>8, <2>1
  <2>3. \A q \in Regions : u.clock[q] \in Nat /\ row[q].clock[q] \in Nat
    BY <1>3, <1>5, <1>8, <2>1
  <2> QED BY <2>1, <2>2, <2>3 DEF Counted
<1>10. Backed(u) /\ Backed(NoRow)
  <2>1. \A f \in Fields : u.fields[f] = [by |-> Home, count |-> n]
    BY <1>4
  <2> QED BY <1>3, <1>5, <1>8, <2>1 DEF Backed
<1>11. Settled(u)
  BY <1>6 DEF Settled
<1>12. \A r \in Regions : RowInv(r)
  BY <1>4, <1>5, <1>9, <1>10, <1>11 DEF RowInv
<1> QED BY <1>6, <1>7, <1>9, <1>12 DEF ReplicaInv

\* Where a region lost no edit its own counter only rises, so that what was
\* counted is.
LEMMA CountedStays ==
    ASSUME ReplicaTypeOK, ReplicaTypeOK', NEW R \in Doc, Counted(R), raced \subseteq raced',
           \A q \in Regions \ raced' : row[q].clock[q] <= row'[q].clock[q]
    PROVE  Counted(R)'
<1> SUFFICES ASSUME NEW q \in Regions \ raced' PROVE R.clock[q] <= row'[q].clock[q]
  BY DEF Counted
<1>1. R.clock[q] \in Nat /\ row[q].clock[q] \in Nat /\ row'[q].clock[q] \in Nat
  BY DEF ReplicaTypeOK, Doc
<1>2. R.clock[q] <= row[q].clock[q] /\ row[q].clock[q] <= row'[q].clock[q]
  BY DEF Counted
<1> QED BY <1>1, <1>2

\* An edit that nobody counted says nothing of a row that is counted.
LEMMA SettledStays ==
    ASSUME ReplicaTypeOK, NEW R \in Doc, Counted(R), Settled(R), NEW r \in Regions,
           NEW j \in Doc, journal' = journal \cup {j}, j.clock[r] > row[r].clock[r],
           raced \subseteq raced'
    PROVE  Settled(R)'
<1>1. EditedInTurn' => EditedInTurn
  BY DEF EditedInTurn
<1>2. raced = {} => j.clock # R.clock
  <2>1. R.clock[r] \in Nat /\ row[r].clock[r] \in Nat /\ j.clock[r] \in Nat
    BY DEF ReplicaTypeOK, Doc
  <2>2. raced = {} => R.clock[r] <= row[r].clock[r]
    BY DEF Counted
  <2> QED BY <2>1, <2>2
<1> QED BY <1>1, <1>2 DEF Settled

-----------------------------------------------------------------------------
(* Requests that begin.                                                    *)

LEMMA BeginKeeps ==
    ASSUME ReplicaInv, NEW r \in Regions, NEW new \in Doc,
           NEW from \in Seq(Value), NEW ids \in Nat,
           Begin(r, row[r], new, from, ids), UNCHANGED <<row, steps, sent, journal, raced>>,
           Backed(new), \A q \in Regions : row[r].clock[q] <= new.clock[q],
           \/ /\ new.clock[r] > row[r].clock[r]
              /\ \A q \in Regions \ raced : q # r => new.clock[q] <= row[q].clock[q]
           \/ Counted(new) /\ Settled(new)
    PROVE  ReplicaInv'
<1>1. PICK h : h = [read |-> row[r], new |-> new, steps |-> from, ids |-> ids]
  OBVIOUS
<1>2. row[r] \in Doc /\ handling \in [Regions -> SUBSET Handled]
  BY DEF ReplicaInv, ReplicaTypeOK
<1>3. h \in Handled /\ h.read = row[r] /\ h.new = new
  BY <1>1, <1>2 DEF Handled
<1>4. handling' = [handling EXCEPT ![r] = @ \cup {h}]
  BY <1>1 DEF Begin
<1>5. /\ handling' \in [Regions -> SUBSET Handled] /\ handling'[r] = handling[r] \cup {h}
      /\ \A q \in Regions : q # r => handling'[q] = handling[q]
  BY <1>2, <1>3, <1>4
<1>6. ReplicaTypeOK'
  BY <1>5 DEF ReplicaInv, ReplicaTypeOK
<1>7. /\ EditedInTurn' = EditedInTurn /\ \A R : Counted(R)' = Counted(R)
      /\ \A R : Backed(R)' = Backed(R)
  BY DEF EditedInTurn, Counted, Backed
<1>8. \A R : Settled(R)' = Settled(R)
  BY <1>7 DEF Settled
<1>9. HandlingInv(r, h)'
  BY <1>3, <1>7, <1>8 DEF HandlingInv, Counted
<1>10. \A q \in Regions : \A g \in handling[q] : HandlingInv(q, g)'
  BY <1>7, <1>8 DEF HandlingInv, ReplicaInv
<1>11. \A q \in Regions : \A g \in handling'[q] : HandlingInv(q, g)'
  BY <1>5, <1>9, <1>10
<1>12. \A q \in Regions : RowInv(q)'
  BY <1>7, <1>8 DEF RowInv, ReplicaInv
<1>13. \A m \in sent' : SentInv(m)'
  BY <1>7, <1>8 DEF SentInv, ReplicaInv
<1>14. \A j \in journal' : Counted(j)'
  BY <1>7 DEF ReplicaInv
<1> QED BY <1>6, <1>11, <1>12, <1>13, <1>14 DEF ReplicaInv

\* A PATCH counts one edit of its region, and its values are that edit.
LEMMA UpdateKeeps ==
    ASSUME ReplicaInv, NEW r \in Regions,
           NEW F \in SUBSET Fields, NEW E \in SUBSET F, UpdateDocument(r, F, E)
    PROVE  ReplicaInv'
<1>1. row[r] \in Doc /\ r \in Nat
  BY ReplicaAssumption DEF ReplicaInv, ReplicaTypeOK
<1>2. PICK d : d = row[r]
  OBVIOUS
<1>3. d \in Doc /\ d.clock \in [Regions -> Nat] /\ d.fields \in [Fields -> Value]
  BY <1>1, <1>2 DEF Doc
<1>4. PICK clock : clock = [d.clock EXCEPT ![r] = @ + 1]
  OBVIOUS
<1>5. /\ clock \in [Regions -> Nat] /\ clock[r] = d.clock[r] + 1
      /\ \A q \in Regions : q # r => clock[q] = d.clock[q]
      /\ clock[r] \in Nat /\ clock[r] > d.clock[r]
      /\ \A q \in Regions : d.clock[q] <= clock[q]
  BY <1>3, <1>4
<1>6. PICK fields : fields = [f \in Fields |-> IF f \in E THEN None
                                              ELSE IF f \in F THEN [by |-> r, count |-> clock[r]]
                                              ELSE d.fields[f]]
  OBVIOUS
<1>7. fields \in [Fields -> Value]
  <2>1. [by |-> r, count |-> clock[r]] \in Value /\ None \in Value
    BY <1>1, <1>5, NoneTyped DEF Value
  <2> QED BY <1>3, <1>6, <2>1
<1>8. PICK new : new = [d EXCEPT !.clock = clock, !.fields = fields]
  OBVIOUS
<1>9. new \in Doc /\ new.clock = clock /\ new.fields = fields
  BY <1>3, <1>5, <1>7, <1>8 DEF Doc
<1>10. Begin(r, row[r], new, <<>>, 0) /\ UNCHANGED <<row, steps, sent, journal, raced>>
  BY <1>2, <1>4, <1>6, <1>8 DEF UpdateDocument, Stamp
<1>11. Backed(new)
  <2> SUFFICES ASSUME raced = {}, NEW f \in Fields, fields[f] # None
               PROVE  fields[f].by \in Regions /\ fields[f].count <= clock[fields[f].by]
    BY <1>9 DEF Backed
  <2>1. CASE f \in F
    BY <1>5, <1>6, <2>1
  <2>2. CASE f \notin F
    <3>1. fields[f] = d.fields[f]
      BY <1>6, <2>2
    <3>2. d.fields[f].by \in Regions /\ d.fields[f].count <= d.clock[d.fields[f].by]
      BY <1>2, <3>1 DEF ReplicaInv, RowInv, Backed
    <3>3. d.fields[f].count \in Nat
      BY <1>3 DEF Value
    <3> QED BY <1>3, <1>5, <3>1, <3>2, <3>3
  <2> QED BY <2>1, <2>2
<1>12. \A q \in Regions \ raced : q # r => new.clock[q] <= row[q].clock[q]
  BY <1>2, <1>5, <1>9 DEF ReplicaInv, RowInv, Counted
<1>13. <<>> \in Seq(Value)
  OBVIOUS
<1> QED BY <1>2, <1>5, <1>9, <1>10, <1>11, <1>12, <1>13, BeginKeeps

\* A snapshot makes no edit.
LEMMA ApplyKeeps ==
    ASSUME ReplicaInv, NEW r \in Regions, NEW m \in sent, Apply(r, m)
    PROVE  ReplicaInv'
<1>1. /\ row[r] \in Doc /\ m.row \in Doc /\ m.steps \in Seq(Value) /\ steps[r] \in Seq(Value)
      /\ ReplicaTypeOK /\ journal \subseteq Doc
  BY DEF ReplicaInv, ReplicaTypeOK
<1>2. RowInv(r) /\ SentInv(m)
  BY DEF ReplicaInv
<1>3. PICK cmp, new :
         /\ cmp \in Comparisons(row[r].clock, m.row.clock)
         /\ new = IF row[r].known THEN Resolve(row[r], m.row, cmp) ELSE m.row
         /\ Begin(r, row[r], new, m.steps, Len(steps[r]))
         /\ UNCHANGED <<row, steps, sent, journal, raced>>
  BY DEF Apply
<1>4. /\ new \in Doc /\ Counted(new) /\ Backed(new) /\ Settled(new)
      /\ \A q \in Regions : row[r].clock[q] <= new.clock[q]
  <2>1. CASE row[r].known
    <3>1. new = Resolve(row[r], m.row, cmp)
      BY <1>3, <2>1
    <3>2. new \in Doc /\ new.clock = Merged(row[r].clock, m.row.clock)
      BY <1>1, <3>1, ResolveIs
    <3>3. row[r].clock \in [Regions -> Nat] /\ m.row.clock \in [Regions -> Nat]
      BY <1>1 DEF Doc
    <3>4. \A q \in Regions : row[r].clock[q] <= new.clock[q]
      BY <3>2, <3>3, MergedIs
    <3>5. Counted(new) /\ Backed(new)
      BY <1>1, <1>2, <3>1, ResolveCounted, ResolveBacked DEF RowInv, SentInv
    <3>6. Settled(new)
      <4>1. Settled(row[r]) /\ Settled(m.row)
        BY <1>2, <2>1 DEF RowInv, SentInv
      <4>2. cmp \in Comparisons(row[r].clock, m.row.clock)
        BY <1>3
      <4> QED BY <1>1, <3>1, <4>1, <4>2, ResolveSettled
    <3> QED BY <3>2, <3>4, <3>5, <3>6
  <2>2. CASE ~row[r].known
    <3>1. new = m.row /\ row[r].clock = NoClock
      BY <1>2, <1>3, <2>2 DEF RowInv
    <3>2. \A q \in Regions : row[r].clock[q] <= new.clock[q]
      BY <1>1, <3>1 DEF NoClock, Doc
    <3> QED BY <1>1, <1>2, <3>1, <3>2 DEF SentInv
  <2> QED BY <2>1, <2>2
<1>5. Len(steps[r]) \in Nat
  BY <1>1
<1> QED BY <1>1, <1>3, <1>4, <1>5, BeginKeeps

-----------------------------------------------------------------------------
(* The other steps.                                                        *)

\* A commit stores the clock that was there or the one its request made, and
\* just what its request made if nothing came between.
LEMMA StoredIs ==
    ASSUME NEW r \in Regions, row[r] \in Doc, NEW h \in Handled
    PROVE  LET new == Stored(row[r], h) IN
           /\ new \in Doc /\ new.known = TRUE /\ new.clock \in {row[r].clock, h.new.clock}
           /\ h.read.clock = row[r].clock => new.clock = h.new.clock
           /\ ~Overtaken(r, h) => new.fields = h.new.fields
<1> DEFINE local == row[r]
<1>1. h.read \in Doc /\ h.new \in Doc /\ local \in Doc
  BY DEF Handled
<1>2. PICK clock, fields, status :
         /\ clock = Column(local.clock, h.read.clock, h.new.clock)
         /\ fields = [f \in Fields |-> Column(local.fields[f], h.read.fields[f], h.new.fields[f])]
         /\ status = Column(local.status, h.read.status, h.new.status)
  OBVIOUS
<1>3. clock \in {local.clock, h.new.clock} /\ (h.read.clock = local.clock => clock = h.new.clock)
  BY <1>2 DEF Column
<1>4. ~Overtaken(r, h) => fields = h.new.fields
  <2> SUFFICES ASSUME h.read.fields = local.fields PROVE fields = h.new.fields
    BY DEF Overtaken
  <2>1. fields = [f \in Fields |-> h.new.fields[f]]
    BY <1>2 DEF Column
  <2>2. h.new.fields \in [Fields -> Value]
    BY <1>1 DEF Doc
  <2> QED BY <2>1, <2>2
<1>5. status \in Value /\ fields \in [Fields -> Value] /\ clock \in [Regions -> Nat]
  BY <1>1, <1>2, <1>3 DEF Column, Doc
<1>6. Stored(local, h) = [known |-> TRUE, clock |-> clock, fields |-> fields, status |-> status]
  BY <1>2 DEF Stored
<1>7. Stored(local, h) \in Doc
  BY <1>5, <1>6 DEF Doc
<1> QED BY <1>3, <1>4, <1>6, <1>7

LEMMA FreshTyped == ASSUME NEW h \in Handled PROVE Fresh(h) \in Seq(Value)
<1>1. h.steps \in Seq(Value) /\ h.ids \in Nat
  BY DEF Handled
<1>2. \A i \in h.ids + 1 .. Len(h.steps) : i \in 1 .. Len(h.steps)
  BY <1>1
<1>3. \A i \in h.ids + 1 .. Len(h.steps) : h.steps[i] \in Value
  BY <1>1, <1>2
<1> QED BY <1>1, <1>3 DEF Fresh

\* A commit that is stored over another marks its region.  One that is not
\* stores the edit, or the merge, that its request made.
LEMMA CommitKeeps ==
    ASSUME ReplicaInv, NEW r \in Regions, NEW h \in handling[r], Commit(r, h)
    PROVE  ReplicaInv'
<1>1. /\ ReplicaTypeOK /\ row[r] \in Doc /\ h \in Handled /\ h.new \in Doc /\ h.read \in Doc
      /\ row \in [Regions -> Doc] /\ steps \in [Regions -> Seq(Value)]
      /\ handling \in [Regions -> SUBSET Handled] /\ journal \subseteq Doc
      /\ raced \subseteq Regions
  BY DEF ReplicaInv, ReplicaTypeOK, Handled
<1>2. /\ handling' \in [Regions -> SUBSET Handled] /\ UNCHANGED sent
      /\ \A q \in Regions : handling'[q] \subseteq handling[q]
  <2>1. handling' = [handling EXCEPT ![r] = @ \ {h}]
    BY DEF Commit
  <2> QED BY <1>1, <2>1 DEF Commit
<1>3. HandlingInv(r, h) /\ RowInv(r)
  BY DEF ReplicaInv
<1>4. CASE UNCHANGED <<row, steps, journal, raced>>
  <2>1. ReplicaTypeOK'
    BY <1>2, <1>4 DEF ReplicaInv, ReplicaTypeOK
  <2>2. /\ EditedInTurn' = EditedInTurn /\ \A R : Counted(R)' = Counted(R)
        /\ \A R : Backed(R)' = Backed(R)
    BY <1>4 DEF EditedInTurn, Counted, Backed
  <2>3. \A R : Settled(R)' = Settled(R)
    BY <1>4, <2>2 DEF Settled
  <2>4. \A q \in Regions : RowInv(q)'
    BY <1>4, <2>2, <2>3 DEF RowInv, ReplicaInv
  <2>5. \A m \in sent' : SentInv(m)'
    BY <1>2, <2>2, <2>3 DEF SentInv, ReplicaInv
  <2>6. \A q \in Regions : \A g \in handling'[q] : HandlingInv(q, g)'
    BY <1>2, <1>4, <2>2, <2>3 DEF HandlingInv, ReplicaInv
  <2>7. \A j \in journal' : Counted(j)'
    BY <1>4, <2>2 DEF ReplicaInv
  <2> QED BY <2>1, <2>4, <2>5, <2>6, <2>7 DEF ReplicaInv
<1>5. CASE ~UNCHANGED <<row, steps, journal, raced>>
  <2>1. PICK new : new = Stored(row[r], h)
    OBVIOUS
  <2>2. /\ row' = [row EXCEPT ![r] = new] /\ steps' = [steps EXCEPT ![r] = @ \o Fresh(h)]
        /\ journal' = IF h.new.clock[r] > h.read.clock[r] THEN journal \cup {new} ELSE journal
        /\ raced' = IF Overtaken(r, h) THEN raced \cup {r} ELSE raced
    BY <1>5, <2>1 DEF Commit
  <2>3. /\ new \in Doc /\ new.known = TRUE /\ new.clock \in {row[r].clock, h.new.clock}
        /\ ~Overtaken(r, h) => /\ new.clock = h.new.clock /\ new.fields = h.new.fields
                               /\ h.read.clock = row[r].clock
    BY <1>1, <2>1, StoredIs DEF Overtaken
  <2>4. /\ row'[r] = new /\ row' \in [Regions -> Doc]
        /\ \A q \in Regions : q # r => row'[q] = row[q]
    BY <1>1, <2>2, <2>3
  <2>5. /\ raced \subseteq raced' /\ raced' \subseteq Regions
        /\ r \notin raced' => ~Overtaken(r, h)
    BY <1>1, <2>2
  <2>6. ReplicaTypeOK'
    <3>1. steps[r] \o Fresh(h) \in Seq(Value)
      BY <1>1, FreshTyped, ConcatProperties
    <3>2. steps' \in [Regions -> Seq(Value)] /\ journal' \subseteq Doc
      BY <1>1, <2>2, <2>3, <3>1
    <3> QED BY <1>2, <2>4, <2>5, <3>2 DEF ReplicaInv, ReplicaTypeOK
  <2>7. \A q \in Regions : /\ new.clock[q] \in Nat /\ row[q].clock[q] \in Nat
                          /\ row[r].clock[q] \in Nat /\ h.new.clock[q] \in Nat
                          /\ h.read.clock[q] \in Nat
    BY <1>1, <2>3 DEF Doc
  <2>8. \A q \in Regions \ raced' : row[q].clock[q] <= row'[q].clock[q]
    <3> SUFFICES ASSUME NEW q \in Regions \ raced' PROVE row[q].clock[q] <= row'[q].clock[q]
      OBVIOUS
    <3>1. CASE q = r
      BY <1>3, <2>3, <2>4, <2>5, <3>1 DEF HandlingInv
    <3>2. CASE q # r
      BY <2>4, <2>7, <3>2
    <3> QED BY <3>1, <3>2
  <2>9. \A R \in Doc : Counted(R) => Counted(R)'
    BY <1>1, <2>5, <2>6, <2>8, CountedStays
  <2>10. Counted(new)'
    <3> SUFFICES ASSUME NEW q \in Regions \ raced' PROVE new.clock[q] <= row'[q].clock[q]
      BY DEF Counted
    <3>1. CASE q = r
      BY <2>4, <2>7, <3>1
    <3>2. CASE q # r
      <4>1. row[r].clock[q] <= row[q].clock[q]
        BY <1>3, <2>5 DEF RowInv, Counted
      <4>2. h.new.clock[q] <= row[q].clock[q]
        BY <1>3, <2>5, <3>2 DEF HandlingInv
      <4> QED BY <2>3, <2>4, <3>2, <4>1, <4>2
    <3> QED BY <3>1, <3>2
  <2>11. \A j \in journal' : Counted(j)'
    BY <1>1, <2>2, <2>9, <2>10 DEF ReplicaInv
  <2>12. Backed(new)' /\ \A R : Backed(R) => Backed(R)'
    <3>1. raced' = {} => raced = {} /\ ~Overtaken(r, h)
      BY <2>5
    <3>2. Backed(h.new)
      BY <1>3 DEF HandlingInv
    <3> QED BY <2>3, <3>1, <3>2 DEF Backed
  <2>13. Settled(new)' /\ \A R \in Doc : Counted(R) /\ Settled(R) => Settled(R)'
    <3>1. CASE raced' # {}
      BY <3>1 DEF Settled
    <3>2. CASE raced' = {} /\ h.new.clock[r] > h.read.clock[r]
      <4>1. journal' = journal \cup {new} /\ new.clock[r] > row[r].clock[r] /\ raced = {}
        BY <2>2, <2>3, <2>5, <3>2
      <4>2. \A j \in journal : j.clock # new.clock
        <5> SUFFICES ASSUME NEW j \in journal PROVE j.clock[r] # new.clock[r]
          OBVIOUS
        <5>1. j.clock[r] <= row[r].clock[r] /\ j.clock[r] \in Nat
          BY <1>1, <4>1 DEF ReplicaInv, Counted, Doc
        <5> QED BY <2>7, <4>1, <5>1
      <4>3. Settled(new)'
        BY <4>1, <4>2 DEF Settled
      <4> QED BY <1>1, <2>3, <2>5, <4>1, <4>3, SettledStays
    <3>3. CASE raced' = {} /\ ~(h.new.clock[r] > h.read.clock[r])
      <4>1. journal' = journal /\ raced = {}
        BY <2>2, <2>5, <3>3
      <4>2. \A R : Settled(R)' = Settled(R)
        BY <3>3, <4>1 DEF Settled, EditedInTurn
      <4>3. Settled(h.new)
        BY <1>3, <3>3 DEF HandlingInv
      <4>4. Settled(new)
        BY <2>3, <2>5, <3>3, <4>3 DEF Settled
      <4> QED BY <4>2, <4>4
    <3> QED BY <3>1, <3>2, <3>3
  <2>14. \A q \in Regions : RowInv(q)'
    <3> SUFFICES ASSUME NEW q \in Regions PROVE RowInv(q)'
      OBVIOUS
    <3>1. CASE q = r
      BY <2>3, <2>4, <2>10, <2>12, <2>13, <3>1 DEF RowInv
    <3>2. CASE q # r
      <4>1. row'[q] = row[q] /\ row[q] \in Doc /\ RowInv(q)
        BY <1>1, <2>4, <3>2 DEF ReplicaInv
      <4>2. Counted(row[q])' /\ Backed(row[q])' /\ (row[q].known => Settled(row[q])')
        BY <2>9, <2>12, <2>13, <4>1 DEF RowInv
      <4> QED BY <4>1, <4>2 DEF RowInv
    <3> QED BY <3>1, <3>2
  <2>15. \A m \in sent' : SentInv(m)'
    <3> SUFFICES ASSUME NEW m \in sent PROVE SentInv(m)'
      BY <1>2
    <3>1. m.row \in Doc /\ SentInv(m)
      BY DEF ReplicaInv, ReplicaTypeOK
    <3> QED BY <2>9, <2>12, <2>13, <3>1 DEF SentInv
  <2>16. \A q \in Regions : \A g \in handling'[q] : HandlingInv(q, g)'
    <3> SUFFICES ASSUME NEW q \in Regions, NEW g \in handling[q] PROVE HandlingInv(q, g)'
      BY <1>2
    <3>1. g.new \in Doc /\ HandlingInv(q, g)
      BY <1>1 DEF ReplicaInv, Handled
    <3>2. Counted(g.new) /\ Settled(g.new) => Counted(g.new)' /\ Settled(g.new)'
      BY <2>9, <2>13, <3>1
    <3>3. ASSUME NEW p \in Regions \ raced', p # q PROVE g.new.clock[p] <= row'[p].clock[p]
      <4>1. g.new.clock[p] <= row[p].clock[p] /\ row[p].clock[p] <= row'[p].clock[p]
        BY <2>5, <2>8, <3>1, <3>3 DEF HandlingInv
      <4>2. row[p] \in Doc /\ row'[p] \in Doc
        BY <1>1, <2>4
      <4>3. g.new.clock[p] \in Nat /\ row[p].clock[p] \in Nat /\ row'[p].clock[p] \in Nat
        BY <3>1, <4>2 DEF Doc
      <4> QED BY <4>1, <4>3
    <3> QED BY <2>12, <3>1, <3>2, <3>3 DEF HandlingInv
  <2> QED BY <2>6, <2>11, <2>14, <2>15, <2>16 DEF ReplicaInv
<1> QED BY <1>4, <1>5

\* A decision counts no edit and writes no column of an edit.
LEMMA WorkflowKeeps ==
    ASSUME ReplicaInv, NEW r \in Regions, WorkflowAction(r)
    PROVE  ReplicaInv'
<1>1. /\ row[r] \in Doc /\ steps[r] \in Seq(Value) /\ r \in Nat
      /\ row \in [Regions -> Doc] /\ steps \in [Regions -> Seq(Value)]
  BY ReplicaAssumption DEF ReplicaInv, ReplicaTypeOK
<1>2. PICK own : own = {i \in DOMAIN steps[r] : steps[r][i].by = r}
  OBVIOUS
<1>3. Cardinality(own) \in Nat
  <2>1. DOMAIN steps[r] = 1 .. Len(steps[r]) /\ Len(steps[r]) \in Nat
    BY <1>1
  <2>2. IsFiniteSet(1 .. Len(steps[r]))
    BY <2>1, FS_Interval
  <2>3. own \subseteq 1 .. Len(steps[r])
    BY <1>2, <2>1
  <2>4. IsFiniteSet(own)
    BY <2>2, <2>3, FS_Subset
  <2> QED BY <2>4, FS_CardinalityType
<1>4. PICK step : step = [by |-> r, count |-> 1 + Cardinality(own)]
  OBVIOUS
<1>5. step \in Value
  BY <1>1, <1>3, <1>4 DEF Value
<1>6. /\ row' = [row EXCEPT ![r].status = step] /\ steps' = [steps EXCEPT ![r] = Append(@, step)]
      /\ UNCHANGED <<handling, sent, journal, raced>>
  BY <1>2, <1>4 DEF WorkflowAction
<1>7. /\ row' \in [Regions -> Doc]
      /\ \A q \in Regions : /\ row'[q].known = row[q].known /\ row'[q].clock = row[q].clock
                           /\ row'[q].fields = row[q].fields
  <2>1. [row[r] EXCEPT !.status = step] \in Doc
    BY <1>1, <1>5 DEF Doc
  <2>2. /\ [row[r] EXCEPT !.status = step].known = row[r].known
        /\ [row[r] EXCEPT !.status = step].clock = row[r].clock
        /\ [row[r] EXCEPT !.status = step].fields = row[r].fields
    BY <1>1 DEF Doc
  <2>3. row' = [row EXCEPT ![r] = [row[r] EXCEPT !.status = step]]
    BY <1>6
  <2> HIDE DEF Doc
  <2> QED BY <1>1, <2>1, <2>2, <2>3
<1>8. steps' \in [Regions -> Seq(Value)]
  BY <1>1, <1>5, <1>6
<1>9. ReplicaTypeOK'
  BY <1>6, <1>7, <1>8 DEF ReplicaInv, ReplicaTypeOK
<1>10. /\ EditedInTurn' = EditedInTurn /\ \A R : Backed(R)' = Backed(R)
       /\ \A R : Counted(R) => Counted(R)'
  BY <1>6, <1>7 DEF EditedInTurn, Counted, Backed
<1>11. \A R : Settled(R)' = Settled(R)
  BY <1>6, <1>10 DEF Settled
<1>12. \A q \in Regions : RowInv(q)'
  <2> SUFFICES ASSUME NEW q \in Regions PROVE RowInv(q)'
    OBVIOUS
  <2>1. /\ Counted(row[q]) /\ Backed(row[q])
        /\ IF row[q].known THEN Settled(row[q]) ELSE row[q].clock = NoClock
    BY DEF ReplicaInv, RowInv
  <2>2. Counted(row[q])'
    BY <1>6, <1>7, <2>1 DEF Counted
  <2>3. Backed(row[q])'
    BY <1>6, <1>7, <2>1 DEF Backed
  <2>4. Settled(row[q]) => Settled(row[q])'
    BY <1>6, <1>7, <1>10 DEF Settled
  <2> QED BY <1>7, <2>1, <2>2, <2>3, <2>4 DEF RowInv
<1>13. \A m \in sent' : SentInv(m)'
  BY <1>6, <1>10, <1>11 DEF SentInv, ReplicaInv
<1>14. \A q \in Regions : \A h \in handling'[q] : HandlingInv(q, h)'
  BY <1>6, <1>7, <1>10, <1>11 DEF HandlingInv, ReplicaInv
<1>15. \A j \in journal' : Counted(j)'
  BY <1>6, <1>10 DEF ReplicaInv
<1> QED BY <1>6, <1>9, <1>12, <1>13, <1>14, <1>15 DEF ReplicaInv

\* A snapshot says what the row says.
LEMMA SendKeeps ==
    ASSUME ReplicaInv, NEW r \in Regions, Send(r)
    PROVE  ReplicaInv'
<1>1. /\ row[r] \in Doc /\ steps[r] \in Seq(Value) /\ row[r].known /\ RowInv(r)
      /\ UNCHANGED <<row, steps, handling, journal, raced>>
      /\ sent' = sent \cup {[row |-> row[r], steps |-> steps[r]]}
  BY DEF ReplicaInv, ReplicaTypeOK, Send, Snapshot
<1>2. ReplicaTypeOK'
  BY <1>1 DEF ReplicaInv, ReplicaTypeOK
<1>3. /\ EditedInTurn' = EditedInTurn /\ \A R : Counted(R)' = Counted(R)
      /\ \A R : Backed(R)' = Backed(R)
  BY <1>1 DEF EditedInTurn, Counted, Backed
<1>4. \A R : Settled(R)' = Settled(R)
  BY <1>1, <1>3 DEF Settled
<1>5. \A m \in sent' : SentInv(m)'
  <2>1. SentInv([row |-> row[r], steps |-> steps[r]])
    BY <1>1 DEF RowInv, SentInv
  <2>2. \A m : SentInv(m) => SentInv(m)'
    BY <1>3, <1>4 DEF SentInv
  <2> QED BY <1>1, <2>1, <2>2 DEF ReplicaInv
<1>6. \A q \in Regions : RowInv(q)'
  BY <1>1, <1>3, <1>4 DEF RowInv, ReplicaInv
<1>7. \A q \in Regions : \A h \in handling'[q] : HandlingInv(q, h)'
  BY <1>1, <1>3, <1>4 DEF HandlingInv, ReplicaInv
<1>8. \A j \in journal' : Counted(j)'
  BY <1>1, <1>3 DEF ReplicaInv
<1> QED BY <1>1, <1>2, <1>5, <1>6, <1>7, <1>8 DEF ReplicaInv

LEMMA ReplicaStep ==
    ASSUME ReplicaInv, [ReplicaNext]_replicaVars
    PROVE  ReplicaInv'
<1>1. CASE UNCHANGED replicaVars
  <2>1. UNCHANGED <<row, steps, handling, sent, journal, raced>>
    BY <1>1 DEF replicaVars
  <2>2. /\ EditedInTurn' = EditedInTurn /\ \A R : Counted(R)' = Counted(R)
        /\ \A R : Backed(R)' = Backed(R)
    BY <2>1 DEF EditedInTurn, Counted, Backed
  <2>3. \A R : Settled(R)' = Settled(R)
    BY <2>1, <2>2 DEF Settled
  <2> QED BY <2>1, <2>2, <2>3 DEF ReplicaInv, ReplicaTypeOK, RowInv, SentInv, HandlingInv
<1>2. ASSUME NEW r \in Regions, NEW F \in SUBSET Fields, NEW E \in SUBSET F,
             UpdateDocument(r, F, E)
      PROVE  ReplicaInv'
  BY <1>2, UpdateKeeps
<1>3. ASSUME NEW r \in Regions, NEW m \in sent, Apply(r, m) PROVE ReplicaInv'
  BY <1>3, ApplyKeeps
<1>4. ASSUME NEW r \in Regions, NEW h \in handling[r], Commit(r, h) PROVE ReplicaInv'
  BY <1>4, CommitKeeps
<1>5. ASSUME NEW r \in Regions, WorkflowAction(r) \/ Send(r) PROVE ReplicaInv'
  BY <1>5, WorkflowKeeps, SendKeeps
<1> QED BY <1>1, <1>2, <1>3, <1>4, <1>5 DEF ReplicaNext

-----------------------------------------------------------------------------
(* The theorems.                                                           *)

\* What the rows, snapshots, requests and edits of the regions say of each other
\* stays true, however many requests a region handles at once.
THEOREM ReplicaInvariant == ReplicaSpec => []ReplicaInv
<1>1. ReplicaInv /\ [ReplicaNext]_replicaVars => ReplicaInv'
  BY ReplicaStep
<1> QED BY ReplicaStart, <1>1, PTL DEF ReplicaSpec

\* Rows, snapshots, requests and edits keep their shape.
THEOREM ReplicaTypeCorrect == ReplicaSpec => []ReplicaTypeOK
<1>1. ReplicaInv => ReplicaTypeOK
  BY DEF ReplicaInv
<1> QED BY <1>1, ReplicaInvariant, PTL

\* A region that stored no commit over another alone counts its own edits (stamp
\* and merge of services/crdt.py), whatever comes late or twice, and whatever
\* the requests of other regions do to each other.
THEOREM OwnCounts == ReplicaSpec => []CountsOwned
<1>1. ReplicaInv => CountsOwned
  BY DEF ReplicaInv, RowInv, SentInv, Counted, CountsOwned
<1> QED BY <1>1, ReplicaInvariant, PTL

\* As long as no commit was stored over another, every value shown is an edit
\* that the clock beside it knows of (the winner's fields and the merged clock
\* of apply_remote go together).
THEOREM ValuesCounted == ReplicaSpec => []ValuesKnown
<1>1. ReplicaInv => ValuesKnown
  BY DEF ReplicaInv, RowInv, Backed, ValuesKnown
<1> QED BY <1>1, ReplicaInvariant, PTL

\* While every edit is made on top of all earlier ones, and no commit is stored
\* over another, snapshots may come late, twice or not at all: a region shows
\* the edit that its clock names.
THEOREM ClockTells == ReplicaSpec => []FollowsClock
<1>1. ReplicaInv => FollowsClock
  BY DEF ReplicaInv, RowInv, Settled, FollowsClock
<1> QED BY <1>1, ReplicaInvariant, PTL

\* Regions that know of the same edits, made in turn and none stored over
\* another, show the same value of each field that the last edit left filled.
InTurnConverged ==
    (EditedInTurn /\ raced = {}) => \A r, q \in Regions : \A j \in journal : \A f \in Fields :
        (/\ row[r].known /\ row[q].known
         /\ row[r].clock = j.clock /\ row[q].clock = j.clock /\ j.fields[f] # None) =>
            row[r].fields[f] = row[q].fields[f]

\* What the head of services/crdt.py calls convergence, for edits in turn.
THEOREM RegionsAgree == ReplicaSpec => []InTurnConverged
<1>1. FollowsClock => InTurnConverged
  BY DEF FollowsClock, InTurnConverged
<1> QED BY <1>1, ClockTells, PTL

\* What a region once knew of, it knows of, unless it commits over a clock that
\* has changed since the request read it.
NothingForgotten ==
    [][\A r, q \in Regions : row'[r].clock[q] < row[r].clock[q] =>
          \E h \in handling[r] : Commit(r, h) /\ h.read.clock # row[r].clock]_replicaVars

\* A request takes an edit back from a region's clock, of its own or another's,
\* only if another one was stored since it read the row (the UPDATE of PATCH
\* /documents/{id} and of apply_remote), however many requests there are at once.
THEOREM ClocksKeepEdits == ReplicaSpec => NothingForgotten
<1>1. ASSUME ReplicaInv, [ReplicaNext]_replicaVars
      PROVE  [\A r, q \in Regions : row'[r].clock[q] < row[r].clock[q] =>
                 \E h \in handling[r] : Commit(r, h) /\ h.read.clock # row[r].clock]_replicaVars
  <2> SUFFICES ASSUME NEW r \in Regions, NEW q \in Regions, row'[r].clock[q] < row[r].clock[q]
               PROVE  \E h \in handling[r] : Commit(r, h) /\ h.read.clock # row[r].clock
    OBVIOUS
  <2>1. row \in [Regions -> Doc] /\ row[r].clock[q] \in Nat
    BY <1>1 DEF ReplicaInv, ReplicaTypeOK, Doc
  <2>2. row' # row
    BY <2>1
  <2>3. PICK p \in Regions : WorkflowAction(p) \/ \E h \in handling[p] : Commit(p, h)
    <3>1. ReplicaNext
      BY <1>1, <2>2 DEF replicaVars
    <3>2. /\ \A p \in Regions : \A F \in SUBSET Fields : \A E \in SUBSET F : ~UpdateDocument(p, F, E)
          /\ \A p \in Regions : ~Send(p) /\ \A m \in sent : ~Apply(p, m)
      <4>1. \A p \in Regions : \A F \in SUBSET Fields : \A E \in SUBSET F :
               UpdateDocument(p, F, E) => UNCHANGED row
        BY DEF UpdateDocument
      <4>2. \A p \in Regions : Send(p) => UNCHANGED row
        BY DEF Send
      <4>3. \A p \in Regions : \A m \in sent : Apply(p, m) => UNCHANGED row
        BY DEF Apply
      <4> QED BY <2>2, <4>1, <4>2, <4>3
    <3> QED BY <3>1, <3>2 DEF ReplicaNext
  <2>4. CASE WorkflowAction(p)
    <3>1. PICK step : row' = [row EXCEPT ![p].status = step]
      BY <2>4 DEF WorkflowAction
    <3>2. row[p] \in [known : BOOLEAN, clock : [Regions -> Nat], fields : [Fields -> Value],
                      status : Value]
      BY <2>1 DEF Doc
    <3>3. [row[p] EXCEPT !.status = step].clock = row[p].clock
      BY <3>2
    <3>4. row' = [row EXCEPT ![p] = [row[p] EXCEPT !.status = step]]
      BY <3>1
    <3>5. row'[r].clock[q] = row[r].clock[q]
      BY <2>1, <3>3, <3>4
    <3> QED BY <2>1, <3>5
  <2>5. ASSUME NEW h \in handling[p], Commit(p, h)
        PROVE  \E g \in handling[r] : Commit(r, g) /\ g.read.clock # row[r].clock
    <3>1. row' = [row EXCEPT ![p] = Stored(row[p], h)]
      BY <2>2, <2>5 DEF Commit
    <3>2. p = r
      BY <2>1, <3>1
    <3>3. h \in Handled /\ row[p] \in Doc /\ HandlingInv(p, h)
      BY <1>1 DEF ReplicaInv, ReplicaTypeOK
    <3>4. ASSUME h.read.clock = row[r].clock PROVE FALSE
      <4>1. row'[r].clock = h.new.clock
        BY <2>1, <3>1, <3>2, <3>3, <3>4, StoredIs
      <4>2. h.read.clock[q] <= h.new.clock[q] /\ h.new.clock[q] \in Nat
        BY <3>3 DEF HandlingInv, Handled, Doc
      <4> QED BY <2>1, <3>4, <4>1, <4>2
    <3> QED BY <2>5, <3>2, <3>4
  <2> QED BY <2>3, <2>4, <2>5
<1> QED BY <1>1, ReplicaInvariant, PTL DEF ReplicaSpec, NothingForgotten

-----------------------------------------------------------------------------
(* WORM LOCKS.  Requests overlap as they please: of two at one document    *)
(* each may have read a row that the other has changed since.              *)

Lock == [locked : BOOLEAN, until : Nat, base : Nat]
Points == {"idle", "verify", "hashed", "flagged", "unlocking", "cleared", "extending"}
Request == [at : Points, docs : SUBSET Docs, read : [Docs -> Lock], new : Lock,
            alarm : SUBSET Docs, unread : SUBSET Docs]

WormTypeOK ==
    /\ now \in Nat
    /\ lockRow \in [Docs -> Lock]
    /\ immutable \subseteq Docs
    /\ content \in [Docs -> Nat]
    /\ req \in [Admins -> Request]
    /\ since \in [Admins -> SUBSET Docs]

\* A request goes about what it was begun for, given what it has read.
Purposeful(r) == \A d \in r.docs :
    /\ r.at \in {"hashed", "flagged"} => ~r.read[d].locked /\ r.new.locked
    /\ r.at \in {"unlocking", "cleared"} => r.read[d].locked /\ ~r.new.locked
    /\ r.at = "extending" => /\ r.read[d].locked /\ r.new.locked
                             /\ r.new.until >= r.read[d].until

\* Where no two requests have met, the flag follows the row, or the one request
\* that has moved it and not yet committed.
FlagInv(d) == SameFile(d) = {d} /\ d \notin apart =>
    /\ \A a, b \in Between(d) : a = b
    /\ Between(d) = {} => (lockRow[d].locked <=> d \in immutable)
    /\ \A a \in Between(d) : req[a].at = "flagged" <=> d \in immutable

\* What differed all along differs, and a batch has found it, could not read it,
\* or will look at it with the hash that is still its own.
BatchInv(a) ==
    /\ since[a] \subseteq Drifted
    /\ req[a].at = "verify" =>
           \A d \in since[a] : /\ d \in req[a].docs \cup req[a].alarm \cup req[a].unread
                               /\ req[a].read[d].base = lockRow[d].base

WormInv ==
    /\ WormTypeOK
    /\ \A a \in Admins : Purposeful(req[a]) /\ BatchInv(a)
    /\ \A d \in Docs : FlagInv(d)

LEMMA CopiesShare ==
    ASSUME NEW d \in Docs, NEW e \in Docs, SameFile(d) = {d}, d \in SameFile(e)
    PROVE  d = e
<1>1. CASE d # e
  <2>1. PICK c \in Copies : d \in c /\ e \in c
    BY <1>1 DEF SameFile
  <2>2. e \in SameFile(d)
    BY <2>1 DEF SameFile
  <2> QED BY <2>2
<1> QED BY <1>1

LEMMA NothingAsked ==
    /\ NoRequest \in Request /\ NoRequest.at = "idle" /\ NoRequest.docs = {}
    /\ Purposeful(NoRequest)
BY DEF NoRequest, Unlocked, Lock, Request, Points, Purposeful

LEMMA WormStart == WormInit => WormInv
<1> SUFFICES ASSUME WormInit PROVE WormInv
  OBVIOUS
<1>1. Unlocked \in Lock /\ 0 \in Nat /\ 1 \in Nat
  BY DEF Unlocked, Lock
<1>2. WormTypeOK
  BY <1>1, NothingAsked DEF WormInit, WormTypeOK
<1>3. \A a \in Admins : req[a] = NoRequest /\ since[a] = {}
  BY DEF WormInit
<1>4. \A d \in Docs : ~lockRow[d].locked /\ d \notin immutable
  BY DEF WormInit, Unlocked
<1>5. \A d \in Docs : Between(d) = {}
  BY <1>3, NothingAsked DEF Between
<1>6. \A a \in Admins : Purposeful(req[a]) /\ BatchInv(a)
  BY <1>3, NothingAsked DEF BatchInv
<1> QED BY <1>2, <1>4, <1>5, <1>6 DEF WormInv, FlagInv

LEMMA SinceTyped ==
    ASSUME Remember
    PROVE  since' \in [Admins -> SUBSET Docs]
BY DEF Remember, Drifted, Locked

\* A step in which no batch begins or goes on keeps what is said of the batches.
LEMMA BatchesKept ==
    ASSUME WormInv, Remember, \A a \in Admins : req'[a].at = "verify" => req'[a] = req[a]
    PROVE  \A a \in Admins : BatchInv(a)'
<1> SUFFICES ASSUME NEW a \in Admins PROVE BatchInv(a)'
  OBVIOUS
<1>1. since'[a] = IF req[a].at = "idle" THEN Drifted'
                  ELSE {d \in since[a] \cap Drifted' : lockRow'[d].base = lockRow[d].base}
  BY DEF Remember
<1>2. since'[a] \subseteq Drifted'
  BY <1>1
<1>3. ASSUME req'[a].at = "verify", NEW d \in since'[a]
      PROVE  /\ d \in req'[a].docs \cup req'[a].alarm \cup req'[a].unread
             /\ req'[a].read[d].base = lockRow'[d].base
  <2>1. req'[a] = req[a] /\ req[a].at = "verify"
    BY <1>3
  <2>2. d \in since[a] /\ lockRow'[d].base = lockRow[d].base
    BY <1>1, <1>3, <2>1
  <2> QED BY <2>1, <2>2 DEF BatchInv, WormInv
<1> QED BY <1>2, <1>3 DEF BatchInv

\* A step that leaves flag, row and the requests at the flag of a document alone.
LEMMA FlagKept ==
    ASSUME NEW d \in Docs, FlagInv(d), lockRow'[d].locked = lockRow[d].locked,
           d \in immutable' <=> d \in immutable,
           d \in apart => d \in apart', Between(d)' = Between(d),
           \A a \in Between(d) : req'[a] = req[a]
    PROVE  FlagInv(d)'
BY DEF FlagInv, SameFile

\* A request that is not at a flag, before or after, begins, goes on or ends.
LEMMA RequestGoesOn ==
    ASSUME WormInv, Remember, NEW a \in Admins, NEW r \in Request, Purposeful(r),
           req' = [req EXCEPT ![a] = r], {r.at, req[a].at} \cap {"flagged", "cleared"} = {},
           UNCHANGED <<now, lockRow, immutable, content, apart>>,
           r.at = "verify" => BatchInv(a)'
    PROVE  WormInv'
<1>1. req'[a] = r /\ \A b \in Admins \ {a} : req'[b] = req[b]
  BY DEF WormInv, WormTypeOK
<1>2. WormTypeOK'
  BY SinceTyped DEF WormInv, WormTypeOK
<1>3. \A b \in Admins : Purposeful(req'[b])
  BY <1>1 DEF WormInv
<1>4. ASSUME NEW d \in Docs PROVE FlagInv(d)'
  <2>1. Between(d)' = Between(d) /\ a \notin Between(d)
    BY <1>1 DEF Between
  <2> QED BY <1>1, <2>1, FlagKept DEF WormInv, Between
<1>5. ASSUME NEW b \in Admins PROVE BatchInv(b)'
  <2>1. CASE r.at # "verify"
    BY <1>1, <2>1, BatchesKept
  <2>2. CASE r.at = "verify" /\ b # a
    <3>1. Drifted' = Drifted /\ req'[b] = req[b] /\ Drifted \subseteq Docs
      BY <1>1, <2>2 DEF Drifted, Locked
    <3>2. since'[b] = IF req[b].at = "idle" THEN Drifted ELSE {d \in since[b] \cap Drifted : lockRow[d].base = lockRow[d].base}
      BY <3>1 DEF Remember
    <3> QED BY <3>1, <3>2 DEF BatchInv, WormInv
  <2> QED BY <2>1, <2>2
<1> QED BY <1>2, <1>3, <1>4, <1>5 DEF WormInv

LEMMA RequestEnds ==
    ASSUME WormInv, Remember, NEW a \in Admins, req[a].at \notin {"flagged", "cleared"},
           End(a), UNCHANGED <<now, lockRow, immutable, content, apart>>
    PROVE  WormInv'
BY NothingAsked, RequestGoesOn DEF End

\* A request that changes a lock begins.
LEMMA ChangeBegins ==
    ASSUME WormInv, Remember,
           NEW a \in Admins, NEW d \in Docs, NEW at \in {"hashed", "unlocking", "extending"},
           NEW new \in Lock, BeginChange(a, at, {d}, new),
           at = "hashed" => ~lockRow[d].locked /\ new.locked,
           at = "unlocking" => lockRow[d].locked /\ ~new.locked,
           at = "extending" => lockRow[d].locked /\ new.locked /\ new.until >= lockRow[d].until
    PROVE  WormInv'
<1>1. PICK r : r = [at |-> at, docs |-> {d}, alarm |-> {}, unread |-> {}, new |-> new,
                    read |-> [e \in Docs |-> IF e \in {d} THEN lockRow[e] ELSE Unlocked]]
  OBVIOUS
<1>2. r \in Request
  <2>1. Unlocked \in Lock
    BY DEF Unlocked, Lock
  <2>2. [e \in Docs |-> IF e \in {d} THEN lockRow[e] ELSE Unlocked] \in [Docs -> Lock]
    BY <2>1 DEF WormInv, WormTypeOK
  <2> QED BY <1>1, <2>2 DEF Request, Points
<1>3. r.at = at /\ r.docs = {d} /\ r.new = new /\ r.read[d] = lockRow[d]
  BY <1>1
<1>4. Purposeful(r) /\ r.at # "verify"
  BY <1>3 DEF Purposeful
<1>5. req' = [req EXCEPT ![a] = r] /\ req[a].at = "idle"
      /\ UNCHANGED <<now, lockRow, immutable, content, apart>>
  BY <1>1 DEF BeginChange, wormBounds
<1>6. {r.at, req[a].at} \cap {"flagged", "cleared"} = {}
  BY <1>3, <1>5
<1> QED BY <1>2, <1>4, <1>5, <1>6, RequestGoesOn

LEMMA Beginnings ==
    ASSUME WormInv, Remember, NEW a \in Admins, NEW d \in Docs,
           \/ \E n \in Periods : LockDocument(a, d, n) \/ ExtendLock(a, d, n)
           \/ UnlockDocument(a, d)
    PROVE  WormInv'
<1>1. lockRow[d] \in Lock /\ content[d] \in Nat /\ now \in Nat /\ Periods \subseteq Nat
  BY WormAssumption DEF WormInv, WormTypeOK
<1>2. ASSUME NEW n \in Periods, LockDocument(a, d, n)
      PROVE  WormInv'
  <2>1. PICK new : new = [locked |-> TRUE, until |-> now + n, base |-> content[d]]
    OBVIOUS
  <2>2. new \in Lock /\ new.locked
    BY <1>1, <2>1 DEF Lock
  <2> QED BY <1>2, <2>1, <2>2, ChangeBegins DEF LockDocument
<1>3. ASSUME NEW n \in Periods, ExtendLock(a, d, n)
      PROVE  WormInv'
  <2>1. Extended(lockRow[d].until, n) \in Nat /\ Extended(lockRow[d].until, n) >= lockRow[d].until
    BY <1>1, MaxOfTwo DEF Extended, Lock
  <2>2. PICK new : new = [lockRow[d] EXCEPT !.until = Extended(@, n)]
    OBVIOUS
  <2>3. new \in Lock /\ new.until = Extended(lockRow[d].until, n) /\ new.locked = lockRow[d].locked
    BY <1>1, <2>1, <2>2 DEF Lock
  <2> QED BY <1>3, <2>1, <2>2, <2>3, ChangeBegins DEF ExtendLock
<1>4. ASSUME UnlockDocument(a, d)
      PROVE  WormInv'
  <2>1. PICK new : new = [Unlocked EXCEPT !.base = lockRow[d].base]
    OBVIOUS
  <2>2. new \in Lock /\ ~new.locked
    BY <1>1, <2>1 DEF Lock, Unlocked
  <2> QED BY <1>4, <2>1, <2>2, ChangeBegins DEF UnlockDocument
<1> QED BY <1>2, <1>3, <1>4

\* The flag of what is one file with d is moved.
LEMMA FlagMoves ==
    ASSUME WormInv, Remember, NEW a \in Admins, NEW d \in Docs, req[a].docs = {d},
           NEW flags, NEW at, MoveFlag(a, d, flags, at),
           UNCHANGED <<wormBounds, lockRow, content, alerts>>,
           \/ req[a].at = "hashed" /\ at = "flagged" /\ flags = immutable \cup SameFile(d)
           \/ req[a].at = "unlocking" /\ at = "cleared" /\ flags = immutable \ SameFile(d)
    PROVE  WormInv'
<1> DEFINE r == [req[a] EXCEPT !.at = at]
<1>1. req[a] \in Request /\ req \in [Admins -> Request] /\ UNCHANGED <<now, lockRow, content>>
  BY DEF WormInv, WormTypeOK, wormBounds
<1>2. /\ req' = [req EXCEPT ![a] = r] /\ r \in Request
      /\ r.at = at /\ r.docs = {d} /\ r.read = req[a].read /\ r.new = req[a].new
  BY <1>1 DEF MoveFlag, GoTo, Request, Points
<1> HIDE DEF r
<1>3. req'[a] = r /\ \A b \in Admins \ {a} : req'[b] = req[b]
  BY <1>1, <1>2
<1>4. immutable' = flags /\ SameFile(d) \subseteq Docs /\ d \in SameFile(d)
  BY WormAssumption DEF MoveFlag, SameFile
<1>5. WormTypeOK'
  BY <1>1, <1>2, <1>4, SinceTyped DEF WormInv, WormTypeOK
<1>6. Purposeful(r)
  BY <1>2 DEF Purposeful, WormInv
<1>7. \A b \in Admins : Purposeful(req'[b])
  BY <1>3, <1>6 DEF WormInv
<1>8. \A b \in Admins : BatchInv(b)'
  BY <1>2, <1>3, BatchesKept
<1>9. Between(d)' = Between(d) \cup {a} /\ a \notin Between(d)
  BY <1>2, <1>3 DEF Between
<1>10. FlagInv(d)'
  <2> SUFFICES ASSUME d \notin apart'
               PROVE  /\ \A b, c \in Between(d)' : b = c
                      /\ Between(d)' # {}
                      /\ \A b \in Between(d)' : req'[b].at = "flagged" <=> d \in immutable'
    BY DEF FlagInv
  <2>1. Between(d) = {}
    BY DEF MoveFlag
  <2> QED BY <1>2, <1>3, <1>4, <1>9, <2>1
<1>11. ASSUME NEW e \in Docs \ {d} PROVE FlagInv(e)'
  <2>1. CASE SameFile(e) = {e}
    <3>1. e \in immutable' <=> e \in immutable
      BY <1>4, <2>1, CopiesShare
    <3>2. Between(e)' = Between(e) /\ a \notin Between(e)
      BY <1>2, <1>3 DEF Between
    <3>3. e \in apart => e \in apart'
      BY DEF MoveFlag
    <3> QED BY <1>1, <1>3, <3>1, <3>2, <3>3, FlagKept DEF WormInv, Between
  <2>2. CASE SameFile(e) # {e}
    BY <2>2 DEF FlagInv, SameFile
  <2> QED BY <2>1, <2>2
<1> QED BY <1>5, <1>7, <1>8, <1>10, <1>11 DEF WormInv

LEMMA FlagKeeps ==
    ASSUME WormInv, Remember, NEW a \in Admins, NEW d \in Docs, SetFlag(a, d) \/ ClearFlag(a, d)
    PROVE  WormInv'
<1>1. UNCHANGED <<wormBounds, lockRow, content, alerts>> /\ req[a].docs = {d}
  BY DEF SetFlag, ClearFlag
<1>2. CASE FlagFails(a)
  <2>1. req[a].at \in {"hashed", "unlocking"}
    BY DEF SetFlag, ClearFlag
  <2> QED BY <1>1, <1>2, <2>1, RequestEnds DEF FlagFails, wormBounds
<1>3. CASE ~FlagFails(a)
  BY <1>1, <1>3, FlagMoves DEF SetFlag, ClearFlag
<1> QED BY <1>2, <1>3

\* The commit of a request that goes about its purpose writes whether the
\* document is locked, and over an unchanged row all that the request wants.
LEMMA RowCommitted ==
    ASSUME WormInv, NEW a \in Admins, NEW d \in Docs, req[a].docs = {d},
           req[a].at \in {"flagged", "cleared", "extending"}, CommitRow(a, d)
    PROVE  /\ lockRow' \in [Docs -> Lock]
           /\ \A e \in Docs \ {d} : lockRow'[e] = lockRow[e]
           /\ lockRow'[d].locked = IF req[a].at = "extending" THEN lockRow[d].locked
                                                              ELSE req[a].new.locked
           /\ req[a].read[d] = lockRow[d] => lockRow'[d] = req[a].new
<1>1. req[a] \in Request /\ lockRow \in [Docs -> Lock] /\ Purposeful(req[a])
  BY DEF WormInv, WormTypeOK
<1>2. PICK r, n, c : r = req[a].read[d] /\ n = req[a].new /\ c = lockRow[d]
  OBVIOUS
<1>3. r \in Lock /\ n \in Lock /\ c \in Lock
  BY <1>1, <1>2 DEF Request
<1>4. PICK w : w = [locked |-> LockColumn(c.locked, r.locked, n.locked),
                    until  |-> LockColumn(c.until, r.until, n.until),
                    base   |-> LockColumn(c.base, r.base, n.base)]
  OBVIOUS
<1>5. lockRow' = [lockRow EXCEPT ![d] = w]
  BY <1>1, <1>2, <1>4 DEF CommitRow, WriteRow
<1>6. w \in Lock
  BY <1>3, <1>4 DEF LockColumn, Lock
<1>7. w.locked = IF req[a].at = "extending" THEN c.locked ELSE n.locked
  <2>1. /\ req[a].at = "extending" => r.locked = n.locked
        /\ req[a].at # "extending" => r.locked # n.locked
    BY <1>1, <1>2, <1>3 DEF Purposeful, Lock
  <2> QED BY <1>4, <2>1 DEF LockColumn
<1>8. r = c => w = n
  <2>1. n = [locked |-> n.locked, until |-> n.until, base |-> n.base]
    BY <1>3 DEF Lock
  <2>2. \A x, y : LockColumn(x, x, y) = y
    BY DEF LockColumn
  <2> QED BY <1>4, <2>1, <2>2
<1> QED BY <1>1, <1>2, <1>5, <1>6, <1>7, <1>8

LEMMA LockCommitKeeps ==
    ASSUME WormInv, Remember, NEW a \in Admins, NEW d \in Docs,
           CommitLock(a, d) \/ CommitUnlock(a, d) \/ CommitExtend(a, d)
    PROVE  WormInv'
<1>1. /\ req[a].docs = {d} /\ req[a] \in Request /\ CommitRow(a, d)
      /\ req[a].at \in {"flagged", "cleared", "extending"} /\ Purposeful(req[a])
  BY DEF CommitLock, CommitUnlock, CommitExtend, WormInv, WormTypeOK
<1>2. UNCHANGED <<now, immutable, content, apart>>
  BY <1>1 DEF CommitRow, wormBounds
<1>3. /\ lockRow' \in [Docs -> Lock]
      /\ \A e \in Docs \ {d} : lockRow'[e] = lockRow[e]
      /\ lockRow'[d].locked = IF req[a].at = "extending" THEN lockRow[d].locked ELSE req[a].new.locked
  BY <1>1, RowCommitted
<1>4. /\ req' \in [Admins -> Request] /\ req'[a] = NoRequest
      /\ \A b \in Admins \ {a} : req'[b] = req[b]
  BY <1>1, NothingAsked DEF CommitRow, End, WormInv, WormTypeOK
<1>5. WormTypeOK'
  BY <1>2, <1>3, <1>4, SinceTyped DEF WormInv, WormTypeOK
<1>6. \A b \in Admins : Purposeful(req'[b])
  BY <1>4, NothingAsked DEF WormInv
<1>7. \A b \in Admins : BatchInv(b)'
  BY <1>4, NothingAsked, BatchesKept
<1>8. ASSUME NEW e \in Docs \ {d} PROVE FlagInv(e)'
  <2>1. Between(e)' = Between(e) /\ a \notin Between(e)
    BY <1>1, <1>4, NothingAsked DEF Between
  <2> QED BY <1>2, <1>3, <1>4, <2>1, FlagKept DEF WormInv, Between
<1>9. FlagInv(d)'
  <2>1. CASE req[a].at = "extending"
    <3>1. Between(d)' = Between(d) /\ a \notin Between(d)
      BY <1>4, <2>1, NothingAsked DEF Between
    <3> QED BY <1>2, <1>3, <1>4, <2>1, <3>1, FlagKept DEF WormInv, Between
  <2>2. CASE req[a].at # "extending"
    <3> SUFFICES ASSUME SameFile(d) = {d}, d \notin apart PROVE FlagInv(d)'
      BY <1>2 DEF FlagInv, SameFile
    <3>1. Between(d)' = Between(d) \ {a} /\ a \in Between(d)
      BY <1>1, <1>4, <2>2, NothingAsked DEF Between
    <3>2. FlagInv(d)
      BY DEF WormInv
    <3>3. Between(d)' = {} /\ (req[a].at = "flagged" <=> d \in immutable)
      BY <3>1, <3>2 DEF FlagInv
    <3>4. lockRow'[d].locked <=> d \in immutable'
      BY <1>1, <1>2, <1>3, <2>2, <3>3 DEF Purposeful, Request, Lock
    <3> QED BY <3>3, <3>4 DEF FlagInv
  <2> QED BY <2>1, <2>2
<1> QED BY <1>5, <1>6, <1>7, <1>8, <1>9 DEF WormInv

\* A commit that fails leaves the row and the flag as they are.
LEMMA FailureKeeps ==
    ASSUME WormInv, Remember, NEW a \in Admins, CommitFails(a)
    PROVE  WormInv'
<1>1. UNCHANGED <<now, lockRow, immutable, content>>
  BY DEF CommitFails, wormBounds
<1>2. /\ req' \in [Admins -> Request] /\ req'[a] = NoRequest
      /\ \A b \in Admins \ {a} : req'[b] = req[b]
  BY NothingAsked DEF CommitFails, End, WormInv, WormTypeOK
<1>3. WormTypeOK'
  BY <1>1, <1>2, SinceTyped DEF WormInv, WormTypeOK
<1>4. \A b \in Admins : Purposeful(req'[b]) /\ BatchInv(b)'
  BY <1>2, NothingAsked, BatchesKept DEF WormInv
<1>5. ASSUME NEW d \in Docs PROVE FlagInv(d)'
  <2>1. CASE a \in Between(d)
    <3>1. d \in apart'
      BY <2>1 DEF CommitFails
    <3> QED BY <3>1 DEF FlagInv
  <2>2. CASE a \notin Between(d)
    <3>1. Between(d)' = Between(d)
      BY <1>2, <2>2, NothingAsked DEF Between
    <3>2. d \in apart => d \in apart'
      BY DEF CommitFails
    <3> QED BY <1>1, <1>2, <2>2, <3>1, <3>2, FlagKept DEF WormInv, Between
  <2> QED BY <2>1, <2>2
<1> QED BY <1>3, <1>4, <1>5 DEF WormInv

LEMMA VerifyBatchKeeps ==
    ASSUME WormInv, Remember, NEW a \in Admins, VerifyBatch(a)
    PROVE  WormInv'
<1>1. PICK r : r = [at |-> "verify", docs |-> Locked, alarm |-> {}, unread |-> {},
                    new |-> Unlocked,
                    read |-> [e \in Docs |-> IF e \in Locked THEN lockRow[e] ELSE Unlocked]]
  OBVIOUS
<1>2. /\ req' = [req EXCEPT ![a] = r] /\ req[a].at = "idle"
      /\ UNCHANGED <<now, lockRow, immutable, content, apart>>
  BY <1>1 DEF VerifyBatch, BeginChange, wormBounds
<1>3. r \in Request
  <2>1. Unlocked \in Lock /\ Locked \subseteq Docs
    BY DEF Unlocked, Lock, Locked
  <2>2. [e \in Docs |-> IF e \in Locked THEN lockRow[e] ELSE Unlocked] \in [Docs -> Lock]
    BY <2>1 DEF WormInv, WormTypeOK
  <2> QED BY <1>1, <2>1, <2>2 DEF Request, Points
<1>4. r.at = "verify" /\ r.docs = Locked /\ \A e \in Locked : r.read[e] = lockRow[e]
  BY <1>1 DEF Locked
<1>5. Purposeful(r)
  BY <1>4 DEF Purposeful
<1>6. BatchInv(a)'
  <2>1. Drifted' = Drifted /\ Drifted \subseteq Locked /\ req'[a] = r
    BY <1>2 DEF Drifted, Locked, WormInv, WormTypeOK
  <2>2. since'[a] = Drifted
    BY <1>2, <2>1 DEF Remember
  <2> QED BY <1>2, <1>4, <2>1, <2>2 DEF BatchInv
<1> QED BY <1>2, <1>3, <1>4, <1>5, <1>6, RequestGoesOn

\* The file of a document that differed all along has another hash than the
\* batch has read: the alarm is raised, if the file can be read.
LEMMA VerifyFileKeeps ==
    ASSUME WormInv, Remember, NEW a \in Admins, NEW d \in Docs,
           VerifyFile(a, d) \/ UnreadableFile(a, d)
    PROVE  WormInv'
<1>1. /\ req[a] \in Request /\ req \in [Admins -> Request]
      /\ req[a].at = "verify" /\ d \in req[a].docs
      /\ UNCHANGED <<now, lockRow, immutable, content, apart>>
  BY DEF VerifyFile, UnreadableFile, wormBounds, WormInv, WormTypeOK
<1>2. PICK r \in Request :
        /\ req' = [req EXCEPT ![a] = r]
        /\ r.at = "verify" /\ r.docs = req[a].docs \ {d} /\ r.read = req[a].read
        /\ req[a].alarm \subseteq r.alarm /\ req[a].unread \subseteq r.unread
        /\ Alarming(d, req[a].read[d]) => d \in r.alarm \cup r.unread
  <2>1. CASE VerifyFile(a, d)
    <3>1. PICK alarm : alarm = IF Alarming(d, req[a].read[d]) THEN req[a].alarm \cup {d}
                                                              ELSE req[a].alarm
      OBVIOUS
    <3>2. alarm \subseteq Docs /\ req[a].docs \ {d} \subseteq Docs
      BY <1>1, <3>1 DEF Request
    <3>3. PICK r : r = [req[a] EXCEPT !.docs = req[a].docs \ {d}, !.alarm = alarm]
      OBVIOUS
    <3>4. r \in Request /\ r.at = "verify" /\ r.docs = req[a].docs \ {d} /\ r.read = req[a].read
          /\ r.alarm = alarm /\ r.unread = req[a].unread
      BY <1>1, <3>2, <3>3 DEF Request
    <3>5. req' = [req EXCEPT ![a] = r]
      BY <1>1, <2>1, <3>1, <3>3 DEF VerifyFile
    <3> QED BY <3>1, <3>4, <3>5
  <2>2. CASE UnreadableFile(a, d)
    <3>1. PICK unread : unread = req[a].unread \cup {d}
      OBVIOUS
    <3>2. unread \subseteq Docs /\ req[a].docs \ {d} \subseteq Docs
      BY <1>1, <3>1 DEF Request
    <3>3. PICK r : r = [req[a] EXCEPT !.docs = req[a].docs \ {d}, !.unread = unread]
      OBVIOUS
    <3>4. r \in Request /\ r.at = "verify" /\ r.docs = req[a].docs \ {d} /\ r.read = req[a].read
          /\ r.unread = unread /\ r.alarm = req[a].alarm
      BY <1>1, <3>2, <3>3 DEF Request
    <3>5. req' = [req EXCEPT ![a] = r]
      BY <1>1, <2>2, <3>1, <3>3 DEF UnreadableFile
    <3> QED BY <3>1, <3>4, <3>5
  <2> QED BY <1>1, <2>1, <2>2
<1>3. req'[a] = r
  BY <1>1, <1>2
<1>4. Purposeful(r)
  BY <1>2 DEF Purposeful
<1>5. BatchInv(a)'
  <2>1. Drifted' = Drifted
    BY <1>1 DEF Drifted, Locked
  <2>2. since'[a] \subseteq since[a]
    BY <1>1 DEF Remember
  <2>3. /\ since[a] \subseteq Drifted
        /\ \A e \in since[a] : /\ e \in req[a].docs \cup req[a].alarm \cup req[a].unread
                               /\ req[a].read[e].base = lockRow[e].base
    BY <1>1 DEF BatchInv, WormInv
  <2>4. d \in since[a] => Alarming(d, req[a].read[d])
    BY <2>3 DEF Alarming, Drifted
  <2>5. \A e \in since[a] : e \in r.docs \cup r.alarm \cup r.unread
    BY <1>2, <2>3, <2>4
  <2> QED BY <1>1, <1>2, <1>3, <2>1, <2>2, <2>3, <2>5 DEF BatchInv
<1> QED BY <1>1, <1>2, <1>4, <1>5, RequestGoesOn

LEMMA BatchEnds ==
    ASSUME WormInv, Remember, NEW a \in Admins, CommitAlerts(a) \/ AlertsLost(a)
    PROVE  WormInv'
<1>1. req[a].at = "verify" /\ End(a) /\ UNCHANGED <<now, lockRow, immutable, content, apart>>
  BY DEF CommitAlerts, AlertsLost, wormBounds
<1> QED BY <1>1, RequestEnds

\* Files and days change without any request.
LEMMA OthersKeep ==
    ASSUME WormInv, Remember,
           \/ \E d \in Docs : \E c \in 0 .. MaxContent : ChangeFile(d, c)
           \/ Tick
    PROVE  WormInv'
<1>1. UNCHANGED <<lockRow, immutable, req, apart>>
  BY DEF ChangeFile, Tick
<1>2. now' \in Nat /\ content' \in [Docs -> Nat]
  <2>1. ASSUME NEW d \in Docs, NEW c \in 0 .. MaxContent, ChangeFile(d, c)
        PROVE  now' \in Nat /\ content' \in [Docs -> Nat]
    BY <2>1, WormAssumption DEF ChangeFile, wormBounds, WormInv, WormTypeOK
  <2>2. CASE Tick
    BY <2>2 DEF Tick, WormInv, WormTypeOK
  <2> QED BY <2>1, <2>2
<1>3. WormTypeOK'
  BY <1>1, <1>2, SinceTyped DEF WormInv, WormTypeOK
<1>4. \A b \in Admins : BatchInv(b)'
  BY <1>1, BatchesKept
<1>5. \A d \in Docs : FlagInv(d)'
  BY <1>1 DEF FlagInv, WormInv, SameFile, Between
<1> QED BY <1>1, <1>3, <1>4, <1>5 DEF WormInv, Purposeful

LEMMA CrashKeeps ==
    ASSUME WormInv, Remember, Crash
    PROVE  WormInv'
<1>1. /\ req' \in [Admins -> Request] /\ \A b \in Admins : req'[b] = NoRequest
      /\ UNCHANGED <<now, lockRow, immutable, content>>
  BY NothingAsked DEF Crash
<1>2. WormTypeOK'
  BY <1>1, SinceTyped DEF WormInv, WormTypeOK
<1>3. \A b \in Admins : Purposeful(req'[b]) /\ BatchInv(b)'
  BY <1>1, NothingAsked, BatchesKept
<1>4. ASSUME NEW d \in Docs PROVE FlagInv(d)'
  <2>1. CASE Between(d) # {}
    <3>1. d \in apart'
      BY <2>1 DEF Crash
    <3> QED BY <3>1 DEF FlagInv
  <2>2. CASE Between(d) = {}
    <3>1. Between(d)' = {}
      BY <1>1, NothingAsked DEF Between
    <3>2. d \in apart => d \in apart'
      BY DEF Crash
    <3> QED BY <1>1, <2>2, <3>1, <3>2, FlagKept DEF WormInv
  <2> QED BY <2>1, <2>2
<1> QED BY <1>2, <1>3, <1>4 DEF WormInv

LEMMA WormStep == ASSUME WormInv, [WormNext]_wormVars PROVE WormInv'
<1>1. CASE UNCHANGED wormVars
  <2>1. UNCHANGED <<now, lockRow, immutable, content, req, apart, since>>
    BY <1>1 DEF wormVars, wormBounds
  <2> QED BY <2>1 DEF WormInv, WormTypeOK, Purposeful, BatchInv, Drifted, Locked, FlagInv, SameFile,
       Between
<1>2. CASE WormNext
  <2>1. Remember
    BY <1>2 DEF WormNext
  <2>2. CASE \E a \in Admins : RequestStep(a)
    BY <2>1, <2>2, Beginnings, FlagKeeps, LockCommitKeeps, FailureKeeps, VerifyBatchKeeps,
       VerifyFileKeeps, BatchEnds DEF RequestStep
  <2> QED BY <1>2, <2>1, <2>2, OthersKeep, CrashKeeps DEF WormNext
<1> QED BY <1>1, <1>2

\* Each request goes about its purpose, the flag of a file follows its row or the
\* request that has moved it, and a batch has yet to compare, has alerted or could
\* not read what differed before it began.
THEOREM WormInvariant == WormSpec => []WormInv
<1>1. WormInit => WormInv
  BY WormStart
<1>2. WormInv /\ [WormNext]_wormVars => WormInv'
  BY WormStep
<1> QED BY <1>1, <1>2, PTL DEF WormSpec

\* Lock columns, files, requests and alerts keep their shape.
THEOREM WormTypeCorrect == WormSpec => []WormTypeOK
<1>1. WormInv => WormTypeOK
  BY DEF WormInv
<1> QED BY <1>1, WormInvariant, PTL

\* The rows and the flags of the files of documents without copies agree, but
\* where a request is between the two, or failed, died or met another one there,
\* for any number of requests at once, of documents, days and restarts.
THEOREM FlagsFollow == WormSpec => []FlagsFollowRows
<1>1. WormInv => FlagsFollowRows
  BY DEF WormInv, FlagInv, FlagsFollowRows, Moving
<1> QED BY <1>1, WormInvariant, PTL

\* No lock that stands is shortened but by a request that commits over a row
\* which another one has changed, for any number of requests at once.
THEOREM RacesShorten == WormSpec => OnlyRacesShorten
<1>1. ASSUME WormInv, [WormNext]_wormVars
      PROVE  [\A d \in Docs :
                lockRow[d].locked /\ lockRow'[d].locked /\ lockRow'[d].until < lockRow[d].until =>
                  \E a \in Admins : /\ req[a].docs = {d} /\ req'[a] = NoRequest
                                     /\ req[a].read[d] # lockRow[d]]_wormVars
  <2> SUFFICES ASSUME NEW d \in Docs, lockRow[d].locked, lockRow'[d].locked,
                      lockRow'[d].until < lockRow[d].until
               PROVE  \E a \in Admins : /\ req[a].docs = {d} /\ req'[a] = NoRequest
                                         /\ req[a].read[d] # lockRow[d]
    OBVIOUS
  <2>1. lockRow[d].until \in Nat /\ lockRow'[d] # lockRow[d]
    BY <1>1 DEF WormInv, WormTypeOK, Lock
  <2>2. PICK a \in Admins, e \in Docs : CommitLock(a, e) \/ CommitUnlock(a, e) \/ CommitExtend(a, e)
    <3>1. ~UNCHANGED wormVars
      BY <2>1 DEF wormVars
    <3>2. \A a \in Admins : ~VerifyBatch(a) /\ ~CommitAlerts(a) /\ ~AlertsLost(a) /\ ~CommitFails(a)
      BY <2>1 DEF VerifyBatch, BeginChange, CommitAlerts, AlertsLost, CommitFails
    <3>3. \A a \in Admins : \A e \in Docs : \A n \in Periods :
             ~LockDocument(a, e, n) /\ ~ExtendLock(a, e, n)
      BY <2>1 DEF LockDocument, ExtendLock, BeginChange
    <3>4. \A a \in Admins : \A e \in Docs :
             /\ ~UnlockDocument(a, e) /\ ~SetFlag(a, e) /\ ~ClearFlag(a, e)
             /\ ~VerifyFile(a, e) /\ ~UnreadableFile(a, e)
      BY <2>1 DEF UnlockDocument, BeginChange, SetFlag, ClearFlag, VerifyFile, UnreadableFile
    <3>5. ~Crash /\ ~Tick /\ \A e \in Docs : \A c \in 0 .. MaxContent : ~ChangeFile(e, c)
      BY <2>1 DEF Crash, Tick, ChangeFile
    <3>6. PICK a \in Admins : RequestStep(a)
      BY <1>1, <3>1, <3>5 DEF WormNext
    <3> QED BY <3>2, <3>3, <3>4, <3>6 DEF RequestStep
  <2>3. /\ req[a].docs = {e} /\ CommitRow(a, e) /\ Purposeful(req[a]) /\ req[a] \in Request
        /\ req[a].at \in {"flagged", "cleared", "extending"}
    BY <1>1, <2>2 DEF CommitLock, CommitUnlock, CommitExtend, WormInv, WormTypeOK
  <2>4. e = d
    BY <1>1, <2>1, <2>3, RowCommitted
  <2>5. req'[a] = NoRequest
    BY <1>1, <2>3 DEF CommitRow, End, WormInv, WormTypeOK
  <2>6. ASSUME req[a].read[d] = lockRow[d] PROVE FALSE
    <3>1. lockRow'[d] = req[a].new
      BY <1>1, <2>3, <2>4, <2>6, RowCommitted
    <3>2. req[a].new.until >= lockRow[d].until
      BY <2>3, <2>4, <2>6, <3>1 DEF Purposeful
    <3>3. req[a].new.until \in Nat
      BY <2>3 DEF Request, Lock
    <3> QED BY <2>1, <3>1, <3>2, <3>3
  <2> QED BY <2>3, <2>4, <2>5, <2>6
<1> QED BY <1>1, WormInvariant, PTL DEF WormSpec, OnlyRacesShorten

\* Whatever differed all through a batch, and could be read, is in the alerts
\* that the batch stores, for any number of batches.
THEOREM DriftsAlerted == WormSpec => DriftAlerted
<1>1. ASSUME WormInv, [WormNext]_wormVars
      PROVE  [\A a \in Admins : CommitAlerts(a) => since[a] \ req[a].unread \subseteq alerts']_wormVars
  <2> SUFFICES ASSUME NEW a \in Admins, CommitAlerts(a)
               PROVE  since[a] \ req[a].unread \subseteq alerts'
    OBVIOUS
  <2>1. /\ req[a].at = "verify" /\ req[a].docs = {} /\ alerts' = alerts \cup req[a].alarm
    BY DEF CommitAlerts
  <2>2. since[a] \subseteq req[a].alarm \cup req[a].unread
    BY <1>1, <2>1 DEF WormInv, BatchInv
  <2> QED BY <2>1, <2>2
<1> QED BY <1>1, WormInvariant, PTL DEF WormSpec, DriftAlerted

-----------------------------------------------------------------------------
(* AML SCREENING.  Any number of workers, lists and restarts.              *)

Screening == [cid : Customers, status : {"pending", "running", "cleared", "flagged", "error"},
              when : Nat, listed : SUBSET Lists]
Run == [at : {"idle", "check", "insert", "lists", "match"}, cid : Customers \cup {"none"},
        row : Nat, todo : SUBSET Lists, found : SUBSET Lists, listed : SUBSET Lists]

ScreeningTypeOK ==
    /\ time \in Nat
    /\ file \in [Lists -> SUBSET Customers] /\ entries \in [Lists -> SUBSET Customers]
    /\ active \subseteq Lists
    /\ screenings \in Seq(Screening) /\ queue \in Seq(Customers)
    /\ worker \in [Workers -> Run]

\* A screening has its row, and of the lists that matched all along the thread
\* has found each one or will come to it.
RunInv(w) ==
    /\ worker[w].at # "idle" => worker[w].cid \in Customers
    /\ worker[w].at \in {"lists", "match"} =>
           /\ worker[w].row \in Rows
           /\ worker[w].listed \subseteq Matching(worker[w].cid)
    /\ worker[w].at = "match" => worker[w].listed \subseteq worker[w].todo \cup worker[w].found

\* The rows that hold off another screening of c, and the threads that have
\* looked for them and found none.
Running(c) == {i \in Rows : /\ screenings[i].cid = c /\ screenings[i].status = "running"
                            /\ screenings[i].when + Window >= time}
Inserting(c) == {w \in Workers : worker[w].at = "insert" /\ worker[w].cid = c}

WorkersSuffice(c) ==
    Cardinality(Running(c)) + Cardinality(Inserting(c)) <= Cardinality(Workers)

ScreeningInv ==
    /\ ScreeningTypeOK
    /\ \A w \in Workers : RunInv(w)
    /\ ListedIsFlagged
    /\ \A c \in Customers : WorkersSuffice(c)

LEMMA NoRunTyped ==
    /\ NoRun \in Run /\ NoRun.at = "idle" /\ NoRun.listed = {} /\ NoRun.found = {}
    /\ NoRun.todo = {}
BY DEF NoRun, Run

LEMMA FewerIsLess ==
    ASSUME NEW R, NEW I, IsFiniteSet(R), IsFiniteSet(I), NEW n \in Nat,
           Cardinality(R) + Cardinality(I) <= n,
           NEW S \in SUBSET R, NEW J \in SUBSET I
    PROVE  Cardinality(S) + Cardinality(J) <= n
<1>1. Cardinality(S) <= Cardinality(R) /\ IsFiniteSet(S)
  BY FS_Subset
<1>2. Cardinality(J) <= Cardinality(I) /\ IsFiniteSet(J)
  BY FS_Subset
<1>3. {Cardinality(R), Cardinality(I), Cardinality(S), Cardinality(J)} \subseteq Nat
  BY <1>1, <1>2, FS_CardinalityType
<1> QED BY <1>1, <1>2, <1>3

LEMMA FiniteParts ==
    ASSUME ScreeningInv, NEW c
    PROVE  /\ Rows = 1 .. Len(screenings) /\ Len(screenings) \in Nat
           /\ IsFiniteSet(Running(c)) /\ IsFiniteSet(Inserting(c))
           /\ Cardinality(Workers) \in Nat
<1>1. Rows = 1 .. Len(screenings) /\ Len(screenings) \in Nat
  BY DEF ScreeningInv, ScreeningTypeOK, Rows
<1>2. IsFiniteSet(Rows)
  BY <1>1, FS_Interval
<1>3. IsFiniteSet(Running(c))
  BY <1>2, FS_Subset DEF Running
<1>4. IsFiniteSet(Inserting(c))
  BY FS_Subset, ScreeningAssumption DEF Inserting
<1>5. Cardinality(Workers) \in Nat
  BY FS_CardinalityType, ScreeningAssumption
<1> QED BY <1>1, <1>3, <1>4, <1>5

\* No row starts to run, and no thread has found that none does.
LEMMA StillSuffice ==
    ASSUME ScreeningInv, NEW c \in Customers,
           Running(c)' \subseteq Running(c), Inserting(c)' \subseteq Inserting(c)
    PROVE  WorkersSuffice(c)'
<1>1. Cardinality(Running(c)) + Cardinality(Inserting(c)) <= Cardinality(Workers)
  BY DEF ScreeningInv, WorkersSuffice
<1>2. PICK R, S, I, J : R = Running(c) /\ S = Running(c)' /\ I = Inserting(c) /\ J = Inserting(c)'
  OBVIOUS
<1>3. /\ IsFiniteSet(R) /\ IsFiniteSet(I) /\ Cardinality(Workers) \in Nat
      /\ S \in SUBSET R /\ J \in SUBSET I
      /\ Cardinality(R) + Cardinality(I) <= Cardinality(Workers)
  BY <1>1, <1>2, FiniteParts
<1>4. Cardinality(S) + Cardinality(J) <= Cardinality(Workers)
  BY <1>3, FewerIsLess
<1> QED BY <1>2, <1>4 DEF WorkersSuffice

\* A worker's step, given what it does to its own run and to the rows.
LEMMA StepKeeps ==
    ASSUME ScreeningInv, NEW w \in Workers, NEW run \in Run, Step(w, run),
           UNCHANGED <<time, lists>>, screenings' \in Seq(Screening), queue' \in Seq(Customers),
           Rows \subseteq Rows', ListedIsFlagged', \A c \in Customers : WorkersSuffice(c)',
           worker'[w] = run => RunInv(w)'
    PROVE  ScreeningInv'
<1>1. /\ worker' \in [Workers -> Run] /\ worker'[w] = run
      /\ \A v \in Workers : v # w => worker'[v] = worker[v]
  BY DEF Step, ScreeningInv, ScreeningTypeOK
<1>2. UNCHANGED <<file, entries, active>>
  BY DEF lists
<1>3. ScreeningTypeOK'
  BY <1>1, <1>2 DEF ScreeningInv, ScreeningTypeOK
<1>4. ASSUME NEW v \in Workers, v # w
      PROVE  RunInv(v)'
  <2>1. RunInv(v) /\ worker'[v] = worker[v]
    BY <1>1, <1>4 DEF ScreeningInv
  <2>2. Matching(worker[v].cid)' = Matching(worker[v].cid)
    BY <1>2, <2>1 DEF Matching
  <2> QED BY <2>1, <2>2 DEF RunInv
<1> QED BY <1>1, <1>3, <1>4 DEF ScreeningInv

LEMMA RowAdded ==
    ASSUME ScreeningInv, NEW r \in Screening, screenings' = Append(screenings, r),
           r.status # "cleared"
    PROVE  /\ screenings' \in Seq(Screening) /\ Rows' = Rows \cup {Len(screenings) + 1}
           /\ \A i \in Rows : screenings'[i] = screenings[i]
           /\ screenings'[Len(screenings) + 1] = r
           /\ Rows \subseteq Rows' /\ Len(screenings) + 1 \in Rows'
           /\ ListedIsFlagged'
<1>1. screenings \in Seq(Screening) /\ Rows = 1 .. Len(screenings) /\ Len(screenings) \in Nat
  BY DEF ScreeningInv, ScreeningTypeOK, Rows
<1>2. /\ screenings' \in Seq(Screening) /\ Len(screenings') = Len(screenings) + 1
      /\ \A i \in Rows : screenings'[i] = screenings[i]
      /\ screenings'[Len(screenings) + 1] = r
  BY <1>1, AppendProperties
<1>3. Rows' = 1 .. Len(screenings) + 1
  BY <1>2 DEF Rows
<1>4. Rows' = Rows \cup {Len(screenings) + 1}
  BY <1>1, <1>3
<1>5. ListedIsFlagged'
  BY <1>2, <1>4 DEF ListedIsFlagged, ScreeningInv
<1> QED BY <1>2, <1>4, <1>5

\* A row changes its status to one that is not running.
LEMMA RowEnded ==
    ASSUME ScreeningInv, NEW i \in Rows, NEW r \in Screening, r.cid = screenings[i].cid,
           r.when = screenings[i].when, r.status # "running",
           r.status = "cleared" => r.listed = {},
           screenings' = [screenings EXCEPT ![i] = r], UNCHANGED time
    PROVE  /\ screenings' \in Seq(Screening) /\ Rows' = Rows
           /\ ListedIsFlagged' /\ \A c \in Customers : Running(c)' \subseteq Running(c)
<1>1. screenings \in Seq(Screening) /\ Rows = 1 .. Len(screenings)
  BY DEF ScreeningInv, ScreeningTypeOK, Rows
<1>2. /\ screenings' \in Seq(Screening) /\ Len(screenings') = Len(screenings)
      /\ \A j \in 1 .. Len(screenings) : screenings'[j] = IF j = i THEN r ELSE screenings[j]
  BY <1>1, ExceptSeq
<1>3. Rows' = Rows
  BY <1>1, <1>2 DEF Rows
<1>4. \A j \in Rows : screenings'[j] = IF j = i THEN r ELSE screenings[j]
  BY <1>1, <1>2
<1>5. ListedIsFlagged'
  BY <1>3, <1>4 DEF ListedIsFlagged, ScreeningInv
<1>6. \A c \in Customers : Running(c)' \subseteq Running(c)
  BY <1>3, <1>4 DEF Running
<1> QED BY <1>2, <1>3, <1>5, <1>6

LEMMA ScreeningStart == ASSUME ScreeningInit PROVE ScreeningInv
<1>1. ScreeningTypeOK
  BY NoRunTyped DEF ScreeningInit, ScreeningTypeOK
<1>2. Rows = {}
  BY DEF ScreeningInit, Rows
<1>3. \A w \in Workers : RunInv(w)
  BY NoRunTyped DEF ScreeningInit, RunInv
<1>4. ASSUME NEW c \in Customers
      PROVE  WorkersSuffice(c)
  <2>1. Running(c) = {} /\ Inserting(c) = {}
    BY <1>2, NoRunTyped DEF Running, Inserting, ScreeningInit
  <2>2. Cardinality(Workers) \in Nat
    BY FS_CardinalityType, ScreeningAssumption
  <2> QED BY <2>1, <2>2, FS_EmptySet DEF WorkersSuffice
<1> QED BY <1>1, <1>2, <1>3, <1>4 DEF ScreeningInv, ListedIsFlagged

-----------------------------------------------------------------------------
(* Requests.                                                               *)

LEMMA RequestKeeps ==
    ASSUME ScreeningInv, NEW c \in Customers,
           Enqueue(c) \/ \E force \in BOOLEAN : ScreenOneCustomer(c, force)
    PROVE  ScreeningInv'
<1>1. queue' \in Seq(Customers) /\ UNCHANGED <<time, file, entries, active, worker>>
  <2>1. queue' = Append(queue, c) /\ UNCHANGED <<time, file, entries, active, worker>>
    BY DEF Enqueue, ScreenOneCustomer, screeningBounds, lists
  <2>2. queue \in Seq(Customers)
    BY DEF ScreeningInv, ScreeningTypeOK
  <2> QED BY <2>1, <2>2, AppendProperties
<1>2. /\ screenings' \in Seq(Screening) /\ Rows \subseteq Rows' /\ ListedIsFlagged'
      /\ \A d \in Customers : Running(d)' \subseteq Running(d)
  <2>1. CASE UNCHANGED screenings
    BY <1>1, <2>1 DEF Rows, ListedIsFlagged, Running, ScreeningInv, ScreeningTypeOK
  <2>2. CASE screenings' = Append(screenings, Row(c, "pending"))
    <3>1. PICK r : r = Row(c, "pending")
      OBVIOUS
    <3>2. r \in Screening /\ r.status = "pending"
      BY <3>1 DEF Row, Screening, ScreeningInv, ScreeningTypeOK
    <3>3. /\ screenings' \in Seq(Screening) /\ Rows' = Rows \cup {Len(screenings) + 1}
          /\ \A i \in Rows : screenings'[i] = screenings[i]
          /\ screenings'[Len(screenings) + 1] = r
          /\ ListedIsFlagged'
      BY <2>2, <3>1, <3>2, RowAdded
    <3>4. \A d \in Customers : Running(d)' \subseteq Running(d)
      BY <1>1, <3>2, <3>3 DEF Running
    <3> QED BY <3>3, <3>4
  <2> QED BY <2>1, <2>2 DEF Enqueue, ScreenOneCustomer
<1>3. ScreeningTypeOK'
  BY <1>1, <1>2 DEF ScreeningInv, ScreeningTypeOK
<1>4. \A w \in Workers : RunInv(w)'
  <2>1. \A d : Matching(d)' = Matching(d)
    BY <1>1 DEF Matching
  <2> QED BY <1>1, <1>2, <2>1 DEF RunInv, ScreeningInv
<1>5. \A d \in Customers : WorkersSuffice(d)'
  <2>1. \A d \in Customers : Inserting(d)' = Inserting(d)
    BY <1>1 DEF Inserting
  <2> QED BY <1>2, <2>1, StillSuffice
<1> QED BY <1>2, <1>3, <1>4, <1>5 DEF ScreeningInv

-----------------------------------------------------------------------------
(* Workers.                                                                *)

\* Steps that leave the rows alone.
LEMMA RowsAlone ==
    ASSUME ScreeningInv, UNCHANGED <<time, screenings>>
    PROVE  /\ screenings' \in Seq(Screening) /\ Rows' = Rows /\ ListedIsFlagged'
           /\ \A c \in Customers : Running(c)' = Running(c)
BY DEF ScreeningInv, ScreeningTypeOK, Rows, ListedIsFlagged, Running

LEMMA RunOf ==
    ASSUME ScreeningInv, NEW w \in Workers, NEW run, Step(w, run)
    PROVE  /\ worker[w] \in Run /\ RunInv(w) /\ worker'[w] = run
           /\ \A v \in Workers : v # w => worker'[v] = worker[v]
BY DEF ScreeningInv, ScreeningTypeOK, Step

\* The threads that found no row are those they were, but for w.
LEMMA InsertingOf ==
    ASSUME ScreeningInv, NEW w \in Workers, NEW run, Step(w, run), run.at # "insert"
    PROVE  /\ \A c \in Customers : Inserting(c)' \subseteq Inserting(c)
           /\ \A c \in Customers : Inserting(c)' \subseteq Inserting(c) \ {w}
BY RunOf DEF Inserting

LEMMA TakeKeeps ==
    ASSUME ScreeningInv, NEW w \in Workers, Take(w)
    PROVE  ScreeningInv'
<1>1. PICK c : c = Head(queue)
  OBVIOUS
<1>2. c \in Customers /\ queue' \in Seq(Customers)
  BY <1>1, HeadTailProperties DEF Take, ScreeningInv, ScreeningTypeOK
<1>3. PICK run : run = [NoRun EXCEPT !.at = "check", !.cid = c]
  OBVIOUS
<1>4. Step(w, run) /\ UNCHANGED <<time, lists, screenings>>
  BY <1>1, <1>3 DEF Take, screeningBounds
<1>5. run \in Run /\ run.at = "check" /\ run.cid = c
  BY <1>2, <1>3 DEF NoRun, Run
<1>6. worker'[w] = run => RunInv(w)'
  BY <1>2, <1>5 DEF RunInv
<1>7. \A d \in Customers : WorkersSuffice(d)'
  BY <1>4, <1>5, RowsAlone, InsertingOf, StillSuffice
<1> QED BY <1>2, <1>4, <1>5, <1>6, <1>7, RowsAlone, StepKeeps

\* Nothing runs when a thread finds that it may insert a row.
LEMMA CheckKeeps ==
    ASSUME ScreeningInv, NEW w \in Workers, CheckInflight(w)
    PROVE  ScreeningInv'
<1>1. PICK run : run = IF Inflight(worker[w].cid) # {} THEN NoRun
                       ELSE [worker[w] EXCEPT !.at = "insert"]
  OBVIOUS
<1>2. Step(w, run) /\ UNCHANGED <<time, lists, screenings, queue>> /\ worker[w].at = "check"
  BY <1>1 DEF CheckInflight, screeningBounds
<1>3. /\ worker[w] \in Run /\ RunInv(w) /\ worker'[w] = run
      /\ \A v \in Workers : v # w => worker'[v] = worker[v]
  BY <1>2, RunOf
<1>4. PICK c : c = worker[w].cid
  OBVIOUS
<1>5. c \in Customers
  BY <1>2, <1>3, <1>4 DEF RunInv
<1>6. \/ run = NoRun
      \/ /\ run = [worker[w] EXCEPT !.at = "insert"] /\ run.at = "insert" /\ run.cid = c
         /\ Inflight(c) = {}
  BY <1>1, <1>3, <1>4 DEF Run
<1>7. run \in Run /\ (worker'[w] = run => RunInv(w)')
  BY <1>3, <1>4, <1>5, <1>6, NoRunTyped DEF Run, RunInv
<1>8. ASSUME NEW d \in Customers
      PROVE  WorkersSuffice(d)'
  <2>1. Running(d)' = Running(d)
    BY <1>2, RowsAlone
  <2>2. CASE run.at = "insert" /\ d = c
    <3>1. Running(d) = {}
      BY <1>6, <2>2, NoRunTyped DEF Running, Inflight
    <3>2. Inserting(d)' \subseteq Workers /\ IsFiniteSet(Workers)
      BY ScreeningAssumption DEF Inserting
    <3>3. PICK I : I = Inserting(d)'
      OBVIOUS
    <3>4. Cardinality(I) <= Cardinality(Workers) /\ IsFiniteSet(I)
      BY <3>2, <3>3, FS_Subset
    <3>5. Cardinality({}) + Cardinality(I) <= Cardinality(Workers)
      BY <3>2, <3>4, FS_EmptySet, FS_CardinalityType
    <3> QED BY <2>1, <3>1, <3>3, <3>5 DEF WorkersSuffice
  <2>3. CASE ~(run.at = "insert" /\ d = c)
    <3>1. Inserting(d)' \subseteq Inserting(d)
      BY <1>3, <1>6, <2>3, NoRunTyped DEF Inserting
    <3> QED BY <2>1, <3>1, StillSuffice
  <2> QED BY <2>2, <2>3
<1> QED BY <1>2, <1>7, <1>8, RowsAlone, StepKeeps DEF ScreeningInv, ScreeningTypeOK

\* The thread that found no running row becomes one.
LEMMA InsertKeeps ==
    ASSUME ScreeningInv, NEW w \in Workers, InsertRunning(w)
    PROVE  ScreeningInv'
<1> DEFINE new == Len(screenings) + 1
<1>1. PICK c : c = worker[w].cid
  OBVIOUS
<1>2. PICK run : run = [worker[w] EXCEPT !.at = "lists", !.row = new, !.listed = Matching(c)]
  OBVIOUS
<1>3. /\ Step(w, run) /\ UNCHANGED <<time, lists, queue>> /\ worker[w].at = "insert"
      /\ screenings' = Append(screenings, Row(c, "running"))
  BY <1>1, <1>2 DEF InsertRunning, screeningBounds
<1>4. /\ worker[w] \in Run /\ RunInv(w) /\ worker'[w] = run
      /\ \A v \in Workers : v # w => worker'[v] = worker[v]
  BY <1>3, RunOf
<1>5. c \in Customers /\ new \in Nat /\ Matching(c) \subseteq Lists
  BY <1>1, <1>3, <1>4 DEF RunInv, ScreeningInv, ScreeningTypeOK, Matching
<1> HIDE DEF new
<1>6. /\ run \in Run /\ run.at = "lists" /\ run.cid = c /\ run.row = new
      /\ run.listed = Matching(c)
  BY <1>1, <1>2, <1>4, <1>5 DEF Run
<1>7. PICK r : r = Row(c, "running")
  OBVIOUS
<1>8. r \in Screening /\ r.status = "running" /\ r.cid = c
  BY <1>5, <1>7 DEF Row, Screening, ScreeningInv, ScreeningTypeOK
<1>9. /\ screenings' \in Seq(Screening) /\ Rows' = Rows \cup {new}
      /\ \A i \in Rows : screenings'[i] = screenings[i]
      /\ screenings'[new] = r
      /\ Rows \subseteq Rows' /\ new \in Rows'
      /\ ListedIsFlagged'
  BY <1>3, <1>7, <1>8, RowAdded DEF new
<1>10. worker'[w] = run => RunInv(w)'
  <2>1. Matching(c)' = Matching(c)
    BY <1>3 DEF Matching, lists
  <2> QED BY <1>5, <1>6, <1>9, <2>1 DEF RunInv
<1>11. ASSUME NEW d \in Customers
       PROVE  WorkersSuffice(d)'
  <2>1. Inserting(d)' \subseteq Inserting(d) \ {w}
    BY <1>3, <1>6, InsertingOf
  <2>2. CASE d # c
    <3>1. Running(d)' \subseteq Running(d)
      BY <1>3, <1>8, <1>9, <2>2 DEF Running
    <3> QED BY <2>1, <3>1, StillSuffice
  <2>3. CASE d = c
    <3>1. PICK R, S, I, J : R = Running(c) /\ S = Running(c)' /\ I = Inserting(c) /\ J = Inserting(c)'
      OBVIOUS
    <3>2. S \subseteq R \cup {new}
      BY <1>3, <1>9, <3>1 DEF Running
    <3>3. J \subseteq I \ {w} /\ w \in I
      BY <1>1, <1>3, <2>1, <2>3, <3>1 DEF Inserting
    <3>4. /\ IsFiniteSet(R) /\ IsFiniteSet(I) /\ Cardinality(Workers) \in Nat
          /\ Cardinality(R) + Cardinality(I) <= Cardinality(Workers)
      BY <1>5, <3>1, FiniteParts DEF ScreeningInv, WorkersSuffice
    <3>5. IsFiniteSet(R \cup {new}) /\ Cardinality(R \cup {new}) <= Cardinality(R) + 1
      <4>1. Cardinality(R) \in Nat /\ IsFiniteSet(R \cup {new})
        BY <3>4, FS_CardinalityType, FS_AddElement
      <4>2. Cardinality(R \cup {new}) = IF new \in R THEN Cardinality(R) ELSE Cardinality(R) + 1
        BY <3>4, FS_AddElement
      <4> QED BY <4>1, <4>2
    <3>6. IsFiniteSet(I \ {w}) /\ Cardinality(I \ {w}) = Cardinality(I) - 1
      BY <3>3, <3>4, FS_RemoveElement
    <3>7. {Cardinality(R), Cardinality(I), Cardinality(R \cup {new}), Cardinality(I \ {w})} \subseteq Nat
      BY <3>4, <3>5, <3>6, FS_CardinalityType
    <3>8. Cardinality(R \cup {new}) + Cardinality(I \ {w}) <= Cardinality(Workers)
      BY <3>4, <3>5, <3>6, <3>7
    <3>9. Cardinality(S) + Cardinality(J) <= Cardinality(Workers)
      BY <3>2, <3>3, <3>4, <3>5, <3>6, <3>8, FewerIsLess
    <3> QED BY <2>3, <3>1, <3>9 DEF WorkersSuffice
  <2> QED BY <2>2, <2>3
<1> QED BY <1>3, <1>6, <1>9, <1>10, <1>11, StepKeeps DEF ScreeningInv, ScreeningTypeOK

LEMMA ListKeeps ==
    ASSUME ScreeningInv, NEW w \in Workers,
           ReadLists(w) \/ \E l \in Lists : MatchList(w, l)
    PROVE  ScreeningInv'
<1>1. PICK run : Step(w, run) /\ run = worker'[w]
  BY DEF ReadLists, MatchList, Step, ScreeningInv, ScreeningTypeOK
<1>2. UNCHANGED <<time, lists, screenings, queue, file, entries, active>>
  BY DEF ReadLists, MatchList, screeningBounds, lists
<1>3. /\ worker[w] \in Run /\ RunInv(w) /\ worker'[w] = run
      /\ \A v \in Workers : v # w => worker'[v] = worker[v]
  BY <1>1, RunOf
<1>4. active \subseteq Lists /\ worker \in [Workers -> Run] /\ Rows' = Rows
  BY <1>2, RowsAlone DEF ScreeningInv, ScreeningTypeOK
<1>5. \A c : Matching(c)' = Matching(c) /\ Matching(c) \subseteq active
  BY <1>2 DEF Matching
<1>6. run \in Run /\ run.at = "match" /\ RunInv(w)'
  <2>1. CASE ReadLists(w)
    <3>1. run = [worker[w] EXCEPT !.at = "match", !.todo = active]
      BY <1>3, <1>4, <2>1 DEF ReadLists, ActiveLists, Step
    <3>2. run \in Run /\ run.at = "match" /\ run.todo = active /\ run.cid = worker[w].cid
          /\ run.row = worker[w].row /\ run.listed = worker[w].listed
      BY <1>3, <1>4, <3>1 DEF Run
    <3>3. worker[w].at = "lists"
      BY <2>1 DEF ReadLists
    <3> QED BY <1>3, <1>4, <1>5, <3>2, <3>3 DEF RunInv
  <2>2. ASSUME NEW l \in Lists, MatchList(w, l)
        PROVE  run \in Run /\ run.at = "match" /\ RunInv(w)'
    <3>1. PICK found : found = IF worker[w].cid \in entries[l] THEN worker[w].found \cup {l}
                               ELSE worker[w].found
      OBVIOUS
    <3>2. run = [worker[w] EXCEPT !.todo = @ \ {l}, !.found = found]
      BY <1>3, <1>4, <2>2, <3>1 DEF MatchList, Step
    <3>3. worker[w].at = "match" /\ found \subseteq Lists
      BY <1>3, <2>2, <3>1 DEF MatchList, Run
    <3>4. run \in Run /\ run.at = "match" /\ run.todo = worker[w].todo \ {l} /\ run.found = found
          /\ run.cid = worker[w].cid /\ run.row = worker[w].row /\ run.listed = worker[w].listed
      BY <1>3, <3>2, <3>3 DEF Run
    <3>5. l \in worker[w].listed => l \in found
      BY <1>3, <3>1, <3>3 DEF RunInv, Matching
    <3> QED BY <1>3, <1>4, <1>5, <3>1, <3>3, <3>4, <3>5 DEF RunInv
  <2> QED BY <2>1, <2>2
<1>7. \A c \in Customers : WorkersSuffice(c)'
  BY <1>1, <1>2, <1>6, RowsAlone, InsertingOf, StillSuffice
<1> QED BY <1>1, <1>2, <1>6, <1>7, RowsAlone, StepKeeps DEF ScreeningInv, ScreeningTypeOK

\* A thread is done with its screening, and of the rows at most its own has
\* changed, to a status that is not running.
LEMMA ThreadDone ==
    ASSUME ScreeningInv, NEW w \in Workers, Step(w, NoRun), UNCHANGED <<time, lists, queue>>,
           screenings' \in Seq(Screening), Rows' = Rows, ListedIsFlagged',
           \A c \in Customers : Running(c)' \subseteq Running(c)
    PROVE  ScreeningInv'
<1>1. \A c \in Customers : WorkersSuffice(c)'
  BY NoRunTyped, InsertingOf, StillSuffice
<1>2. worker'[w] = NoRun => RunInv(w)'
  BY NoRunTyped DEF RunInv
<1> QED BY <1>1, <1>2, NoRunTyped, StepKeeps DEF ScreeningInv, ScreeningTypeOK

\* Every list that matched all along has been found when none is left to do.
LEMMA CompleteKeeps ==
    ASSUME ScreeningInv, NEW w \in Workers, Complete(w)
    PROVE  ScreeningInv'
<1>1. Step(w, NoRun) /\ UNCHANGED <<time, lists, queue>> /\ worker[w].at = "match"
  BY DEF Complete, screeningBounds
<1>2. PICK i \in Rows : i = worker[w].row
  BY <1>1, RunOf DEF RunInv
<1>3. screenings[i] \in Screening /\ worker[w] \in Run /\ RunInv(w)
  BY <1>1, RunOf DEF ScreeningInv, ScreeningTypeOK, Rows
<1> DEFINE o == Outcome(worker[w].found)
<1>4. PICK r : r = [screenings[i] EXCEPT !.status = o, !.listed = worker[w].listed]
  OBVIOUS
<1>5. o \in {"cleared", "flagged"} /\ (o = "cleared" => worker[w].found = {})
  BY DEF Outcome
<1>6. o = "cleared" => worker[w].listed = {}
  BY <1>3, <1>5 DEF Complete, RunInv
<1>7. screenings' = [screenings EXCEPT ![i] = r]
  BY <1>2, <1>4 DEF Complete
<1> HIDE DEF o
<1>8. r \in Screening /\ r.cid = screenings[i].cid /\ r.when = screenings[i].when
      /\ r.status = o /\ r.listed = worker[w].listed
  BY <1>3, <1>4, <1>5 DEF Screening, Run
<1>9. /\ screenings' \in Seq(Screening) /\ Rows' = Rows /\ ListedIsFlagged'
      /\ \A c \in Customers : Running(c)' \subseteq Running(c)
  BY <1>1, <1>5, <1>6, <1>7, <1>8, RowEnded
<1> QED BY <1>1, <1>9, ThreadDone

LEMMA ErrorKeeps ==
    ASSUME ScreeningInv, NEW w \in Workers, ScreenError(w)
    PROVE  ScreeningInv'
<1>1. Step(w, NoRun) /\ UNCHANGED <<time, lists, queue>> /\ worker[w].at \in {"lists", "match"}
  BY DEF ScreenError, screeningBounds
<1>2. PICK i \in Rows : i = worker[w].row
  BY <1>1, RunOf DEF RunInv
<1>3. screenings[i] \in Screening
  BY DEF ScreeningInv, ScreeningTypeOK, Rows
<1>4. PICK r : r = [screenings[i] EXCEPT !.status = "error"]
  OBVIOUS
<1>5. CASE screenings' = screenings
  <2>1. Rows' = Rows /\ screenings' \in Seq(Screening)
    BY <1>5 DEF Rows, ScreeningInv, ScreeningTypeOK
  <2>2. ListedIsFlagged' /\ \A c \in Customers : Running(c)' \subseteq Running(c)
    BY <1>1, <1>5, <2>1 DEF ListedIsFlagged, Running, ScreeningInv
  <2> QED BY <1>1, <2>1, <2>2, ThreadDone
<1>6. CASE screenings' = [screenings EXCEPT ![i] = r]
  <2>1. r \in Screening /\ r.cid = screenings[i].cid /\ r.when = screenings[i].when
        /\ r.status = "error"
    BY <1>3, <1>4 DEF Screening
  <2>2. /\ screenings' \in Seq(Screening) /\ Rows' = Rows /\ ListedIsFlagged'
        /\ \A c \in Customers : Running(c)' \subseteq Running(c)
    BY <1>1, <1>6, <2>1, RowEnded
  <2> QED BY <1>1, <2>2, ThreadDone
<1> QED BY <1>2, <1>4, <1>5, <1>6 DEF ScreenError

-----------------------------------------------------------------------------
(* The rest.                                                               *)

LEMMA ListsChange ==
    ASSUME ScreeningInv,
           RefreshWatchlists \/ \E l \in Lists : PatchWatchlist(l)
    PROVE  ScreeningInv'
<1>1. /\ StillListed /\ UNCHANGED <<time, file, screenings, queue>>
      /\ entries' \in [Lists -> SUBSET Customers] /\ active' \subseteq Lists
  BY DEF RefreshWatchlists, PatchWatchlist, screeningBounds, ScreeningInv, ScreeningTypeOK
<1>2. ASSUME NEW w \in Workers
      PROVE  /\ worker[w] \in Run /\ worker'[w] \in Run
             /\ worker'[w].at = worker[w].at /\ worker'[w].cid = worker[w].cid
             /\ worker'[w].row = worker[w].row /\ worker'[w].todo = worker[w].todo
             /\ worker'[w].found = worker[w].found
             /\ worker'[w].listed \subseteq worker[w].listed
             /\ worker'[w].listed \subseteq Matching(worker[w].cid)'
  <2>1. worker[w] \in Run
    BY DEF ScreeningInv, ScreeningTypeOK
  <2>2. PICK L : L = {l \in worker[w].listed : l \in active' /\ worker[w].cid \in entries'[l]}
    OBVIOUS
  <2>3. worker'[w] = [worker[w] EXCEPT !.listed = L]
    BY <1>1, <2>2 DEF StillListed
  <2>4. L \subseteq worker[w].listed
    BY <2>2
  <2>5. /\ worker'[w] \in Run
        /\ worker'[w].at = worker[w].at /\ worker'[w].cid = worker[w].cid
        /\ worker'[w].row = worker[w].row /\ worker'[w].todo = worker[w].todo
        /\ worker'[w].found = worker[w].found /\ worker'[w].listed = L
    BY <2>1, <2>3, <2>4 DEF Run
  <2>6. L \subseteq Matching(worker[w].cid)'
    BY <2>2, <2>5 DEF Matching
  <2> QED BY <2>1, <2>4, <2>5, <2>6
<1>3. worker' \in [Workers -> Run]
  BY <1>1, <1>2 DEF StillListed
<1>4. ScreeningTypeOK'
  BY <1>1, <1>3 DEF ScreeningInv, ScreeningTypeOK
<1>5. Rows' = Rows /\ ListedIsFlagged' /\ \A c \in Customers : Running(c)' = Running(c)
  BY <1>1, RowsAlone
<1>6. \A w \in Workers : RunInv(w)'
  <2> SUFFICES ASSUME NEW w \in Workers PROVE RunInv(w)'
    OBVIOUS
  <2>1. RunInv(w)
    BY DEF ScreeningInv
  <2> QED BY <1>2, <1>5, <2>1 DEF RunInv
<1>7. \A c \in Customers : WorkersSuffice(c)'
  <2>1. \A c \in Customers : Inserting(c)' = Inserting(c)
    BY <1>2 DEF Inserting
  <2> QED BY <1>5, <2>1, StillSuffice
<1> QED BY <1>4, <1>5, <1>6, <1>7 DEF ScreeningInv

LEMMA TimeKeeps ==
    ASSUME ScreeningInv,
           TimePasses \/ \E l \in Lists : \E S \in SUBSET Customers : NewFile(l, S)
    PROVE  ScreeningInv'
<1>1. /\ UNCHANGED <<entries, active, screenings, queue, worker>>
      /\ file' \in [Lists -> SUBSET Customers] /\ time' \in Nat /\ time' >= time
  BY DEF TimePasses, NewFile, lists, ScreeningInv, ScreeningTypeOK
<1>2. ScreeningTypeOK'
  BY <1>1 DEF ScreeningInv, ScreeningTypeOK
<1>3. Rows' = Rows /\ ListedIsFlagged'
  BY <1>1 DEF Rows, ListedIsFlagged, ScreeningInv
<1>4. ASSUME NEW c \in Customers
      PROVE  WorkersSuffice(c)'
  <2>1. \A i \in Rows : screenings[i].when + Window \in Nat
    <3>1. screenings \in Seq(Screening) /\ Window \in Nat
      BY ScreeningAssumption DEF ScreeningInv, ScreeningTypeOK
    <3>2. \A i \in Rows : screenings[i] \in Screening
      BY <3>1 DEF Rows
    <3> QED BY <3>1, <3>2 DEF Screening
  <2>2. time \in Nat
    BY DEF ScreeningInv, ScreeningTypeOK
  <2>3. Running(c)' \subseteq Running(c)
    BY <1>1, <1>3, <2>1, <2>2 DEF Running
  <2>4. Inserting(c)' = Inserting(c)
    BY <1>1 DEF Inserting
  <2> QED BY <2>3, <2>4, StillSuffice
<1>5. \A w \in Workers : RunInv(w)'
  BY <1>1, <1>3 DEF RunInv, Matching, ScreeningInv
<1> QED BY <1>2, <1>3, <1>4, <1>5 DEF ScreeningInv

LEMMA RestartKeeps ==
    ASSUME ScreeningInv, Restart
    PROVE  ScreeningInv'
<1>1. /\ UNCHANGED <<time, file, entries, active, screenings>> /\ queue' = <<>>
      /\ worker' = [w \in Workers |-> NoRun]
  BY DEF Restart, lists
<1>2. ScreeningTypeOK'
  BY <1>1, NoRunTyped DEF ScreeningInv, ScreeningTypeOK
<1>3. ListedIsFlagged' /\ \A c \in Customers : Running(c)' = Running(c)
  BY <1>1, RowsAlone
<1>4. \A c \in Customers : WorkersSuffice(c)'
  <2>1. \A c \in Customers : Inserting(c)' = {}
    BY <1>1, NoRunTyped DEF Inserting
  <2> QED BY <1>3, <2>1, StillSuffice
<1>5. \A w \in Workers : RunInv(w)'
  BY <1>1, NoRunTyped DEF RunInv
<1> QED BY <1>2, <1>3, <1>4, <1>5 DEF ScreeningInv

LEMMA ScreeningStep ==
    ASSUME ScreeningInv, [ScreeningNext]_screeningVars
    PROVE  ScreeningInv'
<1>1. CASE UNCHANGED screeningVars
  <2>1. UNCHANGED <<time, file, entries, active, screenings, queue, worker>>
    BY <1>1 DEF screeningVars, screeningBounds, lists
  <2>2. \A c \in Customers : WorkersSuffice(c)'
    BY <2>1 DEF ScreeningInv, WorkersSuffice, Running, Inserting, Rows
  <2>3. \A w \in Workers : RunInv(w)'
    BY <2>1 DEF ScreeningInv, RunInv, Rows, Matching
  <2> QED BY <2>1, <2>2, <2>3 DEF ScreeningInv, ScreeningTypeOK, ListedIsFlagged, Rows
<1>2. CASE \E w \in Workers : WorkerStep(w) \/ ScreenError(w)
  BY <1>2, TakeKeeps, CheckKeeps, InsertKeeps, ListKeeps, CompleteKeeps, ErrorKeeps DEF WorkerStep
<1>3. CASE \E c \in Customers : Enqueue(c) \/ \E force \in BOOLEAN : ScreenOneCustomer(c, force)
  BY <1>3, RequestKeeps
<1> QED BY <1>1, <1>2, <1>3, RestartKeeps, TimeKeeps, ListsChange DEF ScreeningNext

\* What a worker has found covers what was on the lists throughout, and those
\* that run or are about to are at most the workers.
THEOREM ScreeningInvariant == ScreeningSpec => []ScreeningInv
<1>1. ScreeningInit => ScreeningInv
  BY ScreeningStart
<1>2. ScreeningInv /\ [ScreeningNext]_screeningVars => ScreeningInv'
  BY ScreeningStep
<1> QED BY <1>1, <1>2, PTL DEF ScreeningSpec

\* Lists, screenings, the queue and what a worker is at keep their shape.
THEOREM ScreeningTypeCorrect == ScreeningSpec => []ScreeningTypeOK
<1>1. ScreeningInv => ScreeningTypeOK
  BY DEF ScreeningInv
<1> QED BY <1>1, ScreeningInvariant, PTL

\* For any number of workers, lists and restarts, a screening does not clear
\* whoever was on an active list from its beginning to its end.
THEOREM ListedFlagged == ScreeningSpec => []ListedIsFlagged
<1>1. ScreeningInv => ListedIsFlagged
  BY DEF ScreeningInv
<1> QED BY <1>1, ScreeningInvariant, PTL

\* Threads that look for a running row and insert their own later are no more
\* than there are workers, whatever else restarts and time do.
THEOREM RunningIsBounded == ScreeningSpec => []RunningBounded
<1>1. ASSUME ScreeningInv
      PROVE  RunningBounded
  <2> SUFFICES ASSUME NEW c \in Customers PROVE Cardinality(Running(c)) <= Cardinality(Workers)
    BY DEF RunningBounded, Running
  <2>1. PICK R, I : R = Running(c) /\ I = Inserting(c)
    OBVIOUS
  <2>2. /\ IsFiniteSet(R) /\ IsFiniteSet(I) /\ Cardinality(Workers) \in Nat
        /\ Cardinality(R) + Cardinality(I) <= Cardinality(Workers)
    BY <1>1, <2>1, FiniteParts DEF ScreeningInv, WorkersSuffice
  <2>3. Cardinality(R) \in Nat /\ Cardinality(I) \in Nat
    BY <2>2, FS_CardinalityType
  <2> QED BY <2>1, <2>2, <2>3
<1> QED BY <1>1, ScreeningInvariant, PTL
=============================================================================
