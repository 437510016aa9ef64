------------------------- MODULE OfflineQueueProofs -------------------------
(***************************************************************************)
(* Theorems about OfflineQueue: its types, where an accepted upload may    *)
(* be, that it becomes one document, that an audit row stands for a dead   *)
(* letter, and that the queue implements UploadDelivery while the volume   *)
(* is durable and no upload is sent twice.  Each action is treated twice:  *)
(* what it does to the commands and to who waits for them (ControlInv),    *)
(* and where it leaves the uploads (Kept).                                 *)
(***************************************************************************)
EXTENDS OfflineQueue, SequenceTheorems, FiniteSetTheorems, TLAPS

Procs == Uploads \cup Ticks

-----------------------------------------------------------------------------
(* Items.                                                                  *)

\* An item that may be replayed is an item, and stands for an upload.
LEMMA ItemFacts ==
    /\ Retryable \subseteq Item
    /\ NoItem \notin Item
    /\ NoItem \notin Retryable
<1>1. NoUpload \notin Uploads
  BY UploadsAssumption
<1>2. MaxRetries \in Nat \ {0}
  BY LimitsAssumption
<1>3. 0..MaxRetries - 1 \subseteq 0..MaxRetries
  BY <1>2
<1>4. Retryable \subseteq Item
  BY <1>3 DEF Retryable, Item
<1>5. NoItem \notin Item
  BY <1>1 DEF NoItem, Item
<1> QED BY <1>4, <1>5

\* A failed replay counts one more attempt of the same upload; below the
\* limit the item may be replayed again.
LEMMA RetriedItem ==
    ASSUME NEW it \in Retryable
    PROVE  /\ Retried(it) \in Item
           /\ Retried(it).upload = it.upload
           /\ ~(Retried(it).retries >= MaxRetries) => Retried(it) \in Retryable
<1>1. MaxRetries \in Nat \ {0}
  BY LimitsAssumption
<1>2. PICK u \in Uploads, n \in 0..MaxRetries - 1 : it = [upload |-> u, retries |-> n]
  BY DEF Retryable
<1>3. Retried(it) = [upload |-> u, retries |-> n + 1]
  BY <1>2 DEF Retried
<1>4. n + 1 \in 0..MaxRetries
  BY <1>1, <1>2
<1>5. ~(n + 1 >= MaxRetries) => n + 1 \in 0..MaxRetries - 1
  BY <1>1, <1>2
<1> QED BY <1>2, <1>3, <1>4, <1>5 DEF Item, Retryable

\* The two ways a sequence changes, by what it holds.
LEMMA AppendHolds ==
    ASSUME NEW S, NEW q \in Seq(S), NEW x \in S
    PROVE  /\ Append(q, x) \in Seq(S)
           /\ \A y \in S : (\E n \in DOMAIN Append(q, x) : Append(q, x)[n] = y)
                           <=> (y = x \/ \E n \in DOMAIN q : q[n] = y)
<1>1. Append(q, x) \in Seq(S)
  OBVIOUS
<1>2. /\ Len(Append(q, x)) = Len(q) + 1
      /\ Append(q, x)[Len(q) + 1] = x
      /\ \A n \in 1..Len(q) : Append(q, x)[n] = q[n]
  OBVIOUS
<1>3. DOMAIN Append(q, x) = 1..Len(q) + 1 /\ DOMAIN q = 1..Len(q) /\ Len(q) \in Nat
  BY <1>1, <1>2
<1> QED BY <1>1, <1>2, <1>3

LEMMA TailHolds ==
    ASSUME NEW S, NEW q \in Seq(S), q # <<>>
    PROVE  /\ Tail(q) \in Seq(S)
           /\ Head(q) \in S
           /\ \A y \in S : (\E n \in DOMAIN q : q[n] = y)
                           => (y = Head(q) \/ \E n \in DOMAIN Tail(q) : Tail(q)[n] = y)
<1>1. Tail(q) \in Seq(S) /\ Head(q) \in S /\ Head(q) = q[1]
  OBVIOUS
<1>2. Len(q) \in Nat \ {0} /\ DOMAIN q = 1..Len(q)
  BY EmptySeq
<1>3. Len(Tail(q)) = Len(q) - 1 /\ \A n \in 1..Len(q) - 1 : Tail(q)[n] = q[n + 1]
  OBVIOUS
<1>4. DOMAIN Tail(q) = 1..Len(q) - 1
  BY <1>1, <1>3
<1>5. ASSUME NEW n \in 1..Len(q)
      PROVE  q[n] = Head(q) \/ \E m \in DOMAIN Tail(q) : Tail(q)[m] = q[n]
  <2>1. CASE n = 1
    BY <1>1, <2>1
  <2>2. CASE n # 1
    <3>1. n - 1 \in 1..Len(q) - 1 /\ Tail(q)[n - 1] = q[n]
      BY <1>2, <1>3, <2>2
    <3> QED BY <3>1, <1>4
  <2> QED BY <2>1, <2>2
<1> QED BY <1>1, <1>2, <1>5

-----------------------------------------------------------------------------
(* Commands and those who wait for them.                                   *)

\* The part of ControlInv about ticks, requests and their commands.
Waits ==
    /\ client \in [Uploads -> {"new", "waiting", "accepted", "error"}]
    /\ tick \in [Ticks -> Tick]
    /\ cmd \in [Procs -> Cmd]
    /\ \A p \in Procs : CmdInv(cmd[p])
    /\ \A w \in Ticks : TickInv(tick[w], cmd[w])
    /\ \A u \in Uploads : ClientInv(u, cmd[u])

\* The part about the tables, the lists and the files.
Data ==
    /\ queue \in [Tenants -> Seq(Item)]
    /\ dead \in [Uploads -> Nat]
    /\ audited \in [Uploads -> Nat]
    /\ staged \in [Paths -> Uploads \cup {NoUpload}]
    /\ docs \in [Uploads -> Seq(Uploads)]
    /\ dropped \subseteq Uploads
    /\ \A t \in Tenants : queue[t] \in Seq(Retryable)

LEMMA ControlParts == ControlInv <=> Waits /\ Data
BY DEF ControlInv, OfflineTypeOK, Waits, Data, Procs

LEMMA ControlPartsNext == Waits' /\ Data' => ControlInv'
BY DEF ControlInv, OfflineTypeOK, Waits, Data, Procs

\* The records of the initial state are of their types.
LEMMA NoCmdTyped == NoCmd \in Cmd /\ CmdInv(NoCmd) /\ NoCmd.op = "none" /\ NoCmd.st = "none"
<1>1. Served[1] \in Tenants
  BY ServedAssumption, EmptySeq
<1> QED BY <1>1 DEF NoCmd, Cmd, CmdInv

LEMMA OffTyped == Off \in Tick /\ Off.pc = "off"
<1>1. Len(Served) \in Nat
  BY ServedAssumption
<1>2. 0 \in 0..Len(Served)
  BY <1>1
<1> QED BY <1>2 DEF Off, Tick

LEMMA ServedTenant ==
    ASSUME NEW at \in 1..Len(Served)
    PROVE  Served[at] \in Tenants /\ at \in 0..Len(Served)
<1>1. Served \in Seq(Tenants) /\ Len(Served) \in Nat
  BY ServedAssumption
<1> QED BY <1>1

\* A tick takes a new state and a new command that fit each other.
LEMMA TickChange ==
    ASSUME Waits, NEW w \in Ticks, NEW k \in Tick, NEW c \in Cmd,
           CmdInv(c), TickInv(k, c),
           tick' = [tick EXCEPT ![w] = k], cmd' = [cmd EXCEPT ![w] = c], client' = client
    PROVE  Waits'
<1>1. w \in Procs /\ \A u \in Uploads : u # w
  BY UploadsAssumption DEF Procs
<1>2. tick' \in [Ticks -> Tick] /\ cmd' \in [Procs -> Cmd]
  BY <1>1 DEF Waits
<1>3. \A p \in Procs : cmd'[p] = IF p = w THEN c ELSE cmd[p]
  BY <1>1 DEF Waits
<1>4. \A v \in Ticks : tick'[v] = IF v = w THEN k ELSE tick[v]
  BY DEF Waits
<1>5. \A p \in Procs : CmdInv(cmd'[p])
  BY <1>3 DEF Waits
<1>6. \A v \in Ticks : TickInv(tick'[v], cmd'[v])
  BY <1>3, <1>4 DEF Waits, Procs
<1>7. \A u \in Uploads : ClientInv(u, cmd[u])' 
  BY <1>1, <1>3 DEF Waits, Procs, ClientInv
<1> QED BY <1>2, <1>5, <1>6, <1>7 DEF Waits

\* A request or the process it waits for changes the state of its command.
LEMMA ReplyChange ==
    ASSUME Waits, NEW p \in Procs, NEW c \in Cmd,
           CmdInv(c), c.op = cmd[p].op, c.st # "none", cmd[p].op # "none",
           c.item = cmd[p].item \/ c.op = "pop",
           cmd' = [cmd EXCEPT ![p] = c], UNCHANGED <<tick, client>>
    PROVE  Waits'
<1>1. cmd' \in [Procs -> Cmd]
  BY DEF Waits
<1>2. \A q \in Procs : cmd'[q] = IF q = p THEN c ELSE cmd[q]
  BY DEF Waits
<1>3. \A q \in Procs : CmdInv(cmd'[q])
  BY <1>2 DEF Waits
<1>4. \A w \in Ticks : TickInv(tick[w], cmd'[w])
  BY <1>2 DEF Waits, Procs, TickInv
<1>5. \A u \in Uploads : ClientInv(u, cmd[u])'
  BY <1>2 DEF Waits, Procs, ClientInv
<1> QED BY <1>1, <1>3, <1>4, <1>5 DEF Waits

\* A tick asks for the next item of a tenant.
LEMMA PopWaits ==
    ASSUME Waits, NEW w \in Ticks, NEW at \in 1..Len(Served),
           NEW kept \in Item \cup {NoItem}, Pop(w, at, kept), client' = client
    PROVE  Waits'
<1> DEFINE k == [pc |-> "popping", at |-> at, item |-> kept]
           c == [op |-> "pop", tenant |-> Served[at], item |-> NoItem, st |-> "sent"]
<1>1. k \in Tick
  BY ServedTenant DEF Tick
<1>2. c \in Cmd /\ CmdInv(c)
  BY ServedTenant DEF Cmd, CmdInv
<1>3. TickInv(k, c)
  BY DEF TickInv
<1>4. tick' = [tick EXCEPT ![w] = k] /\ cmd' = [cmd EXCEPT ![w] = c]
  BY DEF Pop, Send
<1> QED BY <1>1, <1>2, <1>3, <1>4, TickChange

\* A tick goes on to the next tenant or ends.
LEMMA NextTenantWaits ==
    ASSUME Waits, NEW w \in Ticks, tick[w].pc # "off", NextTenant(w), client' = client
    PROVE  Waits'
<1>1. tick[w].at \in 1..Len(Served)
  BY DEF Waits, TickInv
<1>2. CASE tick[w].at < Len(Served) /\ Pop(w, tick[w].at + 1, NoItem)
  <2>1. tick[w].at + 1 \in 1..Len(Served)
    BY <1>1, <1>2, ServedAssumption
  <2> QED BY <1>2, <2>1, PopWaits
<1>3. CASE tick' = [tick EXCEPT ![w] = Off] /\ cmd' = [cmd EXCEPT ![w] = NoCmd]
  <2>1. TickInv(Off, NoCmd)
    BY NoCmdTyped, OffTyped DEF TickInv
  <2> QED BY <1>3, <2>1, NoCmdTyped, OffTyped, TickChange
<1> QED BY <1>2, <1>3 DEF NextTenant

\* A failed replay: the tick waits for the item to be put back or buried.
LEMMA AfterFailureWaits ==
    ASSUME Waits, NEW w \in Ticks, tick[w].pc = "popping", NEW it \in Retryable,
           AfterFailure(w, it), client' = client
    PROVE  Waits'
<1> DEFINE again == Retried(it)
           last  == again.retries >= MaxRetries
           k == [pc |-> IF last THEN "burying" ELSE "requeueing", at |-> tick[w].at, item |-> again]
           c == [op |-> IF last THEN "bury" ELSE "push", tenant |-> Served[tick[w].at],
                 item |-> again, st |-> "sent"]
<1>1. tick[w].at \in 1..Len(Served) /\ tick[w] \in Tick
  BY DEF Waits, TickInv
<1>2. again \in Item /\ (~last => again \in Retryable)
  BY RetriedItem
<1>3. k \in Tick
  BY <1>1, <1>2, ServedTenant DEF Tick
<1>4. c \in Cmd /\ CmdInv(c)
  BY <1>1, <1>2, ServedTenant DEF Cmd, CmdInv
<1>5. TickInv(k, c)
  BY <1>1 DEF TickInv
<1>6. tick' = [tick EXCEPT ![w] = k]
  BY DEF AfterFailure
<1>7. cmd' = [cmd EXCEPT ![w] = c]
  BY DEF AfterFailure, Send
<1> HIDE DEF k, c
<1> QED BY <1>3, <1>4, <1>5, <1>6, <1>7, TickChange

-----------------------------------------------------------------------------
(* ControlInv is inductive: one lemma per action.                          *)

LEMMA InitControl == Init => ControlInv
<1> SUFFICES ASSUME Init PROVE ControlInv
  OBVIOUS
<1>1. Data
  <2>1. <<>> \in Seq(Item) /\ <<>> \in Seq(Retryable) /\ <<>> \in Seq(Uploads)
    OBVIOUS
  <2> QED BY <2>1 DEF Init, Data
<1>2. client \in [Uploads -> {"new", "waiting", "accepted", "error"}]
      /\ tick \in [Ticks -> Tick] /\ cmd \in [Procs -> Cmd]
  BY NoCmdTyped, OffTyped DEF Init, Procs
<1>3. \A p \in Procs : CmdInv(cmd[p])
  BY NoCmdTyped DEF Init, Procs
<1>4. \A w \in Ticks : tick[w] = Off /\ cmd[w] = NoCmd
  BY DEF Init
<1>5. \A w \in Ticks : TickInv(tick[w], cmd[w])
  BY <1>4, NoCmdTyped, OffTyped DEF TickInv
<1>6. \A u \in Uploads : ClientInv(u, cmd[u])
  BY NoCmdTyped DEF Init, ClientInv
<1>7. Waits
  BY <1>2, <1>3, <1>5, <1>6 DEF Waits
<1> QED BY <1>1, <1>7, ControlParts

\* A request goes from one state to another, with the command that fits.
LEMMA ClientChange ==
    ASSUME Waits, NEW u \in Uploads, NEW st \in {"new", "waiting", "accepted", "error"},
           NEW c \in Cmd, CmdInv(c),
           IF st = "waiting" THEN c.op = "push" /\ c.item.upload = u ELSE c.op = "none",
           client' = [client EXCEPT ![u] = st], cmd' = [cmd EXCEPT ![u] = c], tick' = tick
    PROVE  Waits'
<1>1. u \in Procs /\ \A w \in Ticks : u # w
  BY UploadsAssumption DEF Procs
<1>2. client' \in [Uploads -> {"new", "waiting", "accepted", "error"}]
      /\ cmd' \in [Procs -> Cmd]
  BY <1>1 DEF Waits
<1>3. \A p \in Procs : cmd'[p] = IF p = u THEN c ELSE cmd[p]
  BY <1>1 DEF Waits
<1>4. \A x \in Uploads : client'[x] = IF x = u THEN st ELSE client[x]
  BY DEF Waits
<1>5. \A p \in Procs : CmdInv(cmd'[p])
  BY <1>3 DEF Waits
<1>6. \A w \in Ticks : TickInv(tick'[w], cmd'[w])
  BY <1>1, <1>3 DEF Waits, Procs
<1>7. \A x \in Uploads : ClientInv(x, cmd[x])'
  BY <1>3, <1>4 DEF Waits, Procs, ClientInv
<1> QED BY <1>2, <1>5, <1>6, <1>7 DEF Waits

LEMMA ReceiveControl ==
    ASSUME ControlInv, NEW u \in Uploads, Receive(u)
    PROVE  ControlInv'
<1>1. Waits /\ Data
  BY ControlParts
<1> DEFINE it == [upload |-> u, retries |-> 0]
           c  == [op |-> "push", tenant |-> TenantOf[u], item |-> it, st |-> "sent"]
<1>2. it \in Retryable /\ it \in Item
  BY LimitsAssumption DEF Retryable, Item
<1>3. c \in Cmd /\ CmdInv(c)
  BY <1>2, UploadsAssumption DEF Cmd, CmdInv
<1>4. cmd' = [cmd EXCEPT ![u] = c]
  BY DEF Receive, Send
<1>5. Waits'
  BY <1>1, <1>3, <1>4, ClientChange DEF Receive
<1>6. Data'
  BY <1>1 DEF Data, Receive
<1> QED BY <1>5, <1>6, ControlPartsNext

LEMMA RespondControl ==
    ASSUME ControlInv, NEW u \in Uploads, Respond(u)
    PROVE  ControlInv'
<1>1. Waits /\ Data
  BY ControlParts
<1>2. Waits'
  BY <1>1, NoCmdTyped, ClientChange DEF Respond
<1>3. Data'
  BY <1>1 DEF Data, Respond
<1> QED BY <1>2, <1>3, ControlPartsNext

\* What Redis may answer.
LEMMA OutcomeTyped ==
    ASSUME NEW p \in Procs
    PROVE  Outcomes(p) \subseteq {"ok", "error", "again"}
BY DEF Outcomes

\* An answer to an outstanding command, which may carry an item.
LEMMA AnswerWaits ==
    ASSUME Waits, NEW p \in Procs, cmd[p].st \in {"sent", "again"},
           NEW st \in {"ok", "error", "again"}, cmd' = [cmd EXCEPT ![p].st = st],
           UNCHANGED <<tick, client>>
    PROVE  Waits'
<1> DEFINE c == [cmd[p] EXCEPT !.st = st]
<1>1. PICK op \in {"none", "push", "pop", "bury"}, t \in Tenants, it \in Item \cup {NoItem},
           s \in {"none", "sent", "again", "ok", "error"} :
         cmd[p] = [op |-> op, tenant |-> t, item |-> it, st |-> s]
  BY DEF Waits, Cmd
<1>2. c = [op |-> op, tenant |-> t, item |-> it, st |-> st]
  BY <1>1
<1>3. CmdInv(cmd[p]) /\ cmd[p].op # "none"
  BY DEF Waits, CmdInv
<1>4. c \in Cmd /\ c.op = cmd[p].op /\ c.item = cmd[p].item /\ c.st = st
  BY <1>1, <1>2 DEF Cmd
<1>5. CmdInv(c)
  BY <1>3, <1>4 DEF CmdInv
<1>6. cmd' = [cmd EXCEPT ![p] = c]
  OBVIOUS
<1> HIDE DEF c
<1> QED BY <1>3, <1>4, <1>5, <1>6, ReplyChange

LEMMA RedisPushControl ==
    ASSUME ControlInv, NEW p \in Procs, cmd[p].st \in {"sent", "again"}, RedisPush(p),
           UNCHANGED <<audited, staged, docs, client, tick>>
    PROVE  ControlInv'
<1>1. Waits /\ Data
  BY ControlParts
<1>2. Waits'
  BY <1>1, OutcomeTyped, AnswerWaits DEF RedisPush
<1>3. cmd[p].item \in Retryable /\ cmd[p].item \in Item
  BY <1>1, ItemFacts DEF Waits, RedisPush, CmdInv
<1>4. ASSUME NEW t \in Tenants
      PROVE  queue'[t] \in Seq(Item) /\ queue'[t] \in Seq(Retryable)
  <2>1. queue[t] \in Seq(Item) /\ queue[t] \in Seq(Retryable)
    BY <1>1 DEF Data
  <2>2. queue'[t] = queue[t] \/ queue'[t] = Append(queue[t], cmd[p].item)
    BY <1>1 DEF Data, RedisPush
  <2> QED BY <1>3, <2>1, <2>2
<1>5. queue' \in [Tenants -> Seq(Item)]
  <2>1. DOMAIN queue' = Tenants /\ queue' = [t \in Tenants |-> queue'[t]]
    BY <1>1 DEF Data, RedisPush
  <2> QED BY <1>4, <2>1
<1>6. Data'
  BY <1>1, <1>4, <1>5 DEF Data, RedisPush
<1> QED BY <1>2, <1>6, ControlPartsNext

LEMMA RedisBuryControl ==
    ASSUME ControlInv, NEW p \in Procs, cmd[p].st \in {"sent", "again"}, RedisBury(p),
           UNCHANGED <<audited, staged, docs, client, tick>>
    PROVE  ControlInv'
<1>1. Waits /\ Data
  BY ControlParts
<1>2. Waits'
  BY <1>1, OutcomeTyped, AnswerWaits DEF RedisBury
<1>3. cmd[p].item.upload \in Uploads
  BY <1>1 DEF Waits, RedisBury, CmdInv, Item
<1>4. Data'
  BY <1>1, <1>3 DEF Data, RedisBury
<1> QED BY <1>2, <1>4, ControlPartsNext

LEMMA RedisPopControl ==
    ASSUME ControlInv, NEW p \in Procs, cmd[p].st \in {"sent", "again"}, RedisPop(p),
           UNCHANGED <<audited, staged, docs, client, tick>>
    PROVE  ControlInv'
<1>1. Waits /\ Data
  BY ControlParts
<1>2. PICK op \in {"none", "push", "pop", "bury"}, t \in Tenants, it \in Item \cup {NoItem},
           s \in {"none", "sent", "again", "ok", "error"} :
         cmd[p] = [op |-> op, tenant |-> t, item |-> it, st |-> s]
  BY <1>1 DEF Waits, Cmd
<1> DEFINE q == queue[t]
           c == [op |-> "pop", tenant |-> t, item |-> Head(q), st |-> "ok"]
<1>3. /\ q \in Seq(Retryable) /\ q \in Seq(Item) /\ q # <<>> /\ op = "pop"
      /\ queue' = [queue EXCEPT ![t] = Tail(q)]
  BY <1>1, <1>2 DEF Data, RedisPop
<1>4. /\ Head(q) \in Retryable /\ Head(q) \in Item /\ Head(q).upload \in Uploads
      /\ Tail(q) \in Seq(Retryable) /\ Tail(q) \in Seq(Item)
  <2>1. Head(q) \in Retryable /\ Tail(q) \in Seq(Retryable) /\ Tail(q) \in Seq(Item)
    BY <1>3, TailHolds
  <2> QED BY <2>1, ItemFacts DEF Retryable
<1>5. Waits'
  <2>1. CASE cmd' = [cmd EXCEPT ![p] = c]
    <3>1. c \in Cmd /\ CmdInv(c) /\ c.op = cmd[p].op /\ c.op = "pop" /\ c.st = "ok"
      BY <1>2, <1>3, <1>4 DEF Cmd, CmdInv
    <3> HIDE DEF c
    <3> QED BY <1>1, <2>1, <3>1, ReplyChange
  <2>2. CASE \E st \in Outcomes(p) \ {"ok"} : cmd' = [cmd EXCEPT ![p].st = st]
    BY <1>1, <2>2, OutcomeTyped, AnswerWaits
  <2> QED BY <1>2, <2>1, <2>2 DEF RedisPop
<1>6. Data'
  <2>1. queue' \in [Tenants -> Seq(Item)] /\ \A x \in Tenants : queue'[x] \in Seq(Retryable)
    BY <1>1, <1>3, <1>4 DEF Data
  <2>2. dropped' \subseteq Uploads
    BY <1>1, <1>2, <1>4 DEF Data, RedisPop
  <2> QED BY <1>1, <2>1, <2>2 DEF Data, RedisPop
<1> QED BY <1>5, <1>6, ControlPartsNext

LEMMA RedisPopEmptyControl ==
    ASSUME ControlInv, NEW p \in Procs, cmd[p].st \in {"sent", "again"}, RedisPopEmpty(p),
           UNCHANGED <<audited, staged, docs, client, tick>>
    PROVE  ControlInv'
<1>1. Waits /\ Data
  BY ControlParts
<1>2. Waits'
  BY <1>1, OutcomeTyped, AnswerWaits DEF RedisPopEmpty
<1>3. Data'
  BY <1>1 DEF Data, RedisPopEmpty
<1> QED BY <1>2, <1>3, ControlPartsNext

LEMMA RedisRefuseControl ==
    ASSUME ControlInv, NEW p \in Procs, RedisRefuse(p)
    PROVE  ControlInv'
<1>1. Waits /\ Data
  BY ControlParts
<1>2. Waits'
  BY <1>1, AnswerWaits DEF RedisRefuse
<1>3. cmd[p].op \in {"push", "bury"} => cmd[p].item.upload \in Uploads
  <2>1. CmdInv(cmd[p])
    BY <1>1 DEF Waits
  <2>2. cmd[p].op \in {"push", "bury"} => cmd[p].item \in Item
    BY <2>1, ItemFacts DEF CmdInv
  <2> QED BY <2>2 DEF Item
<1>4. Data'
  BY <1>1, <1>3 DEF Data, RedisRefuse
<1> QED BY <1>2, <1>4, ControlPartsNext

LEMMA RedisStepControl ==
    ASSUME ControlInv, NEW p \in Procs, RedisStep(p)
    PROVE  ControlInv'
<1>1. CASE RedisExecute(p)
  BY <1>1, RedisPushControl, RedisBuryControl, RedisPopControl, RedisPopEmptyControl
     DEF RedisExecute
<1>2. CASE RedisRefuse(p)
  BY <1>2, RedisRefuseControl
<1> QED BY <1>1, <1>2 DEF RedisStep

LEMMA TimerFiresControl ==
    ASSUME ControlInv, NEW w \in Ticks, TimerFires(w)
    PROVE  ControlInv'
<1>1. Waits /\ Data
  BY ControlParts
<1>2. 1 \in 1..Len(Served)
  BY ServedAssumption, EmptySeq
<1>3. Waits'
  BY <1>1, <1>2, PopWaits DEF TimerFires
<1>4. Data'
  BY <1>1 DEF Data, TimerFires
<1> QED BY <1>3, <1>4, ControlPartsNext

\* The steps of a tick that move on without touching a table or a list.
LEMMA MovesOnControl ==
    ASSUME ControlInv, NEW w \in Ticks,
           PoppedNothing(w) \/ DedupChecked(w) \/ Requeued(w) \/ DrainThrows(w)
    PROVE  ControlInv'
<1>1. Waits /\ Data
  BY ControlParts
<1>2. tick[w] \in Tick /\ (tick[w].pc # "off" => tick[w].at \in 1..Len(Served))
  BY <1>1 DEF Waits, TickInv
<1>3. tick[w].item \in Item \cup {NoItem}
  BY <1>2 DEF Tick
<1>4. CASE PoppedNothing(w) \/ DrainThrows(w)
  <2>1. Waits'
    BY <1>1, <1>4, NextTenantWaits DEF PoppedNothing, DrainThrows
  <2>2. Data'
    BY <1>1, <1>4 DEF Data, PoppedNothing, DrainThrows
  <2> QED BY <2>1, <2>2, ControlPartsNext
<1>5. CASE DedupChecked(w) \/ Requeued(w)
  <2>1. Waits'
    BY <1>1, <1>2, <1>3, <1>5, PopWaits DEF DedupChecked, Requeued
  <2>2. Data'
    BY <1>1, <1>5 DEF Data, DedupChecked, Requeued
  <2> QED BY <2>1, <2>2, ControlPartsNext
<1> QED BY <1>4, <1>5

LEMMA BuriedControl ==
    ASSUME ControlInv, NEW w \in Ticks, Buried(w)
    PROVE  ControlInv'
<1>1. Waits /\ Data
  BY ControlParts
<1>2. tick[w].at \in 1..Len(Served) /\ tick[w].pc = "burying"
  BY <1>1 DEF Waits, TickInv, Buried
<1>3. tick[w].item \in Item
  BY <1>1, <1>2 DEF Waits, TickInv, CmdInv, Procs
<1>4. Waits'
  <2>1. CASE Pop(w, tick[w].at, NoItem)
    BY <1>1, <1>2, <2>1, PopWaits DEF Buried
  <2>2. CASE NextTenant(w)
    BY <1>1, <1>2, <2>2, NextTenantWaits DEF Buried
  <2> QED BY <2>1, <2>2 DEF Buried
<1>5. audited' \in [Uploads -> Nat]
  <2> DEFINE u == tick[w].item.upload
  <2>1. u \in Uploads /\ audited \in [Uploads -> Nat]
    BY <1>1, <1>3 DEF Item, Data
  <2>2. audited[u] + 1 \in Nat
    BY <2>1
  <2>3. audited' = audited \/ audited' = [audited EXCEPT ![u] = audited[u] + 1]
    BY DEF Buried
  <2> HIDE DEF u
  <2> QED BY <2>1, <2>2, <2>3
<1>6. Data'
  BY <1>1, <1>5 DEF Data, Buried
<1> QED BY <1>4, <1>6, ControlPartsNext

LEMMA PoppedControl ==
    ASSUME ControlInv, NEW w \in Ticks, Popped(w)
    PROVE  ControlInv'
<1>1. Waits /\ Data
  BY ControlParts
<1> DEFINE it == cmd[w].item
           p  == PathOf[it.upload]
<1>2. it \in Retryable
  BY <1>1 DEF Waits, TickInv, CmdInv, Popped, Procs
<1>3. it.upload \in Uploads /\ p \in Paths
  BY <1>2, UploadsAssumption DEF Retryable
<1>4. Replay(w, it) /\ tick[w].pc = "popping" /\ UNCHANGED <<queue, dead, client, dropped>>
  BY DEF Popped
<1>5. Waits'
  <2>1. CASE AfterFailure(w, it)
    BY <1>1, <1>2, <1>4, <2>1, AfterFailureWaits
  <2>2. CASE /\ tick' = [tick EXCEPT ![w] = [pc |-> "checking", at |-> tick[w].at, item |-> NoItem]]
             /\ cmd'  = [cmd EXCEPT ![w] = NoCmd]
    <3> DEFINE k == [pc |-> "checking", at |-> tick[w].at, item |-> NoItem]
    <3>1. tick[w].at \in 1..Len(Served) /\ tick[w].at \in 0..Len(Served)
      BY <1>1, <1>4, ServedTenant DEF Waits, TickInv
    <3>2. k \in Tick
      BY <3>1 DEF Tick
    <3>3. TickInv(k, NoCmd)
      BY <3>1, NoCmdTyped DEF TickInv
    <3>4. NoCmd \in Cmd /\ CmdInv(NoCmd)
      BY NoCmdTyped
    <3> HIDE DEF k
    <3> QED BY <1>1, <1>4, <2>2, <3>2, <3>3, <3>4, TickChange DEF k
  <2> QED BY <1>4, <2>1, <2>2 DEF Replay
<1>6. staged' \in [Paths -> Uploads \cup {NoUpload}]
  BY <1>1, <1>4 DEF Data, Replay, Moved
<1>7. docs' \in [Uploads -> Seq(Uploads)]
  <2>1. CASE docs' = docs
    BY <1>1, <2>1 DEF Data
  <2>2. CASE /\ docs' = [docs EXCEPT ![it.upload] = Append(@, staged[p])]
             /\ staged[p] # NoUpload
    <3>1. staged[p] \in Uploads
      BY <1>1, <1>3, <2>2 DEF Data
    <3>2. docs[it.upload] \in Seq(Uploads)
      BY <1>1, <1>3 DEF Data
    <3>3. Append(docs[it.upload], staged[p]) \in Seq(Uploads)
      BY <3>1, <3>2
    <3> QED BY <1>1, <2>2, <3>3 DEF Data
  <2> QED BY <1>4, <2>1, <2>2 DEF Replay
<1>8. audited' = audited
  BY <1>4 DEF Replay, AfterFailure
<1>9. Data'
  BY <1>1, <1>4, <1>6, <1>7, <1>8 DEF Data
<1> QED BY <1>5, <1>9, ControlPartsNext

\* What a tick has in hand is an upload.
LEMMA InHandTyped ==
    ASSUME Waits, NEW w \in Ticks
    PROVE  InHand(w) \subseteq Uploads
<1>1. CmdInv(cmd[w]) /\ TickInv(tick[w], cmd[w])
  BY DEF Waits, Procs
<1>2. CASE tick[w].pc = "popping" /\ cmd[w].st = "ok" /\ cmd[w].item # NoItem
  <2>1. cmd[w].item \in Retryable
    BY <1>1, <1>2 DEF CmdInv, TickInv
  <2> QED BY <2>1 DEF InHand, Retryable
<1>3. CASE tick[w].pc \in {"requeueing", "burying"} /\ cmd[w].st = "sent"
  <2>1. cmd[w].item \in Item
    BY <1>1, <1>3, ItemFacts DEF CmdInv, TickInv
  <2> QED BY <2>1 DEF InHand, Item
<1> QED BY <1>2, <1>3 DEF InHand

LEMMA CrashControl ==
    ASSUME ControlInv, Crash
    PROVE  ControlInv'
<1>1. Waits /\ Data
  BY ControlParts
<1>2. Waits'
  <2>1. client' \in [Uploads -> {"new", "waiting", "accepted", "error"}]
        /\ \A u \in Uploads : client'[u] # "waiting"
    BY <1>1 DEF Waits, Crash
  <2>2. tick' \in [Ticks -> Tick] /\ cmd' \in [Procs -> Cmd]
    BY NoCmdTyped, OffTyped DEF Crash, Procs
  <2>3. /\ \A w \in Ticks : tick'[w] = Off /\ cmd'[w] = NoCmd
        /\ \A p \in Procs : cmd'[p] = NoCmd
    BY DEF Crash, Procs
  <2>4. TickInv(Off, NoCmd)
    BY NoCmdTyped, OffTyped DEF TickInv
  <2>5. \A w \in Ticks : TickInv(tick'[w], cmd'[w])
    BY <2>3, <2>4
  <2>6. \A u \in Uploads : ClientInv(u, cmd[u])'
    BY <2>1, <2>3, NoCmdTyped DEF ClientInv, Procs
  <2>7. \A p \in Procs : CmdInv(cmd'[p])
    BY <2>3, NoCmdTyped
  <2> QED BY <2>1, <2>2, <2>5, <2>6, <2>7 DEF Waits
<1>3. queue' \in [Tenants -> Seq(Item)] /\ \A t \in Tenants : queue'[t] \in Seq(Retryable)
  <2>1. <<>> \in Seq(Item) /\ <<>> \in Seq(Retryable)
    OBVIOUS
  <2>2. queue' = queue \/ queue' = [t \in Tenants |-> <<>>]
    BY DEF Crash
  <2> QED BY <1>1, <2>1, <2>2 DEF Data
<1>4. dead' \in [Uploads -> Nat]
  BY <1>1 DEF Data, Crash
<1>5. staged' \in [Paths -> Uploads \cup {NoUpload}]
  BY <1>1 DEF Data, Crash
<1>6. dropped' \subseteq Uploads
  BY <1>1 DEF Data, Crash
<1>7. Data'
  BY <1>1, <1>3, <1>4, <1>5, <1>6 DEF Data, Crash
<1> QED BY <1>2, <1>7, ControlPartsNext

LEMMA NextControl ==
    ASSUME ControlInv, [Next]_vars
    PROVE  ControlInv'
<1>1. CASE Next
  <2>1. ASSUME NEW u \in Uploads, Receive(u) \/ Respond(u)
        PROVE  ControlInv'
    BY <2>1, ReceiveControl, RespondControl
  <2>2. ASSUME NEW w \in Ticks, TimerFires(w) \/ TickStep(w)
        PROVE  ControlInv'
    BY <2>2, TimerFiresControl, PoppedControl, MovesOnControl, BuriedControl DEF TickStep
  <2>3. ASSUME NEW p \in Procs, RedisStep(p)
        PROVE  ControlInv'
    BY <2>3, RedisStepControl
  <2>4. CASE Crash
    BY <2>4, CrashControl
  <2> QED BY <1>1, <2>1, <2>2, <2>3, <2>4 DEF Next, Procs
<1>2. CASE UNCHANGED vars
  <2>1. (Waits /\ Data)'
    BY <1>2, ControlParts DEF vars, Waits, Data, ClientInv
  <2> QED BY <2>1, ControlPartsNext
<1> QED BY <1>1, <1>2

\* Every variable keeps its type: a retry count stays below MAX_RETRIES in
\* the lists, whatever fails and however ticks overlap.
THEOREM OfflineTypeCorrect == Spec => []OfflineTypeOK
<1>1. ControlInv /\ [Next]_vars => ControlInv'
  BY NextControl
<1>2. ControlInv => OfflineTypeOK
  BY DEF ControlInv
<1> QED BY InitControl, <1>1, <1>2, PTL DEF Spec

-----------------------------------------------------------------------------
(* KeptInv is inductive: where an upload is after each action.             *)

Placed == \A u \in Uploads : Pushed(u) => Kept(u)

LEMMA InHandSame ==
    ASSUME NEW w, tick'[w] = tick[w], cmd'[w] = cmd[w]
    PROVE  InHand(w)' = InHand(w)
BY DEF InHand

\* A step that leaves the requests, the lists and the tables alone, of a tick
\* with nothing in hand.
LEMMA EmptyHanded ==
    ASSUME ControlInv, Placed, NEW w \in Ticks, InHand(w) = {},
           UNCHANGED <<queue, dead, docs, client, dropped>>,
           \A v \in Ticks \ {w} : tick'[v] = tick[v] /\ cmd'[v] = cmd[v],
           \A u \in Uploads : cmd'[u] = cmd[u]
    PROVE  Placed'
<1>1. \A v \in Ticks \ {w} : InHand(v)' = InHand(v)
  BY InHandSame
<1>2. \A u \in Uploads : Listed(u)' = Listed(u) /\ Settled(u)' = Settled(u)
  BY DEF Listed, Settled
<1>3. \A u \in Uploads : Pushed(u)' = Pushed(u)
  BY DEF Pushed
<1>4. ASSUME NEW u \in Uploads, Kept(u)
      PROVE  Kept(u)'
  BY <1>1, <1>2, <1>4 DEF Kept
<1> QED BY <1>3, <1>4 DEF Placed

\* Appending to a list keeps what it lists and adds the item's upload.
LEMMA ListedAppend ==
    ASSUME Data, NEW t \in Tenants, NEW it \in Item,
           queue' = [queue EXCEPT ![t] = Append(@, it)]
    PROVE  /\ Listed(it.upload)'
           /\ \A u \in Uploads : Listed(u) => Listed(u)'
<1>1. queue[t] \in Seq(Item) /\ queue'[t] = Append(queue[t], it)
      /\ \A x \in Tenants \ {t} : queue'[x] = queue[x]
  BY DEF Data
<1>2. \A y \in Item : (y = it \/ \E n \in DOMAIN queue[t] : queue[t][n] = y)
                       => \E n \in DOMAIN queue'[t] : queue'[t][n] = y
  <2>1. \A y \in Item :
          (\E n \in DOMAIN Append(queue[t], it) : Append(queue[t], it)[n] = y)
          <=> (y = it \/ \E n \in DOMAIN queue[t] : queue[t][n] = y)
    BY <1>1, AppendHolds
  <2> QED BY <1>1, <2>1
<1>3. Listed(it.upload)'
  BY <1>2 DEF Listed
<1>4. ASSUME NEW u \in Uploads, Listed(u)
      PROVE  Listed(u)'
  <2>0. PICK x \in Tenants : \E n \in DOMAIN queue[x] : queue[x][n].upload = u
    BY <1>4 DEF Listed
  <2>1. PICK n \in DOMAIN queue[x] : queue[x][n].upload = u
    BY <2>0
  <2>2. CASE x # t
    BY <1>1, <2>1, <2>2 DEF Listed
  <2>3. CASE x = t
    <3>1. queue[t][n] \in Item
      BY <1>1, <2>1, <2>3
    <3>2. PICK m \in DOMAIN queue'[t] : queue'[t][m] = queue[t][n]
      BY <1>2, <2>1, <2>3, <3>1
    <3> QED BY <2>1, <2>3, <3>2 DEF Listed
  <2> QED BY <2>2, <2>3
<1> QED BY <1>3, <1>4

\* Popping a list leaves everything but its head listed.
LEMMA ListedTail ==
    ASSUME Data, NEW t \in Tenants, queue[t] # <<>>,
           queue' = [queue EXCEPT ![t] = Tail(queue[t])]
    PROVE  \A u \in Uploads : Listed(u) => u = Head(queue[t]).upload \/ Listed(u)'
<1>1. queue[t] \in Seq(Item) /\ queue'[t] = Tail(queue[t])
      /\ \A x \in Tenants \ {t} : queue'[x] = queue[x]
  BY DEF Data
<1>2. \A y \in Item : (\E n \in DOMAIN queue[t] : queue[t][n] = y)
        => y = Head(queue[t]) \/ \E n \in DOMAIN queue'[t] : queue'[t][n] = y
  BY <1>1, TailHolds
<1> SUFFICES ASSUME NEW u \in Uploads, Listed(u), u # Head(queue[t]).upload
             PROVE  Listed(u)'
  OBVIOUS
<1>0. PICK x \in Tenants : \E n \in DOMAIN queue[x] : queue[x][n].upload = u
  BY DEF Listed
<1>3. PICK n \in DOMAIN queue[x] : queue[x][n].upload = u
  BY <1>0
<1>4. CASE x # t
  BY <1>1, <1>3, <1>4 DEF Listed
<1>5. CASE x = t
  <2>1. queue[t][n] \in Item
    BY <1>1, <1>3, <1>5
  <2>2. PICK m \in DOMAIN queue'[t] : queue'[t][m] = queue[t][n]
    BY <1>2, <1>3, <1>5, <2>1
  <2> QED BY <1>3, <1>5, <2>2 DEF Listed
<1> QED BY <1>4, <1>5

LEMMA InitPlaced == Init => Placed
BY DEF Init, Placed, Pushed

LEMMA RequestPlaced ==
    ASSUME ControlInv, Placed, NEW u \in Uploads, Receive(u) \/ Respond(u)
    PROVE  Placed'
<1>1. Waits /\ Data /\ \A w \in Ticks : w # u
  BY ControlParts, UploadsAssumption
<1>2. UNCHANGED <<queue, dead, docs, dropped, tick>>
  BY DEF Receive, Respond
<1>3. \A w \in Ticks : InHand(w)' = InHand(w)
  <2>1. \A w \in Ticks : cmd'[w] = cmd[w]
    BY <1>1 DEF Waits, Procs, Receive, Respond, Send
  <2> QED BY <1>2, <2>1, InHandSame
<1>4. \A x \in Uploads : Kept(x) => Kept(x)'
  BY <1>2, <1>3 DEF Kept, Settled, Listed
<1>5. ASSUME NEW x \in Uploads, Pushed(x)'
      PROVE  Pushed(x)
  <2>1. CASE x # u
    <3>1. client'[x] = client[x] /\ cmd'[x] = cmd[x]
      BY <1>1, <2>1 DEF Waits, Procs, Receive, Respond, Send
    <3> QED BY <1>5, <3>1 DEF Pushed
  <2>2. CASE x = u /\ Receive(u)
    <3>1. client'[u] = "waiting" /\ cmd'[u].st = "sent"
      BY <1>1, <2>2 DEF Waits, Procs, Receive, Send
    <3> QED BY <1>5, <2>2, <3>1 DEF Pushed
  <2>3. CASE x = u /\ Respond(u)
    <3>1. client'[u] = IF cmd[u].st = "ok" THEN "accepted" ELSE "error"
      BY <1>1, <2>3 DEF Waits, Respond
    <3> QED BY <1>5, <2>3, <3>1 DEF Pushed, Respond
  <2> QED BY <2>1, <2>2, <2>3
<1> QED BY <1>4, <1>5 DEF Placed

\* Who waits for a command, by its kind.
LEMMA WhoWaits ==
    ASSUME Waits, NEW p \in Procs
    PROVE  /\ cmd[p].op = "pop" => p \in Ticks /\ tick[p].pc = "popping"
           /\ cmd[p].op = "bury" => p \in Ticks /\ tick[p].pc = "burying"
           /\ p \in Ticks /\ cmd[p].op = "push" => tick[p].pc = "requeueing"
           /\ p \in Uploads /\ cmd[p].op = "push" => cmd[p].item.upload = p
<1>1. p \in Uploads => cmd[p].op \in {"push", "none"}
                        /\ (cmd[p].op = "push" => cmd[p].item.upload = p)
  BY DEF Waits, ClientInv
<1>2. p \in Ticks => TickInv(tick[p], cmd[p]) /\ tick[p] \in Tick
  BY DEF Waits
<1>3. p \in Ticks => tick[p].pc \in {"off", "popping", "checking", "requeueing", "burying"}
  BY <1>2 DEF Tick
<1> QED BY <1>1, <1>2, <1>3 DEF Procs, TickInv

\* An answer concerns its own command only.
LEMMA AnswerFrame ==
    ASSUME Waits, NEW p \in Procs, NEW st, cmd' = [cmd EXCEPT ![p].st = st],
           UNCHANGED <<tick, client>>
    PROVE  /\ cmd'[p].st = st
           /\ \A q \in Procs \ {p} : cmd'[q] = cmd[q]
           /\ \A w \in Ticks \ {p} : InHand(w)' = InHand(w)
           /\ \A u \in Uploads \ {p} : Pushed(u)' = Pushed(u)
<1>1. \A q \in Procs \ {p} : cmd'[q] = cmd[q]
  BY DEF Waits
<1>2. cmd[p] \in Cmd /\ cmd'[p] = [cmd[p] EXCEPT !.st = st]
  BY DEF Waits
<1>3. cmd'[p].st = st
  BY <1>2 DEF Cmd
<1>4. \A w \in Ticks \ {p} : InHand(w)' = InHand(w)
  BY <1>1, InHandSame DEF Procs
<1>5. \A u \in Uploads \ {p} : Pushed(u)' = Pushed(u)
  BY <1>1 DEF Pushed, Procs
<1> QED BY <1>1, <1>3, <1>4, <1>5

LEMMA RedisPushPlaced ==
    ASSUME ControlInv, Placed, NEW p \in Procs, cmd[p].st \in {"sent", "again"}, RedisPush(p),
           UNCHANGED <<audited, staged, docs, client, tick>>
    PROVE  Placed'
<1>1. Waits /\ Data /\ cmd[p].op = "push"
  BY ControlParts DEF RedisPush
<1>0. cmd[p].item \in Item
  BY <1>1, ItemFacts DEF Waits, CmdInv
<1>2. PICK it \in Item : it = cmd[p].item
  BY <1>0
<1>3. Listed(it.upload)' /\ \A u \in Uploads : Listed(u) => Listed(u)'
  <2>1. queue' = [queue EXCEPT ![cmd[p].tenant] = Append(@, it)]
    BY <1>2 DEF RedisPush
  <2>2. cmd[p].tenant \in Tenants
    BY <1>1 DEF Waits, Cmd
  <2> QED BY <1>1, <2>1, <2>2, ListedAppend
<1>4. PICK st \in {"ok", "error", "again"} : cmd' = [cmd EXCEPT ![p].st = st]
  BY OutcomeTyped DEF RedisPush
<1>5. /\ \A w \in Ticks \ {p} : InHand(w)' = InHand(w)
      /\ \A u \in Uploads \ {p} : Pushed(u)' = Pushed(u)
  BY <1>1, <1>4, AnswerFrame
<1>6. p \in Ticks => InHand(p) \subseteq {it.upload}
  BY <1>2 DEF InHand
<1>7. ASSUME NEW u \in Uploads, Kept(u)
      PROVE  Kept(u)'
  <2>1. Settled(u)' = Settled(u) /\ dropped' = dropped
    BY DEF Settled, RedisPush
  <2>2. CASE u = it.upload
    BY <1>3, <2>2 DEF Kept
  <2>3. CASE u # it.upload
    BY <1>3, <1>5, <1>6, <1>7, <2>1, <2>3 DEF Kept
  <2> QED BY <2>2, <2>3
<1>8. ASSUME NEW u \in Uploads, Pushed(u)'
      PROVE  Pushed(u) \/ Kept(u)'
  <2>1. CASE u = p
    <3>1. it.upload = u
      BY <1>1, <1>2, <2>1, WhoWaits
    <3> QED BY <1>3, <3>1 DEF Kept
  <2> QED BY <1>5, <1>8, <2>1
<1> QED BY <1>7, <1>8 DEF Placed

LEMMA RedisBuryPlaced ==
    ASSUME ControlInv, Placed, NEW p \in Procs, cmd[p].st \in {"sent", "again"}, RedisBury(p),
           UNCHANGED <<audited, staged, docs, client, tick>>
    PROVE  Placed'
<1>1. Waits /\ Data /\ cmd[p].op = "bury" /\ p \in Ticks /\ UNCHANGED <<queue, dropped>>
  BY ControlParts, WhoWaits DEF RedisBury
<1>0. cmd[p].item.upload \in Uploads
  BY <1>1 DEF Waits, CmdInv, Item
<1>2. PICK x \in Uploads : x = cmd[p].item.upload
  BY <1>0
<1>3. Settled(x)' /\ \A u \in Uploads : Settled(u) => Settled(u)'
  <2>1. \A u \in Uploads : dead[u] \in Nat
    BY <1>1 DEF Data
  <2>2. dead'[x] = dead[x] + 1 /\ \A u \in Uploads \ {x} : dead'[u] = dead[u]
    BY <1>1, <1>2 DEF Data, RedisBury
  <2>3. dead'[x] > 0
    BY <1>2, <2>1, <2>2
  <2> QED BY <1>2, <2>2, <2>3 DEF Settled
<1>4. PICK st \in {"ok", "error", "again"} : cmd' = [cmd EXCEPT ![p].st = st]
  BY OutcomeTyped DEF RedisBury
<1>5. /\ \A w \in Ticks \ {p} : InHand(w)' = InHand(w)
      /\ \A u \in Uploads : Pushed(u)' = Pushed(u)
  BY <1>1, <1>4, AnswerFrame, UploadsAssumption
<1>6. InHand(p) \subseteq {x}
  BY <1>2 DEF InHand
<1>7. ASSUME NEW u \in Uploads, Kept(u)
      PROVE  Kept(u)'
  <2>1. Listed(u)' = Listed(u) /\ dropped' = dropped
    BY <1>1 DEF Listed
  <2>2. CASE u = x
    BY <1>3, <2>2 DEF Kept
  <2>3. CASE u # x
    BY <1>3, <1>5, <1>6, <1>7, <2>1, <2>3 DEF Kept
  <2> QED BY <2>2, <2>3
<1> QED BY <1>5, <1>7 DEF Placed

LEMMA RedisPopPlaced ==
    ASSUME ControlInv, Placed, NEW p \in Procs, cmd[p].st \in {"sent", "again"}, RedisPop(p),
           UNCHANGED <<audited, staged, docs, client, tick>>
    PROVE  Placed'
<1>1. Waits /\ Data /\ cmd[p].op = "pop" /\ p \in Ticks /\ tick[p].pc = "popping"
      /\ UNCHANGED <<docs, dead, tick, client>>
  BY ControlParts, WhoWaits DEF RedisPop
<1>2. PICK t \in Tenants : t = cmd[p].tenant
  BY <1>1 DEF Waits, Cmd
<1> DEFINE h == Head(queue[t])
           c == [op |-> "pop", tenant |-> t, item |-> h, st |-> "ok"]
<1>3. queue[t] # <<>> /\ queue' = [queue EXCEPT ![t] = Tail(queue[t])]
  BY <1>2 DEF RedisPop
<1>4. \A u \in Uploads : Listed(u) => u = h.upload \/ Listed(u)'
  BY <1>1, <1>3, ListedTail
<1>5. h \in Item /\ h # NoItem
  <2>1. h \in Item
    BY <1>1, <1>3, TailHolds DEF Data
  <2> QED BY <2>1, ItemFacts
<1>6. InHand(p) = {}
  BY <1>1 DEF InHand
<1>7. \A u \in Uploads : Settled(u)' = Settled(u)
  BY <1>1 DEF Settled
<1>8. CASE cmd' = [cmd EXCEPT ![p] = c] /\ dropped' = dropped
  <2>1. cmd'[p] = c /\ \A q \in Procs \ {p} : cmd'[q] = cmd[q]
    BY <1>1, <1>8 DEF Waits
  <2>2. InHand(p)' = {h.upload}
    BY <1>1, <1>5, <2>1 DEF InHand
  <2>3. \A w \in Ticks \ {p} : InHand(w)' = InHand(w)
    BY <1>1, <2>1, InHandSame DEF Procs
  <2>4. \A u \in Uploads : Pushed(u)' = Pushed(u)
    BY <1>1, <2>1, UploadsAssumption DEF Pushed, Procs
  <2>5. \A u \in Uploads : Kept(u) => Kept(u)'
    BY <1>1, <1>4, <1>6, <1>7, <1>8, <2>2, <2>3 DEF Kept
  <2> QED BY <2>4, <2>5 DEF Placed
<1>9. ASSUME NEW st, cmd' = [cmd EXCEPT ![p].st = st], dropped' = dropped \cup {h.upload}
      PROVE  Placed'
  <2>1. /\ \A w \in Ticks \ {p} : InHand(w)' = InHand(w)
        /\ \A u \in Uploads : Pushed(u)' = Pushed(u)
    BY <1>1, <1>9, AnswerFrame, UploadsAssumption
  <2>2. \A u \in Uploads : Kept(u) => Kept(u)'
    BY <1>1, <1>4, <1>6, <1>7, <1>9, <2>1 DEF Kept
  <2> QED BY <2>1, <2>2 DEF Placed
<1> QED BY <1>2, <1>8, <1>9 DEF RedisPop

LEMMA RedisPopEmptyPlaced ==
    ASSUME ControlInv, Placed, NEW p \in Procs, cmd[p].st \in {"sent", "again"},
           RedisPopEmpty(p), UNCHANGED <<audited, staged, docs, client, tick>>
    PROVE  Placed'
<1>1. Waits /\ Data /\ p \in Ticks /\ tick[p].pc = "popping"
      /\ UNCHANGED <<queue, dead, docs, client, dropped, tick>>
  BY ControlParts, WhoWaits DEF RedisPopEmpty
<1>2. InHand(p) = {}
  BY <1>1 DEF InHand
<1>3. PICK st : cmd' = [cmd EXCEPT ![p].st = st]
  BY DEF RedisPopEmpty
<1>4. \A q \in Procs \ {p} : cmd'[q] = cmd[q]
  BY <1>1, <1>3, AnswerFrame
<1>5. /\ \A v \in Ticks \ {p} : tick'[v] = tick[v] /\ cmd'[v] = cmd[v]
      /\ \A u \in Uploads : cmd'[u] = cmd[u]
  BY <1>1, <1>4, UploadsAssumption DEF Procs
<1> QED BY <1>1, <1>2, <1>5, EmptyHanded

LEMMA RedisRefusePlaced ==
    ASSUME ControlInv, Placed, NEW p \in Procs, RedisRefuse(p)
    PROVE  Placed'
<1>1. Waits /\ Data /\ UNCHANGED <<queue, dead, docs, client, tick>>
  BY ControlParts DEF RedisRefuse
<1>2. cmd' = [cmd EXCEPT ![p].st = "error"] /\ cmd[p].st \in {"sent", "again"}
  BY DEF RedisRefuse
<1>3. /\ cmd'[p].st = "error"
      /\ \A w \in Ticks \ {p} : InHand(w)' = InHand(w)
      /\ \A u \in Uploads \ {p} : Pushed(u)' = Pushed(u)
  BY <1>1, <1>2, AnswerFrame
<1>4. p \in Ticks => InHand(p) \subseteq dropped'
  <2> SUFFICES ASSUME p \in Ticks, InHand(p) # {}
               PROVE  InHand(p) \subseteq dropped'
    OBVIOUS
  <2>1. /\ tick[p].pc \in {"requeueing", "burying"} /\ cmd[p].st = "sent"
        /\ InHand(p) = {cmd[p].item.upload}
    BY <1>2 DEF InHand
  <2>2. cmd[p].op \in {"push", "bury"}
    BY <1>1, <2>1 DEF Waits, TickInv
  <2> QED BY <2>1, <2>2 DEF RedisRefuse
<1>5. dropped \subseteq dropped'
  BY DEF RedisRefuse
<1>6. \A u \in Uploads : Settled(u)' = Settled(u) /\ Listed(u)' = Listed(u)
  BY <1>1 DEF Settled, Listed
<1>7. \A u \in Uploads : Kept(u) => Kept(u)'
  BY <1>3, <1>4, <1>5, <1>6 DEF Kept
<1>8. ASSUME NEW u \in Uploads, Pushed(u)'
      PROVE  Pushed(u)
  <2>1. CASE u = p
    BY <1>1, <1>3, <1>8, <2>1 DEF Pushed
  <2> QED BY <1>3, <1>8, <2>1
<1> QED BY <1>7, <1>8 DEF Placed

LEMMA RedisStepPlaced ==
    ASSUME ControlInv, Placed, NEW p \in Procs, RedisStep(p)
    PROVE  Placed'
<1>1. CASE RedisExecute(p)
  BY <1>1, RedisPushPlaced, RedisBuryPlaced, RedisPopPlaced, RedisPopEmptyPlaced
     DEF RedisExecute
<1>2. CASE RedisRefuse(p)
  BY <1>2, RedisRefusePlaced
<1> QED BY <1>1, <1>2 DEF RedisStep

\* A tick that changes its state and its command changes no other process.
LEMMA TickFrame ==
    ASSUME Waits, NEW w \in Ticks, NEW k, NEW c,
           tick' = [tick EXCEPT ![w] = k], cmd' = [cmd EXCEPT ![w] = c]
    PROVE  /\ tick'[w] = k /\ cmd'[w] = c
           /\ \A v \in Ticks \ {w} : tick'[v] = tick[v] /\ cmd'[v] = cmd[v]
           /\ \A u \in Uploads : cmd'[u] = cmd[u]
BY UploadsAssumption DEF Waits, Procs

\* A tick goes on with nothing in hand.
LEMMA MovesOnPlaced ==
    ASSUME ControlInv, Placed, NEW w \in Ticks, InHand(w) = {},
           UNCHANGED <<queue, dead, docs, client, dropped>>,
           NextTenant(w) \/ \E at, kept : Pop(w, at, kept)
    PROVE  Placed'
<1>1. Waits
  BY ControlParts
<1>2. ASSUME NEW at, NEW kept, Pop(w, at, kept)
      PROVE  Placed'
  <2>1. /\ \A v \in Ticks \ {w} : tick'[v] = tick[v] /\ cmd'[v] = cmd[v]
        /\ \A u \in Uploads : cmd'[u] = cmd[u]
    BY <1>1, <1>2, TickFrame DEF Pop, Send
  <2> QED BY <2>1, EmptyHanded
<1>3. CASE tick' = [tick EXCEPT ![w] = Off] /\ cmd' = [cmd EXCEPT ![w] = NoCmd]
  <2>1. /\ \A v \in Ticks \ {w} : tick'[v] = tick[v] /\ cmd'[v] = cmd[v]
        /\ \A u \in Uploads : cmd'[u] = cmd[u]
    BY <1>1, <1>3, TickFrame
  <2> QED BY <2>1, EmptyHanded
<1> QED BY <1>2, <1>3 DEF NextTenant

LEMMA TickPlaced ==
    ASSUME ControlInv, Placed, NEW w \in Ticks,
           \/ TimerFires(w) \/ PoppedNothing(w) \/ DedupChecked(w)
           \/ Requeued(w) \/ Buried(w) \/ DrainThrows(w)
    PROVE  Placed'
<1>1. InHand(w) = {}
  BY DEF InHand, TimerFires, PoppedNothing, DedupChecked, Requeued, Buried, DrainThrows
<1>2. UNCHANGED <<queue, dead, docs, client, dropped>>
  BY DEF TimerFires, PoppedNothing, DedupChecked, Requeued, Buried, DrainThrows
<1>3. NextTenant(w) \/ \E at, kept : Pop(w, at, kept)
  BY DEF TimerFires, PoppedNothing, DedupChecked, Requeued, Buried, DrainThrows
<1> QED BY <1>1, <1>2, <1>3, MovesOnPlaced

LEMMA PoppedPlaced ==
    ASSUME ControlInv, Placed, NEW w \in Ticks, Popped(w)
    PROVE  Placed'
<1>1. Waits /\ Data /\ UNCHANGED <<queue, dead, client, dropped>>
  BY ControlParts DEF Popped
<1>0. cmd[w].item \in Retryable /\ tick[w].pc = "popping"
  BY <1>1 DEF Waits, TickInv, CmdInv, Popped, Procs
<1>2. PICK it \in Retryable : it = cmd[w].item
  BY <1>0
<1>3. it.upload \in Uploads /\ Replay(w, it) /\ InHand(w) \subseteq {it.upload}
  BY <1>2 DEF Retryable, Popped, InHand
<1>4. \A u \in Uploads : Listed(u)' = Listed(u)
  BY <1>1 DEF Listed
<1>5. \A u \in Uploads : Settled(u) => Settled(u)'
  <2>1. CASE docs' = docs
    BY <1>1, <2>1 DEF Settled
  <2>2. CASE docs' = [docs EXCEPT ![it.upload] = Append(@, staged[PathOf[it.upload]])]
    <3>1. ASSUME NEW u \in Uploads, docs[u] # <<>>
          PROVE  docs'[u] # <<>>
      <4>1. CASE u = it.upload
        <5>1. docs[u] \in Seq(Uploads) /\ staged[PathOf[u]] \in Uploads \cup {NoUpload}
          BY <1>1, UploadsAssumption DEF Data
        <5>2. docs'[u] = Append(docs[u], staged[PathOf[u]])
          BY <1>1, <2>2, <4>1 DEF Data
        <5>3. docs[u] \in Seq(Uploads \cup {NoUpload})
          BY <5>1
        <5> QED BY <5>1, <5>2, <5>3
      <4>2. CASE u # it.upload
        BY <1>1, <2>2, <3>1, <4>2 DEF Data
      <4> QED BY <4>1, <4>2
    <3> QED BY <1>1, <3>1 DEF Settled
  <2> QED BY <1>3, <2>1, <2>2 DEF Replay
<1>6. CASE AfterFailure(w, it)
  <2> DEFINE last == Retried(it).retries >= MaxRetries
             k == [pc |-> IF last THEN "burying" ELSE "requeueing",
                   at |-> tick[w].at, item |-> Retried(it)]
             c == [op |-> IF last THEN "bury" ELSE "push", tenant |-> Served[tick[w].at],
                   item |-> Retried(it), st |-> "sent"]
  <2>0. tick' = [tick EXCEPT ![w] = k] /\ cmd' = [cmd EXCEPT ![w] = c]
    BY <1>6 DEF AfterFailure, Send
  <2>1. k.pc \in {"requeueing", "burying"} /\ c.st = "sent" /\ c.item = Retried(it)
    OBVIOUS
  <2> HIDE DEF k, c
  <2>2. /\ tick'[w] = k /\ cmd'[w] = c
        /\ \A v \in Ticks \ {w} : tick'[v] = tick[v] /\ cmd'[v] = cmd[v]
        /\ \A u \in Uploads : cmd'[u] = cmd[u]
    BY <1>1, <2>0, TickFrame
  <2>3. InHand(w)' = {it.upload}
    BY <2>1, <2>2, RetriedItem DEF InHand
  <2>4. \A v \in Ticks \ {w} : InHand(v)' = InHand(v)
    BY <2>2, InHandSame
  <2>5. \A u \in Uploads : Kept(u) => Kept(u)'
    BY <1>1, <1>3, <1>4, <1>5, <2>3, <2>4 DEF Kept
  <2>6. \A u \in Uploads : Pushed(u)' = Pushed(u)
    BY <1>1, <2>2 DEF Pushed
  <2> QED BY <2>5, <2>6 DEF Placed
<1>7. CASE /\ staged[PathOf[it.upload]] # NoUpload
           /\ docs' = [docs EXCEPT ![it.upload] = Append(@, staged[PathOf[it.upload]])]
           /\ tick' = [tick EXCEPT ![w] = [pc |-> "checking", at |-> tick[w].at, item |-> NoItem]]
           /\ cmd'  = [cmd EXCEPT ![w] = NoCmd]
  <2>1. /\ \A v \in Ticks \ {w} : tick'[v] = tick[v] /\ cmd'[v] = cmd[v]
        /\ \A u \in Uploads : cmd'[u] = cmd[u]
    BY <1>1, <1>7, TickFrame
  <2>2. Settled(it.upload)'
    <3>1. docs[it.upload] \in Seq(Uploads) /\ staged[PathOf[it.upload]] \in Uploads
      BY <1>1, <1>3, <1>7, UploadsAssumption DEF Data
    <3>2. docs'[it.upload] = Append(docs[it.upload], staged[PathOf[it.upload]])
      BY <1>1, <1>3, <1>7 DEF Data
    <3>3. docs'[it.upload] # <<>>
      BY <3>1, <3>2
    <3> QED BY <3>3 DEF Settled
  <2>3. \A v \in Ticks \ {w} : InHand(v)' = InHand(v)
    BY <2>1, InHandSame
  <2>4. ASSUME NEW u \in Uploads, Kept(u)
        PROVE  Kept(u)'
    BY <1>1, <1>3, <1>4, <1>5, <2>2, <2>3, <2>4 DEF Kept
  <2>5. \A u \in Uploads : Pushed(u)' = Pushed(u)
    BY <1>1, <2>1 DEF Pushed
  <2> QED BY <2>4, <2>5 DEF Placed
<1> QED BY <1>3, <1>6, <1>7 DEF Replay

LEMMA CrashPlaced ==
    ASSUME ControlInv, Placed, Crash
    PROVE  Placed'
<1>1. Waits
  BY ControlParts
<1>2. dropped' = dropped \cup {u \in Uploads :
          \/ \E w \in Ticks : u \in InHand(w)
          \/ ~Durable /\ (Listed(u) \/ dead[u] > 0)}
  BY DEF Crash
<1>3. ASSUME NEW u \in Uploads, Listed(u)
      PROVE  Listed(u)' \/ u \in dropped'
  <2>1. CASE Durable
    <3>1. queue' = queue
      BY <2>1 DEF Crash
    <3> QED BY <1>3, <3>1 DEF Listed
  <2>2. CASE ~Durable
    BY <1>2, <1>3, <2>2
  <2> QED BY <2>1, <2>2
<1>4. ASSUME NEW u \in Uploads, Settled(u)
      PROVE  Settled(u)' \/ u \in dropped'
  <2>1. docs' = docs
    BY DEF Crash
  <2>2. CASE Durable
    <3>1. dead' = dead
      BY <2>2 DEF Crash
    <3> QED BY <1>4, <2>1, <3>1 DEF Settled
  <2>3. CASE ~Durable
    BY <1>2, <1>4, <2>1, <2>3 DEF Settled
  <2> QED BY <2>2, <2>3
<1>5. ASSUME NEW u \in Uploads, Kept(u)
      PROVE  Kept(u)'
  <2>1. Settled(u)' \/ Listed(u)' \/ u \in dropped'
    BY <1>2, <1>3, <1>4, <1>5 DEF Kept
  <2> QED BY <2>1 DEF Kept
<1>6. ASSUME NEW u \in Uploads, Pushed(u)'
      PROVE  Pushed(u)
  <2>1. cmd'[u] = NoCmd /\ client'[u] = IF client[u] = "waiting" THEN "error" ELSE client[u]
    BY DEF Crash
  <2> QED BY <1>6, <2>1, NoCmdTyped DEF Pushed
<1> QED BY <1>5, <1>6 DEF Placed

LEMMA NextPlaced ==
    ASSUME ControlInv, Placed, [Next]_vars
    PROVE  Placed'
<1>1. CASE Next
  <2>1. ASSUME NEW u \in Uploads, Receive(u) \/ Respond(u)
        PROVE  Placed'
    BY <2>1, RequestPlaced
  <2>2. ASSUME NEW w \in Ticks, TimerFires(w) \/ TickStep(w)
        PROVE  Placed'
    BY <2>2, TickPlaced, PoppedPlaced DEF TickStep
  <2>3. ASSUME NEW p \in Procs, RedisStep(p)
        PROVE  Placed'
    BY <2>3, RedisStepPlaced
  <2>4. CASE Crash
    BY <2>4, CrashPlaced
  <2> QED BY <1>1, <2>1, <2>2, <2>3, <2>4 DEF Next, Procs
<1>2. CASE UNCHANGED vars
  BY <1>2 DEF vars, Placed, Pushed, Kept, Settled, Listed, InHand
<1> QED BY <1>1, <1>2

\* The inductive invariant.
THEOREM KeptInvariant == Spec => []KeptInv
<1>1. Init => ControlInv /\ Placed
  BY InitControl, InitPlaced
<1>2. ControlInv /\ Placed /\ [Next]_vars => (ControlInv /\ Placed)'
  BY NextControl, NextPlaced
<1>3. ControlInv /\ Placed => KeptInv
  BY DEF Placed, KeptInv
<1> QED BY <1>1, <1>2, <1>3, PTL DEF Spec

\* An upload answered { queued: true } is in a list, in the hands of a tick, a
\* document or a dead letter, unless a crash or a failure of Redis took it,
\* for any number of ticks, tenants and retries.
THEOREM AcceptedAccounted == Spec => []Accounted
<1>1. KeptInv => Accounted
  BY DEF KeptInv, Pushed, Kept, Accounted
<1> QED BY <1>1, KeptInvariant, PTL

-----------------------------------------------------------------------------
(* One document per upload.                                                *)

NamesDistinct == \A u, v \in Uploads : PathOf[u] = PathOf[v] => u = v

\* A staged file is that of an upload received and not yet stored, under the
\* upload's own name.
StagedInv ==
    /\ \A p \in Paths : staged[p] # NoUpload =>
          /\ PathOf[staged[p]] = p
          /\ docs[staged[p]] = <<>>
          /\ client[staged[p]] # "new"
    /\ \A u \in Uploads : client[u] = "new" => docs[u] = <<>>

DocInv == StagedInv /\ AtMostOneDocument

LEMMA InitDoc == Init => DocInv
BY DEF Init, DocInv, StagedInv, AtMostOneDocument

LEMMA ReceiveDoc ==
    ASSUME ControlInv, DocInv, NEW u \in Uploads, Receive(u)
    PROVE  DocInv'
<1>1. Data /\ Waits /\ docs' = docs /\ PathOf[u] \in Paths
  BY ControlParts, UploadsAssumption DEF Receive
<1>2. docs[u] = <<>>
  BY DEF Receive, DocInv, StagedInv
<1>3. staged'[PathOf[u]] = u /\ \A p \in Paths \ {PathOf[u]} : staged'[p] = staged[p]
  BY <1>1 DEF Data, Receive
<1>4. client'[u] = "waiting" /\ \A v \in Uploads \ {u} : client'[v] = client[v]
  BY <1>1 DEF Waits, Receive
<1>5. \A p \in Paths : staged[p] # NoUpload => staged[p] \in Uploads
  BY <1>1 DEF Data
<1>6. StagedInv'
  BY <1>1, <1>2, <1>3, <1>4, <1>5 DEF DocInv, StagedInv
<1> QED BY <1>1, <1>6 DEF DocInv, AtMostOneDocument

\* The rename lets one replay of an upload through, and takes its own file.
LEMMA PoppedDoc ==
    ASSUME NamesDistinct, ControlInv, DocInv, NEW w \in Ticks, Popped(w)
    PROVE  DocInv'
<1>1. Waits /\ Data /\ client' = client
  BY ControlParts DEF Popped
<1>2. cmd[w].item \in Retryable
  BY <1>1 DEF Waits, TickInv, CmdInv, Popped, Procs
<1>3. PICK u \in Uploads : u = cmd[w].item.upload
  BY <1>2 DEF Retryable
<1> DEFINE p == PathOf[u]
<1>4. p \in Paths /\ staged[p] \in Uploads \cup {NoUpload}
  BY <1>1, UploadsAssumption DEF Data
<1>5. CASE UNCHANGED <<staged, docs>>
  BY <1>1, <1>5 DEF DocInv, StagedInv, AtMostOneDocument
<1>6. CASE staged' = [staged EXCEPT ![p] = NoUpload] /\ docs' = docs
  <2>1. staged'[p] = NoUpload /\ \A q \in Paths \ {p} : staged'[q] = staged[q]
    BY <1>1, <1>4, <1>6 DEF Data
  <2> QED BY <1>1, <1>6, <2>1 DEF DocInv, StagedInv, AtMostOneDocument
<1>7. CASE /\ staged[p] # NoUpload
           /\ staged' = [staged EXCEPT ![p] = NoUpload]
           /\ docs' = [docs EXCEPT ![u] = Append(@, staged[p])]
  <2>1. staged[p] = u /\ docs[u] = <<>> /\ client[u] # "new"
    BY <1>4, <1>7 DEF DocInv, StagedInv, NamesDistinct
  <2>2. Append(<<>>, u) = <<u>>
    OBVIOUS
  <2>3. docs'[u] = <<u>> /\ \A v \in Uploads \ {u} : docs'[v] = docs[v]
    BY <1>1, <1>7, <2>1, <2>2 DEF Data
  <2>4. staged'[p] = NoUpload /\ \A q \in Paths \ {p} : staged'[q] = staged[q]
    BY <1>1, <1>4, <1>7 DEF Data
  <2>5. \A q \in Paths \ {p} : staged[q] # NoUpload => staged[q] \in Uploads \ {u}
    BY <1>1 DEF DocInv, StagedInv, Data
  <2>6. StagedInv'
    BY <1>1, <2>1, <2>3, <2>4, <2>5 DEF DocInv, StagedInv
  <2>7. AtMostOneDocument'
    BY <2>3 DEF DocInv, AtMostOneDocument
  <2> QED BY <2>6, <2>7 DEF DocInv
<1> QED BY <1>3, <1>5, <1>6, <1>7 DEF Popped, Replay, Moved

LEMMA CrashDoc ==
    ASSUME ControlInv, DocInv, Crash
    PROVE  DocInv'
<1>1. docs' = docs
  BY DEF Crash
<1>2. \A p \in Paths : staged'[p] \in {NoUpload, staged[p]}
  BY DEF Crash
<1>3. \A u \in Uploads : client'[u] = "new" <=> client[u] = "new"
  BY DEF Crash
<1>4. \A p \in Paths : staged[p] # NoUpload => staged[p] \in Uploads
  BY ControlParts DEF Data
<1> QED BY <1>1, <1>2, <1>3, <1>4 DEF DocInv, StagedInv, AtMostOneDocument

LEMMA RespondDoc ==
    ASSUME ControlInv, DocInv, NEW u \in Uploads, Respond(u)
    PROVE  DocInv'
<1>1. Waits /\ Data /\ UNCHANGED <<staged, docs>>
  BY ControlParts DEF Respond
<1>2. client'[u] # "new" /\ \A v \in Uploads \ {u} : client'[v] = client[v]
  BY <1>1 DEF Waits, Respond
<1>3. \A p \in Paths : staged[p] # NoUpload => staged[p] \in Uploads
  BY <1>1 DEF Data
<1> QED BY <1>1, <1>2, <1>3 DEF DocInv, StagedInv, AtMostOneDocument

LEMMA SameDoc ==
    ASSUME DocInv, UNCHANGED <<staged, docs, client>>
    PROVE  DocInv'
BY DEF DocInv, StagedInv, AtMostOneDocument

LEMMA NextDoc ==
    ASSUME NamesDistinct, ControlInv, DocInv, [Next]_vars
    PROVE  DocInv'
<1>1. CASE Next
  <2>1. ASSUME NEW u \in Uploads, Receive(u) \/ Respond(u)
        PROVE  DocInv'
    BY <2>1, ReceiveDoc, RespondDoc
  <2>2. ASSUME NEW w \in Ticks, TimerFires(w) \/ TickStep(w)
        PROVE  DocInv'
    <3>1. CASE Popped(w)
      BY <3>1, PoppedDoc
    <3>2. CASE ~Popped(w)
      <4>1. UNCHANGED <<staged, docs, client>>
        BY <2>2, <3>2 DEF TickStep, TimerFires, PoppedNothing, DedupChecked, Requeued,
                          Buried, DrainThrows
      <4> QED BY <4>1, SameDoc
    <3> QED BY <3>1, <3>2
  <2>3. ASSUME NEW p \in Procs, RedisStep(p)
        PROVE  DocInv'
    BY <2>3, SameDoc DEF RedisStep, RedisExecute, RedisRefuse
  <2>4. CASE Crash
    BY <2>4, CrashDoc
  <2> QED BY <1>1, <2>1, <2>2, <2>3, <2>4 DEF Next, Procs
<1>2. CASE UNCHANGED vars
  BY <1>2, SameDoc DEF vars
<1> QED BY <1>1, <1>2

\* While no two uploads share a staged name, an upload becomes at most one
\* document, with its own bytes, however often Redis lists it, ticks overlap
\* and replays are repeated.
THEOREM DocumentOnce ==
    ASSUME NamesDistinct
    PROVE  Spec => []AtMostOneDocument
<1>1. Init => ControlInv /\ DocInv
  BY InitControl, InitDoc
<1>2. ControlInv /\ DocInv /\ [Next]_vars => (ControlInv /\ DocInv)'
  BY NextControl, NextDoc
<1>3. DocInv => AtMostOneDocument
  BY DEF DocInv
<1> QED BY <1>1, <1>2, <1>3, PTL DEF Spec
-----------------------------------------------------------------------------
(* The dead letters and their audit rows.                                  *)

\* The ticks that have buried u and not written its audit row yet: each has a
\* dead letter of its own to write it for.
Burying(u) == {w \in Ticks : /\ tick[w].pc = "burying" /\ tick[w].item.upload = u
                             /\ cmd[w].st = "ok"}

BuriedInv == Durable => \A u \in Uploads : audited[u] + Cardinality(Burying(u)) <= dead[u]

LEMMA BuryingFinite ==
    ASSUME IsFiniteSet(Ticks), NEW S \in SUBSET Ticks
    PROVE  IsFiniteSet(S) /\ Cardinality(S) \in Nat
BY FS_Subset, FS_CardinalityType

\* Steps that write no audit row, and after which no tick is waiting to.
LEMMA BuriedFrame ==
    ASSUME IsFiniteSet(Ticks), Data, BuriedInv, audited' = audited, Data',
           Durable => \A u \in Uploads : dead[u] <= dead'[u] /\ Burying(u)' \subseteq Burying(u)
    PROVE  BuriedInv'
<1> SUFFICES ASSUME Durable, NEW u \in Uploads
             PROVE  audited'[u] + Cardinality(Burying(u)') <= dead'[u]
  BY DEF BuriedInv
<1>1. PICK B \in SUBSET Ticks : B = Burying(u)
  BY DEF Burying
<1>2. PICK C \in SUBSET Ticks : C = Burying(u)'
  BY DEF Burying
<1>3. Cardinality(C) <= Cardinality(B) /\ Cardinality(B) \in Nat /\ Cardinality(C) \in Nat
  <2>1. C \subseteq B
    BY <1>1, <1>2
  <2> QED BY <2>1, BuryingFinite, FS_Subset
<1>4. audited[u] + Cardinality(B) <= dead[u] /\ dead[u] <= dead'[u]
  BY <1>1 DEF BuriedInv
<1>5. audited[u] \in Nat /\ dead[u] \in Nat /\ dead'[u] \in Nat
  BY DEF Data
<1> QED BY <1>2, <1>3, <1>4, <1>5

\* A step of tick w after which it is not waiting to write an audit row.
LEMMA OneTick ==
    ASSUME NEW w \in Ticks,
           \A x \in Ticks \ {w} : tick'[x] = tick[x] /\ cmd'[x] = cmd[x],
           tick'[w].pc # "burying" \/ cmd'[w].st # "ok"
    PROVE  \A u \in Uploads : Burying(u)' = Burying(u) \ {w}
BY DEF Burying

\* What a tick sends next was not executed yet.
LEMMA PopSent ==
    ASSUME Waits, NEW w \in Ticks, NEW at, NEW it, Pop(w, at, it)
    PROVE  \A u \in Uploads : Burying(u)' = Burying(u) \ {w}
<1>1. tick'[w].pc = "popping" /\ \A x \in Ticks \ {w} : tick'[x] = tick[x] /\ cmd'[x] = cmd[x]
  BY DEF Pop, Send, Waits, Procs
<1> QED BY <1>1, OneTick

LEMMA NextTenantSent ==
    ASSUME Waits, NEW w \in Ticks, NextTenant(w)
    PROVE  \A u \in Uploads : Burying(u)' = Burying(u) \ {w}
<1>1. CASE tick' = [tick EXCEPT ![w] = Off] /\ cmd' = [cmd EXCEPT ![w] = NoCmd]
  <2>1. tick'[w].pc # "burying" /\ \A x \in Ticks \ {w} : tick'[x] = tick[x] /\ cmd'[x] = cmd[x]
    BY <1>1, OffTyped DEF Waits, Procs
  <2> QED BY <2>1, OneTick
<1> QED BY <1>1, PopSent DEF NextTenant

\* The audit row of what tick w buried.
LEMMA BuriedCounts ==
    ASSUME IsFiniteSet(Ticks), ControlInv, ControlInv', BuriedInv, NEW w \in Ticks, Buried(w)
    PROVE  BuriedInv'
<1>1. Waits /\ Data /\ Data' /\ dead' = dead
  BY ControlParts DEF Buried, ControlInv, OfflineTypeOK, Data
<1>2. \A u \in Uploads : Burying(u)' = Burying(u) \ {w}
  BY <1>1, PopSent, NextTenantSent DEF Buried
<1>3. CASE audited' = audited
  <2>1. \A u \in Uploads : dead[u] <= dead'[u] /\ Burying(u)' \subseteq Burying(u)
    BY <1>1, <1>2 DEF Data
  <2> QED BY <1>1, <1>3, <2>1, BuriedFrame
<1>4. CASE audited' = [audited EXCEPT ![tick[w].item.upload] = @ + 1]
  <2>1. PICK v : v = tick[w].item.upload
    OBVIOUS
  <2>2. /\ audited' = [audited EXCEPT ![v] = audited[v] + 1]
        /\ w \in Burying(v) /\ v \in Uploads
    <3>1. tick[w].item \in Item
      BY <1>1 DEF Waits, TickInv, CmdInv, Procs, Buried
    <3> QED BY <1>4, <2>1, <3>1 DEF Burying, Buried, Item
  <2> SUFFICES ASSUME Durable, NEW u \in Uploads
               PROVE  audited'[u] + Cardinality(Burying(u)') <= dead'[u]
    BY DEF BuriedInv
  <2>3. PICK B \in SUBSET Ticks : B = Burying(u)
    BY DEF Burying
  <2>4. Cardinality(B) \in Nat /\ IsFiniteSet(B)
    BY BuryingFinite
  <2>5. audited[u] + Cardinality(B) <= dead[u]
    BY <2>3 DEF BuriedInv
  <2>6. audited[u] \in Nat /\ dead[u] \in Nat
    BY <1>1 DEF Data
  <2>7. Cardinality(B \ {w}) = IF w \in B THEN Cardinality(B) - 1 ELSE Cardinality(B)
    BY <2>4, FS_RemoveElement
  <2>8. CASE u = v
    <3>1. audited'[u] = audited[u] + 1 /\ w \in B
      BY <1>1, <2>2, <2>3, <2>8 DEF Data
    <3> QED BY <1>1, <1>2, <2>3, <2>4, <2>5, <2>6, <2>7, <3>1
  <2>9. CASE u # v
    <3>1. audited'[u] = audited[u] /\ w \notin B
      BY <1>1, <2>1, <2>2, <2>3, <2>9 DEF Data, Burying
    <3> QED BY <1>1, <1>2, <2>3, <2>4, <2>5, <2>6, <2>7, <3>1
  <2> QED BY <2>8, <2>9
<1> QED BY <1>3, <1>4 DEF Buried

\* Redis puts an item into the dead letters, and may answer its tick.
LEMMA RedisBuryCounts ==
    ASSUME IsFiniteSet(Ticks), ControlInv, ControlInv', BuriedInv, NEW p \in Procs,
           RedisBury(p), UNCHANGED <<audited, tick>>
    PROVE  BuriedInv'
<1>1. Waits /\ Data /\ Data'
  BY ControlParts DEF ControlInv, OfflineTypeOK, Data
<1>2. p \in Ticks /\ cmd[p].item \in Item
  <2>1. \A u \in Uploads : cmd[u].op # "bury"
    BY <1>1 DEF Waits, ClientInv
  <2> QED BY <1>1, <2>1 DEF Waits, CmdInv, RedisBury, Procs
<1>3. PICK v \in Uploads : v = cmd[p].item.upload
  BY <1>2 DEF Item
<1>4. dead'[v] = dead[v] + 1 /\ \A u \in Uploads \ {v} : dead'[u] = dead[u]
  BY <1>1, <1>3 DEF RedisBury, Data
<1>5. \A x \in Ticks \ {p} : cmd'[x] = cmd[x]
  BY <1>1 DEF RedisBury, Waits, Procs
<1>6. tick[p].pc = "burying" => tick[p].item.upload = v
  BY <1>1, <1>2, <1>3 DEF Waits, TickInv
<1> SUFFICES ASSUME Durable, NEW u \in Uploads
             PROVE  audited'[u] + Cardinality(Burying(u)') <= dead'[u]
  BY DEF BuriedInv
<1>7. PICK B \in SUBSET Ticks : B = Burying(u)
  BY DEF Burying
<1>8. PICK C \in SUBSET Ticks : C = Burying(u)'
  BY DEF Burying
<1>9. /\ Cardinality(B) \in Nat /\ IsFiniteSet(B) /\ Cardinality(C) \in Nat
      /\ audited[u] + Cardinality(B) <= dead[u] /\ audited[u] \in Nat /\ dead[u] \in Nat
  BY <1>1, <1>7, BuryingFinite DEF BuriedInv, Data
<1>10. CASE u = v
  <2>1. C \subseteq B \cup {p}
    BY <1>5, <1>7, <1>8 DEF Burying
  <2>2. /\ Cardinality(B \cup {p}) = IF p \in B THEN Cardinality(B) ELSE Cardinality(B) + 1
        /\ IsFiniteSet(B \cup {p})
    BY <1>9, FS_AddElement
  <2>3. Cardinality(C) <= Cardinality(B \cup {p})
    BY <2>1, <2>2, FS_Subset
  <2> QED BY <1>4, <1>8, <1>9, <1>10, <2>2, <2>3
<1>11. CASE u # v
  <2>1. C \subseteq B
    BY <1>5, <1>6, <1>7, <1>8, <1>11 DEF Burying
  <2>2. Cardinality(C) <= Cardinality(B)
    BY <1>9, <2>1, FS_Subset
  <2> QED BY <1>4, <1>8, <1>9, <1>11, <2>2
<1> QED BY <1>10, <1>11
\* Every other step of a tick sends the next command, or leaves it as it is.
LEMMA TickCounts ==
    ASSUME IsFiniteSet(Ticks), ControlInv, ControlInv', BuriedInv, NEW w \in Ticks,
           TimerFires(w) \/ TickStep(w)
    PROVE  BuriedInv'
<1>1. Waits /\ Data /\ Data'
  BY ControlParts DEF ControlInv, OfflineTypeOK, Data
<1>2. ASSUME audited' = audited, dead' = dead, \A u \in Uploads : Burying(u)' = Burying(u) \ {w}
      PROVE  BuriedInv'
  <2>1. \A u \in Uploads : dead[u] <= dead'[u] /\ Burying(u)' \subseteq Burying(u)
    BY <1>1, <1>2 DEF Data
  <2> QED BY <1>1, <1>2, <2>1, BuriedFrame
<1>3. CASE Buried(w)
  BY <1>3, BuriedCounts
<1>4. CASE TimerFires(w) \/ DedupChecked(w) \/ Requeued(w)
  BY <1>1, <1>2, <1>4, PopSent DEF TimerFires, DedupChecked, Requeued
<1>5. CASE PoppedNothing(w) \/ DrainThrows(w)
  BY <1>1, <1>2, <1>5, NextTenantSent DEF PoppedNothing, DrainThrows
<1>6. CASE Popped(w)
  <2>1. PICK it : it = cmd[w].item
    OBVIOUS
  <2>2. CASE AfterFailure(w, it)
    <3>1. /\ cmd'[w].st = "sent" /\ audited' = audited
          /\ \A x \in Ticks \ {w} : tick'[x] = tick[x] /\ cmd'[x] = cmd[x]
      BY <1>1, <2>2 DEF AfterFailure, Send, Waits, Procs
    <3>2. cmd'[w].st # "ok"
      BY <3>1
    <3>3. \A u \in Uploads : Burying(u)' = Burying(u) \ {w}
      BY <3>1, <3>2, OneTick
    <3>4. dead' = dead
      BY <1>6 DEF Popped
    <3> QED BY <1>2, <3>1, <3>3, <3>4
  <2>3. CASE /\ tick' = [tick EXCEPT ![w] = [pc |-> "checking", at |-> tick[w].at, item |-> NoItem]]
             /\ cmd'  = [cmd EXCEPT ![w] = NoCmd] /\ audited' = audited
    <3>1. /\ tick'[w].pc = "checking"
          /\ \A x \in Ticks \ {w} : tick'[x] = tick[x] /\ cmd'[x] = cmd[x]
      BY <1>1, <2>3 DEF Waits, Procs
    <3>2. \A u \in Uploads : Burying(u)' = Burying(u) \ {w}
      BY <3>1, OneTick
    <3>3. dead' = dead
      BY <1>6 DEF Popped
    <3> QED BY <1>2, <2>3, <3>2, <3>3
  <2> QED BY <1>6, <2>1, <2>2, <2>3 DEF Popped, Replay
<1> QED BY <1>3, <1>4, <1>5, <1>6 DEF TickStep

\* Redis and the requests: only the execution of a bury answers one.
LEMMA RedisCounts ==
    ASSUME IsFiniteSet(Ticks), ControlInv, ControlInv', BuriedInv, NEW p \in Procs, RedisStep(p)
    PROVE  BuriedInv'
<1>1. Waits /\ Data /\ Data' /\ UNCHANGED <<audited, tick>>
  BY ControlParts DEF ControlInv, OfflineTypeOK, Data, RedisStep, RedisExecute, RedisRefuse
<1>2. ASSUME dead' = dead,
             \A x \in Ticks : cmd'[x] = cmd[x] \/ cmd'[x].st # "ok" \/ tick[x].pc # "burying"
      PROVE  BuriedInv'
  <2>1. \A u \in Uploads : dead[u] <= dead'[u] /\ Burying(u)' \subseteq Burying(u)
    BY <1>1, <1>2 DEF Data, Burying
  <2> QED BY <1>1, <1>2, <2>1, BuriedFrame
<1>3. \A x \in Ticks : tick[x].pc = "burying" => cmd[x].op = "bury"
  BY <1>1 DEF Waits, TickInv
<1>4. CASE RedisBury(p)
  BY <1>1, <1>4, RedisBuryCounts
<1>5. CASE RedisPush(p) \/ RedisPop(p) \/ RedisPopEmpty(p)
  <2>1. /\ dead' = dead /\ cmd[p].op \in {"push", "pop"}
        /\ \A x \in Procs \ {p} : cmd'[x] = cmd[x]
    BY <1>1, <1>5 DEF RedisPush, RedisPop, RedisPopEmpty, Waits
  <2> QED BY <1>2, <1>3, <2>1 DEF Procs
<1>6. CASE RedisRefuse(p)
  <2>1. /\ dead' = dead /\ cmd'[p].st = "error"
        /\ \A x \in Procs \ {p} : cmd'[x] = cmd[x]
    BY <1>1, <1>6 DEF RedisRefuse, Waits, Cmd
  <2> QED BY <1>2, <2>1 DEF Procs
<1> QED BY <1>4, <1>5, <1>6 DEF RedisStep, RedisExecute

\* With Redis behind the queue, an OFFLINE_SYNC_DEAD_LETTER row is written only
\* for an item that is in the dead letters: buryings, audit rows and crashes of
\* overlapping ticks, repeated and failed commands, for any finite number of ticks.
THEOREM AuditRowsAreDead ==
    ASSUME IsFiniteSet(Ticks)
    PROVE  Spec => []AuditedAreDead
<1>1. Init => ControlInv /\ BuriedInv
  <2> SUFFICES ASSUME Init, NEW u \in Uploads
               PROVE  audited[u] + Cardinality(Burying(u)) <= dead[u]
    BY InitControl DEF BuriedInv
  <2>1. Burying(u) = {} /\ audited[u] = 0 /\ dead[u] = 0
    BY DEF Init, Burying, Off
  <2> QED BY <2>1, FS_EmptySet
<1>2. ControlInv /\ BuriedInv /\ [Next]_vars => (ControlInv /\ BuriedInv)'
  <2> SUFFICES ASSUME ControlInv, BuriedInv, [Next]_vars PROVE BuriedInv'
    BY NextControl
  <2>1. ControlInv' /\ Data /\ Data' /\ Waits
    BY NextControl, ControlParts DEF ControlInv, OfflineTypeOK, Data
  <2>2. CASE \E u \in Uploads : Receive(u) \/ Respond(u)
    <3>1. PICK v \in Uploads : Receive(v) \/ Respond(v)
      BY <2>2
    <3>2. /\ UNCHANGED <<audited, dead, tick>>
          /\ \A x \in Ticks : cmd'[x] = cmd[x]
      BY <2>1, <3>1, UploadsAssumption DEF Receive, Respond, Send, Waits, Procs
    <3>3. \A u \in Uploads : dead[u] <= dead'[u] /\ Burying(u)' \subseteq Burying(u)
      BY <2>1, <3>2 DEF Data, Burying
    <3> QED BY <2>1, <3>2, <3>3, BuriedFrame
  <2>3. CASE \E w \in Ticks : TimerFires(w) \/ TickStep(w)
    BY <2>1, <2>3, TickCounts
  <2>4. CASE \E p \in Procs : RedisStep(p)
    BY <2>1, <2>4, RedisCounts
  <2>5. CASE Crash
    <3>1. audited' = audited /\ (Durable => dead' = dead) /\ \A w \in Ticks : tick'[w].pc = "off"
      BY <2>5, OffTyped DEF Crash
    <3>2. Durable => \A u \in Uploads : dead[u] <= dead'[u] /\ Burying(u)' \subseteq Burying(u)
      BY <2>1, <3>1 DEF Data, Burying
    <3> QED BY <2>1, <3>1, <3>2, BuriedFrame
  <2>6. CASE UNCHANGED vars
    BY <2>6 DEF vars, BuriedInv, Burying
  <2> QED BY <2>2, <2>3, <2>4, <2>5, <2>6 DEF Next, Procs
<1>3. ControlInv /\ BuriedInv => AuditedAreDead
  <2> SUFFICES ASSUME ControlInv, BuriedInv, Durable, NEW u \in Uploads
               PROVE  audited[u] <= dead[u]
    BY DEF AuditedAreDead
  <2>1. PICK B \in SUBSET Ticks : B = Burying(u)
    BY DEF Burying
  <2>2. audited[u] + Cardinality(B) <= dead[u] /\ Cardinality(B) \in Nat
    BY <2>1, BuryingFinite DEF BuriedInv
  <2>3. audited[u] \in Nat /\ dead[u] \in Nat
    BY DEF ControlInv, OfflineTypeOK
  <2> QED BY <2>2, <2>3
<1> QED BY <1>1, <1>2, <1>3, PTL DEF Spec
-----------------------------------------------------------------------------
(* The queue implements the delivery of uploads, with Redis and when no     *)
(* command is repeated: an upload is in one place, until it has its outcome. *)

Own(u)  == cmd[u].op = "push" /\ cmd[u].st = "sent"
Held(u) == \E w \in Ticks : u \in InHand(w)
Gone(u) == ~Listed(u) /\ ~Held(u) /\ ~Own(u)

InOnePlace(u) ==
    \/ Own(u) /\ ~Listed(u) /\ ~Held(u)
    \/ Listed(u) /\ ~Held(u) /\ ~Own(u)
    \/ Held(u) /\ ~Own(u) /\ ~Listed(u)

Pending(u) == InOnePlace(u) /\ docs[u] = <<>> /\ dead[u] = 0 /\ client[u] # "new"
Over(u)    == /\ Gone(u)
              /\ docs[u] = <<>> \/ dead[u] = 0
              /\ client[u] = "new" => docs[u] = <<>> /\ dead[u] = 0

OnceListed ==
    \A t, s \in Tenants : \A n \in DOMAIN queue[t], m \in DOMAIN queue[s] :
        queue[t][n].upload = queue[s][m].upload => t = s /\ n = m
OnceHeld == \A v, w \in Ticks : v # w => InHand(v) \cap InHand(w) = {}

\* No command is repeated, and a pop that was not executed brings nothing.
Once == \A p \in Procs : /\ cmd[p].st # "again"
                         /\ cmd[p].op = "pop" /\ cmd[p].st = "sent" => cmd[p].item = NoItem

PlacesInv == OnceListed /\ OnceHeld /\ Once /\ \A u \in Uploads : Pending(u) \/ Over(u)

\* What a step may do to an upload.
Same(u) == /\ Listed(u)' <=> Listed(u)
           /\ Held(u)' <=> Held(u)
           /\ Own(u)' <=> Own(u)
           /\ docs'[u] = docs[u] /\ dead'[u] = dead[u]
           /\ client'[u] = "new" <=> client[u] = "new"
Goes(u) == Pending(u) /\ Gone(u)' /\ client'[u] # "new"
Takes(u)  == client[u] = "new" /\ Over(u) /\ Pending(u)'
Moves(u)  == Pending(u) /\ Pending(u)'
Stores(u) == Goes(u) /\ docs'[u] # <<>> /\ dead'[u] = 0
Buries(u) == Goes(u) /\ docs'[u] = <<>> /\ dead'[u] > 0
Loses(u)  == Goes(u) /\ docs'[u] = <<>> /\ dead'[u] = 0 /\ Faults \cap {"crash", "redis"} # {}

Settling(u) == Takes(u) \/ Moves(u) \/ Stores(u) \/ Buries(u) \/ Loses(u)
OneChange(u) == Settling(u) /\ \A x \in Uploads \ {u} : Same(x)
Effect ==
    \/ \E u \in Uploads : OneChange(u)
    \/ \A x \in Uploads : Same(x) \/ Loses(x)

Apart == OnceListed' /\ OnceHeld' /\ Once'

LEMMA EffectKeeps == ASSUME PlacesInv, Effect, Apart PROVE PlacesInv'
<1>1. \A u \in Uploads : Same(u) /\ Pending(u) => Pending(u)'
  BY DEF Same, Pending, InOnePlace
<1>2. \A u \in Uploads : Same(u) /\ Over(u) => Over(u)'
  BY DEF Same, Over, Gone
<1>3. \A u \in Uploads : Settling(u) => Pending(u)' \/ Over(u)'
  BY DEF Settling, Takes, Moves, Stores, Buries, Loses, Goes, Over
<1>4. \A u \in Uploads : Loses(u) => Settling(u)
  BY DEF Settling
<1>5. \A u \in Uploads : Same(u) \/ Settling(u)
  BY <1>4, Zenon DEF Effect, OneChange
<1> QED BY <1>1, <1>2, <1>3, <1>5 DEF PlacesInv, Apart

\* What is in the hands of other ticks stays there.
LEMMA HandsSame ==
    ASSUME \A w \in Ticks : InHand(w)' = InHand(w)
    PROVE  (\A u \in Uploads : Held(u)' <=> Held(u)) /\ (OnceHeld => OnceHeld')
BY DEF Held, OnceHeld

LEMMA HandEmptied ==
    ASSUME OnceHeld, NEW w \in Ticks, InHand(w)' = {},
           \A v \in Ticks \ {w} : InHand(v)' = InHand(v)
    PROVE  /\ OnceHeld'
           /\ \A u \in InHand(w) : ~Held(u)'
           /\ \A u \in Uploads : u \notin InHand(w) => (Held(u)' <=> Held(u))
BY DEF Held, OnceHeld

LEMMA HandFilled ==
    ASSUME OnceHeld, NEW w \in Ticks, InHand(w) = {}, NEW x, InHand(w)' = {x}, ~Held(x),
           \A v \in Ticks \ {w} : InHand(v)' = InHand(v)
    PROVE  /\ OnceHeld' /\ Held(x)'
           /\ \A u \in Uploads \ {x} : Held(u)' <=> Held(u)
BY DEF Held, OnceHeld

LEMMA ListsSame ==
    ASSUME queue' = queue
    PROVE  (\A u \in Uploads : Listed(u)' <=> Listed(u)) /\ (OnceListed => OnceListed')
BY DEF Listed, OnceListed

LEMMA ListGains ==
    ASSUME Data, OnceListed, NEW t \in Tenants, NEW it \in Item, ~Listed(it.upload),
           queue' = [queue EXCEPT ![t] = Append(@, it)]
    PROVE  /\ OnceListed' /\ Listed(it.upload)'
           /\ \A u \in Uploads \ {it.upload} : Listed(u)' <=> Listed(u)
<1>1. queue[t] \in Seq(Item) /\ queue'[t] = Append(queue[t], it)
      /\ \A x \in Tenants \ {t} : queue'[x] = queue[x]
  BY DEF Data
<1>2. PICK L \in Nat : L = Len(queue[t])
  BY <1>1
<1>3. /\ DOMAIN queue[t] = 1..L /\ DOMAIN queue'[t] = 1..(L + 1)
      /\ \A n \in 1..L : queue'[t][n] = queue[t][n]
      /\ queue'[t][L + 1] = it
  BY <1>1, <1>2, AppendProperties
<1>4. \A x \in Tenants : \A n \in DOMAIN queue'[x] :
         \/ n \in DOMAIN queue[x] /\ queue'[x][n] = queue[x][n]
         \/ x = t /\ n = L + 1 /\ queue'[x][n] = it
  <2> SUFFICES ASSUME NEW x \in Tenants, NEW n \in DOMAIN queue'[x]
               PROVE  \/ n \in DOMAIN queue[x] /\ queue'[x][n] = queue[x][n]
                      \/ x = t /\ n = L + 1 /\ queue'[x][n] = it
    OBVIOUS
  <2>1. CASE x = t
    BY <1>3, <2>1
  <2>2. CASE x # t
    BY <1>1, <2>2
  <2> QED BY <2>1, <2>2
<1>5. \A x \in Tenants : \A n \in DOMAIN queue[x] : queue[x][n].upload # it.upload
  BY DEF Listed
<1>6. OnceListed'
  BY <1>4, <1>5 DEF OnceListed
<1>7. Listed(it.upload)' /\ \A u \in Uploads : Listed(u) => Listed(u)'
  BY ListedAppend
<1>8. \A u \in Uploads \ {it.upload} : Listed(u)' => Listed(u)
  BY <1>4 DEF Listed
<1> QED BY <1>6, <1>7, <1>8

LEMMA ListLoses ==
    ASSUME Data, OnceListed, NEW t \in Tenants, queue[t] # <<>>, NEW h, h = Head(queue[t]),
           queue' = [queue EXCEPT ![t] = Tail(queue[t])]
    PROVE  /\ OnceListed' /\ Listed(h.upload) /\ ~Listed(h.upload)'
           /\ \A u \in Uploads \ {h.upload} : Listed(u)' <=> Listed(u)
<1>1. queue[t] \in Seq(Item) /\ queue'[t] = Tail(queue[t])
      /\ \A x \in Tenants \ {t} : queue'[x] = queue[x]
  BY DEF Data
<1>3. PICK L \in Nat : L = Len(queue[t])
  BY <1>1
<1>4. /\ L >= 1 /\ DOMAIN queue[t] = 1..L /\ queue[t][1] = h
  BY <1>1, <1>3, EmptySeq
<1>5. /\ DOMAIN queue'[t] = 1..(L - 1)
      /\ \A n \in 1..(L - 1) : queue'[t][n] = queue[t][n + 1]
  <2>1. PICK q \in Seq(Item) : q = queue[t] /\ q # <<>>
    BY <1>1
  <2>2. Tail(q) \in Seq(Item) /\ Len(Tail(q)) = Len(q) - 1
    BY <2>1
  <2>3. \A n \in 1..Len(q) - 1 : Tail(q)[n] = q[n + 1]
    BY <2>1
  <2>4. DOMAIN Tail(q) = 1..Len(q) - 1
    BY <2>2
  <2> QED BY <1>1, <1>3, <2>1, <2>3, <2>4
<1>6. Listed(h.upload)
  BY <1>4 DEF Listed
\* Where an entry was before.
<1>7. \A x \in Tenants : \A n \in DOMAIN queue'[x] :
         LET m == IF x = t THEN n + 1 ELSE n
         IN  m \in DOMAIN queue[x] /\ queue'[x][n] = queue[x][m] /\ (x = t => m # 1)
  <2> SUFFICES ASSUME NEW x \in Tenants, NEW n \in DOMAIN queue'[x]
               PROVE  LET m == IF x = t THEN n + 1 ELSE n
                      IN  m \in DOMAIN queue[x] /\ queue'[x][n] = queue[x][m] /\ (x = t => m # 1)
    OBVIOUS
  <2>1. CASE x = t
    <3>1. n \in 1..(L - 1)
      BY <1>5, <2>1
    <3>2. n + 1 \in 1..L /\ n + 1 # 1
      BY <3>1
    <3> QED BY <1>4, <1>5, <2>1, <3>1, <3>2
  <2>2. CASE x # t
    BY <1>1, <2>2
  <2> QED BY <2>1, <2>2
<1>8. OnceListed'
  <2> SUFFICES ASSUME NEW x \in Tenants, NEW y \in Tenants,
                      NEW n \in DOMAIN queue'[x], NEW m \in DOMAIN queue'[y],
                      queue'[x][n].upload = queue'[y][m].upload
               PROVE  x = y /\ n = m
    BY DEF OnceListed
  <2>1. PICK a : a = (IF x = t THEN n + 1 ELSE n) /\ a \in DOMAIN queue[x] /\ queue'[x][n] = queue[x][a]
    BY <1>7
  <2>2. PICK b : b = (IF y = t THEN m + 1 ELSE m) /\ b \in DOMAIN queue[y] /\ queue'[y][m] = queue[y][b]
    BY <1>7
  <2>3. x = y /\ a = b
    BY <2>1, <2>2 DEF OnceListed
  <2>4. CASE x = t
    BY <1>5, <2>1, <2>2, <2>3, <2>4
  <2>5. CASE x # t
    BY <2>1, <2>2, <2>3, <2>5
  <2> QED BY <2>3, <2>4, <2>5
<1>9. \A u \in Uploads : Listed(u)' => Listed(u)
  BY <1>7 DEF Listed
<1>10. ~Listed(h.upload)'
  <2> SUFFICES ASSUME NEW x \in Tenants, NEW n \in DOMAIN queue'[x], queue'[x][n].upload = h.upload
               PROVE  FALSE
    BY DEF Listed
  <2>1. PICK a : a \in DOMAIN queue[x] /\ queue'[x][n] = queue[x][a] /\ (x = t => a # 1)
    BY <1>7
  <2>2. 1 \in DOMAIN queue[t]
    BY <1>4
  <2> QED BY <1>4, <2>1, <2>2 DEF OnceListed
<1>11. \A u \in Uploads : Listed(u) => u = h.upload \/ Listed(u)'
  BY ListedTail
<1> QED BY <1>6, <1>8, <1>9, <1>10, <1>11

\* An upload in some place is pending, and in no other.
LEMMA OneOf ==
    ASSUME PlacesInv, NEW u \in Uploads
    PROVE  /\ Own(u) \/ Listed(u) \/ Held(u) => Pending(u)
           /\ Own(u) => ~Listed(u) /\ ~Held(u)
           /\ Listed(u) => ~Own(u) /\ ~Held(u)
           /\ Held(u) => ~Own(u) /\ ~Listed(u)
BY DEF PlacesInv, Pending, InOnePlace, Over, Gone

LEMMA TakenIn ==
    ASSUME ControlInv, PlacesInv, NEW u \in Uploads, Receive(u)
    PROVE  Effect /\ Apart
<1>1. Waits /\ Data /\ \A w \in Ticks : w # u
  BY ControlParts, UploadsAssumption
<1>2. UNCHANGED <<queue, dead, docs, tick>>
  BY DEF Receive
<1>3. PICK c : /\ c = [op |-> "push", tenant |-> TenantOf[u],
                       item |-> [upload |-> u, retries |-> 0], st |-> "sent"]
               /\ cmd' = [cmd EXCEPT ![u] = c]
  BY DEF Receive, Send
<1>4. cmd'[u] = c /\ \A q \in Procs \ {u} : cmd'[q] = cmd[q]
  BY <1>1, <1>3 DEF Waits, Procs
<1>5. client[u] = "new" /\ client'[u] = "waiting" /\ \A x \in Uploads \ {u} : client'[x] = client[x]
  BY <1>1 DEF Waits, Receive
<1>6. \A w \in Ticks : InHand(w)' = InHand(w)
  BY <1>1, <1>2, <1>4, InHandSame DEF Procs
<1>7. \A x \in Uploads : (Listed(x)' <=> Listed(x)) /\ (Held(x)' <=> Held(x))
  BY <1>2, <1>6, ListsSame, HandsSame
<1>8. Over(u)
  BY <1>5 DEF PlacesInv, Pending
<1>9. Own(u)'
  BY <1>3, <1>4 DEF Own
<1>10. Takes(u)
  BY <1>2, <1>5, <1>7, <1>8, <1>9 DEF Takes, Over, Gone, Pending, InOnePlace
<1>11. \A x \in Uploads \ {u} : Same(x)
  BY <1>2, <1>4, <1>5, <1>7 DEF Same, Own, Procs
<1>12. Apart
  <2>1. OnceListed' /\ OnceHeld'
    BY <1>2, <1>6, ListsSame, HandsSame DEF PlacesInv
  <2>2. Once'
    BY <1>3, <1>4 DEF PlacesInv, Once
  <2> QED BY <2>1, <2>2 DEF Apart
<1> QED BY <1>10, <1>11, <1>12 DEF Effect, OneChange, Settling

LEMMA RespondedSame ==
    ASSUME ControlInv, PlacesInv, NEW u \in Uploads, Respond(u)
    PROVE  Effect /\ Apart
<1>1. Waits /\ Data /\ \A w \in Ticks : w # u
  BY ControlParts, UploadsAssumption
<1>2. UNCHANGED <<queue, dead, docs, tick>>
  BY DEF Respond
<1>4. cmd'[u] = NoCmd /\ \A q \in Procs \ {u} : cmd'[q] = cmd[q]
  BY <1>1 DEF Waits, Procs, Respond
<1>5. \A x \in Uploads : client'[x] = "new" <=> client[x] = "new"
  BY <1>1 DEF Waits, Respond
<1>6. \A w \in Ticks : InHand(w)' = InHand(w)
  BY <1>1, <1>2, <1>4, InHandSame DEF Procs
<1>7. \A x \in Uploads : (Listed(x)' <=> Listed(x)) /\ (Held(x)' <=> Held(x))
  BY <1>2, <1>6, ListsSame, HandsSame
<1>8. ~Own(u) /\ ~Own(u)'
  BY <1>4, NoCmdTyped DEF Own, Respond
<1>9. \A x \in Uploads : Same(x)
  BY <1>2, <1>4, <1>5, <1>7, <1>8 DEF Same, Own, Procs
<1>10. Apart
  <2>1. OnceListed' /\ OnceHeld'
    BY <1>2, <1>6, ListsSame, HandsSame DEF PlacesInv
  <2>2. Once'
    BY <1>4, NoCmdTyped DEF PlacesInv, Once
  <2> QED BY <2>1, <2>2 DEF Apart
<1> QED BY <1>9, <1>10 DEF Effect

\* What Redis answers when nothing is repeated.
LEMMA Answers ==
    ASSUME "resend" \notin Faults, NEW p \in Procs
    PROVE  /\ Outcomes(p) \subseteq {"ok", "error"}
           /\ "error" \in Outcomes(p) => "redis" \in Faults
BY DEF Outcomes

LEMMA AnswerOnce ==
    ASSUME Waits, Once, NEW p \in Procs, NEW st \in {"ok", "error"}, cmd' = [cmd EXCEPT ![p].st = st]
    PROVE  Once' /\ cmd'[p].op = cmd[p].op /\ cmd'[p].item = cmd[p].item /\ cmd'[p].st = st
<1>1. cmd[p] \in Cmd /\ \A q \in Procs \ {p} : cmd'[q] = cmd[q]
  BY DEF Waits
<1>2. cmd'[p].st = st /\ cmd'[p].op = cmd[p].op /\ cmd'[p].item = cmd[p].item
  BY <1>1 DEF Waits, Cmd
<1> QED BY <1>1, <1>2 DEF Once

LEMMA PushMoves ==
    ASSUME ControlInv, PlacesInv, "resend" \notin Faults, NEW p \in Procs,
           cmd[p].st \in {"sent", "again"}, RedisPush(p),
           UNCHANGED <<audited, staged, docs, client, tick>>
    PROVE  Effect /\ Apart
<1>1. Waits /\ Data /\ cmd[p].op = "push" /\ cmd[p].st = "sent" /\ Once /\ OnceHeld /\ OnceListed
      /\ dead' = dead
  BY ControlParts DEF RedisPush, PlacesInv, Once
<1>2. PICK it \in Item : it = cmd[p].item
  BY <1>1, ItemFacts DEF Waits, CmdInv
<1>3. PICK u \in Uploads : u = it.upload
  BY DEF Item
<1>4. PICK st \in {"ok", "error"} : cmd' = [cmd EXCEPT ![p].st = st]
  BY Answers DEF RedisPush
<1>5. cmd'[p].st = st /\ cmd'[p].op = "push" /\ Once'
  BY <1>1, <1>4, AnswerOnce
<1>6. /\ \A q \in Procs \ {p} : cmd'[q] = cmd[q]
      /\ \A w \in Ticks \ {p} : InHand(w)' = InHand(w)
  BY <1>1, <1>4, AnswerFrame
<1>7. IF p \in Uploads THEN p = u /\ p \notin Ticks /\ Own(u)
      ELSE p \in Ticks /\ InHand(p) = {u} /\ InHand(p)' = {} /\ Held(u)
  <2>1. CASE p \in Uploads
    BY <1>1, <1>2, <1>3, <2>1, WhoWaits, UploadsAssumption DEF Own
  <2>2. CASE p \notin Uploads
    <3>1. p \in Ticks /\ tick[p].pc = "requeueing"
      BY <1>1, <2>2, WhoWaits DEF Procs
    <3>2. InHand(p) = {u}
      BY <1>1, <1>2, <1>3, <3>1 DEF InHand
    <3>3. InHand(p)' = {}
      BY <1>5, <3>1 DEF InHand
    <3> QED BY <2>2, <3>1, <3>2, <3>3 DEF Held
  <2> QED BY <2>1, <2>2
<1>8. Pending(u) /\ ~Listed(u)
  BY <1>7, OneOf
<1>9. OnceListed' /\ Listed(u)' /\ \A x \in Uploads \ {u} : Listed(x)' <=> Listed(x)
  <2>1. PICK t \in Tenants : t = cmd[p].tenant
    BY <1>1 DEF Waits, Cmd
  <2>2. queue' = [queue EXCEPT ![t] = Append(@, it)]
    BY <1>2, <2>1 DEF RedisPush
  <2> QED BY <1>1, <1>3, <1>8, <2>2, ListGains
<1>10. OnceHeld' /\ ~Held(u)' /\ \A x \in Uploads \ {u} : Held(x)' <=> Held(x)
  <2>1. CASE p \in Uploads
    <3>1. \A w \in Ticks : InHand(w)' = InHand(w)
      BY <1>6, <1>7, <2>1
    <3>2. ~Held(u)
      BY <1>7, <2>1, OneOf
    <3> QED BY <1>1, <3>1, <3>2, HandsSame
  <2>2. CASE p \notin Uploads
    BY <1>1, <1>6, <1>7, <2>2, HandEmptied
  <2> QED BY <2>1, <2>2
<1>11. ~Own(u)' /\ \A x \in Uploads \ {u} : Own(x)' <=> Own(x)
  <2>1. CASE p \in Uploads
    BY <1>5, <1>6, <1>7, <2>1 DEF Own, Procs
  <2>2. CASE p \notin Uploads
    <3>1. ~Own(u)
      BY <1>7, <2>2, OneOf
    <3> QED BY <1>6, <2>2, <3>1 DEF Own, Procs
  <2> QED BY <2>1, <2>2
<1>12. Moves(u)
  BY <1>1, <1>8, <1>9, <1>10, <1>11 DEF Moves, Pending, InOnePlace
<1>13. \A x \in Uploads \ {u} : Same(x)
  BY <1>1, <1>9, <1>10, <1>11 DEF Same
<1> QED BY <1>5, <1>9, <1>10, <1>12, <1>13 DEF Effect, OneChange, Settling, Apart

LEMMA BuryEnds ==
    ASSUME ControlInv, PlacesInv, "resend" \notin Faults, NEW p \in Procs,
           cmd[p].st \in {"sent", "again"}, RedisBury(p),
           UNCHANGED <<audited, staged, docs, client, tick>>
    PROVE  Effect /\ Apart
<1>1. Waits /\ Data /\ cmd[p].op = "bury" /\ cmd[p].st = "sent" /\ Once /\ OnceHeld /\ OnceListed
      /\ queue' = queue
  BY ControlParts DEF RedisBury, PlacesInv, Once
<1>2. p \in Ticks /\ p \notin Uploads /\ tick[p].pc = "burying"
  BY <1>1, WhoWaits, UploadsAssumption
<1>3. PICK u \in Uploads : u = cmd[p].item.upload
  BY <1>1 DEF Waits, CmdInv, Item
<1>4. PICK st \in {"ok", "error"} : cmd' = [cmd EXCEPT ![p].st = st]
  BY Answers DEF RedisBury
<1>5. cmd'[p].st = st /\ Once'
  BY <1>1, <1>4, AnswerOnce
<1>6. /\ \A q \in Procs \ {p} : cmd'[q] = cmd[q]
      /\ \A w \in Ticks \ {p} : InHand(w)' = InHand(w)
  BY <1>1, <1>4, AnswerFrame
<1>7. InHand(p) = {u} /\ InHand(p)' = {}
  BY <1>1, <1>2, <1>3, <1>5 DEF InHand
<1>8. Pending(u) /\ ~Listed(u) /\ ~Own(u)
  BY <1>2, <1>7, OneOf DEF Held
<1>9. OnceHeld' /\ ~Held(u)' /\ \A x \in Uploads \ {u} : Held(x)' <=> Held(x)
  BY <1>1, <1>2, <1>6, <1>7, HandEmptied
<1>10. OnceListed' /\ \A x \in Uploads : Listed(x)' <=> Listed(x)
  BY <1>1, ListsSame
<1>11. \A x \in Uploads : Own(x)' <=> Own(x)
  BY <1>2, <1>6 DEF Own, Procs
<1>12. dead'[u] > 0 /\ \A x \in Uploads \ {u} : dead'[x] = dead[x]
  BY <1>1, <1>3 DEF Data, RedisBury
<1>13. Buries(u)
  BY <1>8, <1>9, <1>10, <1>11, <1>12 DEF Buries, Goes, Gone, Pending
<1>14. \A x \in Uploads \ {u} : Same(x)
  BY <1>9, <1>10, <1>11, <1>12 DEF Same
<1> QED BY <1>5, <1>9, <1>10, <1>13, <1>14 DEF Effect, OneChange, Settling, Apart

LEMMA PopTakes ==
    ASSUME ControlInv, PlacesInv, "resend" \notin Faults, NEW p \in Procs,
           cmd[p].st \in {"sent", "again"}, RedisPop(p),
           UNCHANGED <<audited, staged, docs, client, tick>>
    PROVE  Effect /\ Apart
<1>1. Waits /\ Data /\ cmd[p].op = "pop" /\ cmd[p].st = "sent" /\ Once /\ OnceHeld /\ OnceListed
      /\ dead' = dead
  BY ControlParts DEF RedisPop, PlacesInv, Once
<1>2. p \in Ticks /\ p \notin Uploads /\ tick[p].pc = "popping"
  BY <1>1, WhoWaits, UploadsAssumption
<1>3. PICK t \in Tenants : t = cmd[p].tenant
  BY <1>1 DEF Waits, Cmd
<1>4. PICK h : h = Head(queue[t])
  OBVIOUS
<1>5. queue[t] # <<>> /\ queue' = [queue EXCEPT ![t] = Tail(queue[t])]
  BY <1>3 DEF RedisPop
<1>6. h \in Item /\ h # NoItem
  <2>1. h \in Item
    BY <1>1, <1>4, <1>5, TailHolds DEF Data
  <2> QED BY <2>1, ItemFacts
<1>7. PICK u \in Uploads : u = h.upload
  BY <1>6 DEF Item
<1>8. /\ OnceListed' /\ Listed(u) /\ ~Listed(u)'
      /\ \A x \in Uploads \ {u} : Listed(x)' <=> Listed(x)
  BY <1>1, <1>4, <1>5, <1>7, ListLoses
<1>9. Pending(u) /\ ~Own(u) /\ ~Held(u)
  BY <1>8, OneOf
<1>10. InHand(p) = {}
  BY <1>1, <1>2 DEF InHand
<1>11. CASE cmd' = [cmd EXCEPT ![p] = [op |-> "pop", tenant |-> t, item |-> h, st |-> "ok"]]
  <2>1. /\ cmd'[p].item = h /\ cmd'[p].st = "ok"
        /\ \A q \in Procs \ {p} : cmd'[q] = cmd[q]
    BY <1>1, <1>11 DEF Waits
  <2>2. InHand(p)' = {u}
    BY <1>2, <1>6, <1>7, <2>1 DEF InHand
  <2>3. \A w \in Ticks \ {p} : InHand(w)' = InHand(w)
    BY <2>1, InHandSame DEF Procs
  <2>4. OnceHeld' /\ Held(u)' /\ \A x \in Uploads \ {u} : Held(x)' <=> Held(x)
    BY <1>1, <1>2, <1>9, <1>10, <2>2, <2>3, HandFilled
  <2>5. \A x \in Uploads : Own(x)' <=> Own(x)
    BY <1>2, <2>1 DEF Own, Procs
  <2>6. Moves(u)
    BY <1>1, <1>8, <1>9, <2>4, <2>5 DEF Moves, Pending, InOnePlace
  <2>7. \A x \in Uploads \ {u} : Same(x)
    BY <1>1, <1>8, <2>4, <2>5 DEF Same
  <2>8. Once'
    BY <1>1, <2>1 DEF Once
  <2> QED BY <1>8, <2>4, <2>6, <2>7, <2>8 DEF Effect, OneChange, Settling, Apart
<1>12. ASSUME NEW st \in Outcomes(p) \ {"ok"}, cmd' = [cmd EXCEPT ![p].st = st]
       PROVE  Effect /\ Apart
  <2>1. st = "error" /\ "redis" \in Faults
    BY <1>12, Answers
  <2>2. Once' /\ cmd'[p].st = "error"
    BY <1>1, <1>12, <2>1, AnswerOnce
  <2>3. /\ \A q \in Procs \ {p} : cmd'[q] = cmd[q]
        /\ \A w \in Ticks \ {p} : InHand(w)' = InHand(w)
    BY <1>1, <1>12, AnswerFrame
  <2>4. InHand(p)' = {}
    BY <1>2, <2>2 DEF InHand
  <2>5. OnceHeld' /\ \A x \in Uploads : Held(x)' <=> Held(x)
    BY <1>1, <1>10, <2>3, <2>4, HandsSame
  <2>6. \A x \in Uploads : Own(x)' <=> Own(x)
    BY <1>2, <2>3 DEF Own, Procs
  <2>7. Loses(u)
    BY <1>1, <1>8, <1>9, <2>1, <2>5, <2>6 DEF Loses, Goes, Gone, Pending
  <2>8. \A x \in Uploads \ {u} : Same(x)
    BY <1>1, <1>8, <2>5, <2>6 DEF Same
  <2> QED BY <1>8, <2>2, <2>5, <2>7, <2>8 DEF Effect, OneChange, Settling, Apart
<1> QED BY <1>3, <1>4, <1>11, <1>12 DEF RedisPop

\* A reply that says nothing of an upload.
LEMMA EmptyAnswer ==
    ASSUME ControlInv, PlacesInv, NEW p \in Ticks, tick[p].pc = "popping",
           cmd[p].st = "sent", cmd[p].op = "pop",
           NEW st \in {"ok", "error"}, cmd' = [cmd EXCEPT ![p].st = st],
           UNCHANGED <<queue, dead, docs, client, tick>>
    PROVE  Effect /\ Apart
<1>1. Waits /\ Once /\ OnceHeld /\ OnceListed /\ p \in Procs /\ p \notin Uploads
  BY ControlParts, UploadsAssumption DEF PlacesInv, Procs
<1>2. cmd[p].item = NoItem
  BY <1>1 DEF Once
<1>3. Once' /\ cmd'[p].item = NoItem
  BY <1>1, <1>2, AnswerOnce
<1>4. /\ \A q \in Procs \ {p} : cmd'[q] = cmd[q]
      /\ \A w \in Ticks \ {p} : InHand(w)' = InHand(w)
  BY <1>1, AnswerFrame
<1>5. InHand(p) = {} /\ InHand(p)' = {}
  BY <1>2, <1>3 DEF InHand
<1>6. OnceHeld' /\ \A x \in Uploads : Held(x)' <=> Held(x)
  BY <1>1, <1>4, <1>5, HandsSame
<1>7. OnceListed' /\ \A x \in Uploads : Listed(x)' <=> Listed(x)
  BY <1>1, ListsSame
<1>8. \A x \in Uploads : Own(x)' <=> Own(x)
  BY <1>1, <1>4 DEF Own, Procs
<1>9. \A x \in Uploads : Same(x)
  BY <1>6, <1>7, <1>8 DEF Same
<1> QED BY <1>3, <1>6, <1>7, <1>9 DEF Effect, Apart

LEMMA PopEmptySame ==
    ASSUME ControlInv, PlacesInv, "resend" \notin Faults, NEW p \in Procs,
           cmd[p].st \in {"sent", "again"}, RedisPopEmpty(p),
           UNCHANGED <<audited, staged, docs, client, tick>>
    PROVE  Effect /\ Apart
<1>1. cmd[p].op = "pop" /\ cmd[p].st = "sent" /\ p \in Ticks /\ tick[p].pc = "popping"
  BY ControlParts, WhoWaits DEF RedisPopEmpty, PlacesInv, Once
<1>2. PICK st \in {"ok", "error"} : cmd' = [cmd EXCEPT ![p].st = st]
  BY Answers DEF RedisPopEmpty
<1>3. UNCHANGED <<queue, dead, docs, client, tick>>
  BY DEF RedisPopEmpty
<1> QED BY <1>1, <1>2, <1>3, EmptyAnswer

\* A command that is refused takes with it the upload it carries.
LEMMA RefusedLoses ==
    ASSUME ControlInv, PlacesInv, NEW p \in Procs, RedisRefuse(p)
    PROVE  Effect /\ Apart
<1>1. Waits /\ Data /\ cmd[p].st = "sent" /\ Once /\ OnceHeld /\ OnceListed
      /\ UNCHANGED <<queue, dead, docs, client, tick>>
  BY ControlParts DEF RedisRefuse, PlacesInv, Once
<1>2. cmd' = [cmd EXCEPT ![p].st = "error"] /\ Faults \cap {"crash", "redis"} # {}
  BY DEF RedisRefuse
<1>3. Once' /\ cmd'[p].st = "error"
  BY <1>1, <1>2, AnswerOnce
<1>4. /\ \A q \in Procs \ {p} : cmd'[q] = cmd[q]
      /\ \A w \in Ticks \ {p} : InHand(w)' = InHand(w)
  BY <1>1, <1>2, AnswerFrame
<1>5. OnceListed' /\ \A x \in Uploads : Listed(x)' <=> Listed(x)
  BY <1>1, ListsSame
<1>6. cmd[p] \in Cmd /\ CmdInv(cmd[p]) /\ cmd[p].op \in {"push", "pop", "bury"}
  BY <1>1 DEF Waits, CmdInv, Cmd
<1>7. CASE p \in Uploads
  <2>1. cmd[p].op = "push" /\ client[p] = "waiting" /\ p \notin Ticks
    BY <1>1, <1>6, <1>7, UploadsAssumption DEF Waits, ClientInv
  <2>2. Own(p) /\ ~Own(p)' /\ \A x \in Uploads \ {p} : Own(x)' <=> Own(x)
    BY <1>1, <1>3, <1>4, <2>1 DEF Own, Procs
  <2>3. Pending(p) /\ ~Listed(p) /\ ~Held(p)
    BY <1>7, <2>2, OneOf
  <2>4. OnceHeld' /\ \A x \in Uploads : Held(x)' <=> Held(x)
    BY <1>1, <1>4, <2>1, HandsSame
  <2>5. Loses(p)
    BY <1>1, <1>2, <1>5, <1>7, <2>1, <2>2, <2>3, <2>4 DEF Loses, Goes, Gone, Pending
  <2>6. \A x \in Uploads \ {p} : Same(x)
    BY <1>1, <1>5, <2>2, <2>4 DEF Same
  <2> QED BY <1>3, <1>5, <1>7, <2>4, <2>5, <2>6 DEF Effect, OneChange, Settling, Apart
<1>8. CASE p \in Ticks /\ cmd[p].op = "pop"
  <2>1. tick[p].pc = "popping"
    BY <1>1, <1>8, WhoWaits
  <2> QED BY <1>1, <1>2, <1>8, <2>1, EmptyAnswer
<1>9. CASE p \in Ticks /\ cmd[p].op \in {"push", "bury"}
  <2>1. tick[p].pc \in {"requeueing", "burying"} /\ p \notin Uploads
    BY <1>1, <1>9, WhoWaits, UploadsAssumption
  <2>2. cmd[p].item.upload \in Uploads
    BY <1>6, <1>9 DEF CmdInv, Item, Retryable
  <2>3. PICK u \in Uploads : u = cmd[p].item.upload
    BY <2>2
  <2>4. InHand(p) = {u} /\ InHand(p)' = {}
    BY <1>1, <1>3, <2>1, <2>3 DEF InHand
  <2>5. Pending(u) /\ ~Listed(u) /\ ~Own(u)
    BY <1>9, <2>4, OneOf DEF Held
  <2>6. OnceHeld' /\ ~Held(u)' /\ \A x \in Uploads \ {u} : Held(x)' <=> Held(x)
    BY <1>1, <1>4, <1>9, <2>4, HandEmptied
  <2>7. \A x \in Uploads : Own(x)' <=> Own(x)
    BY <1>4, <2>1 DEF Own, Procs
  <2>8. Loses(u)
    BY <1>1, <1>2, <1>5, <2>5, <2>6, <2>7 DEF Loses, Goes, Gone, Pending
  <2>9. \A x \in Uploads \ {u} : Same(x)
    BY <1>1, <1>5, <2>6, <2>7 DEF Same
  <2> QED BY <1>3, <1>5, <2>6, <2>8, <2>9 DEF Effect, OneChange, Settling, Apart
<1> QED BY <1>6, <1>7, <1>8, <1>9 DEF Procs

LEMMA RedisEffect ==
    ASSUME ControlInv, PlacesInv, "resend" \notin Faults, NEW p \in Procs, RedisStep(p)
    PROVE  Effect /\ Apart
<1>1. CASE RedisExecute(p)
  BY <1>1, PushMoves, BuryEnds, PopTakes, PopEmptySame DEF RedisExecute
<1>2. CASE RedisRefuse(p)
  BY <1>2, RefusedLoses
<1> QED BY <1>1, <1>2 DEF RedisStep

\* A tick that holds nothing goes on holding nothing.
LEMMA IdleSame ==
    ASSUME ControlInv, PlacesInv, NEW w \in Ticks, InHand(w) = {},
           UNCHANGED <<queue, dead, docs, client>>,
           NEW k, NEW c, tick' = [tick EXCEPT ![w] = k], cmd' = [cmd EXCEPT ![w] = c],
           k.pc \in {"popping", "off"}, c.item = NoItem, c.st # "again"
    PROVE  Effect /\ Apart
<1>1. Waits /\ Once /\ OnceHeld /\ OnceListed
  BY ControlParts DEF PlacesInv
<1>2. /\ tick'[w] = k /\ cmd'[w] = c
      /\ \A v \in Ticks \ {w} : tick'[v] = tick[v] /\ cmd'[v] = cmd[v]
      /\ \A u \in Uploads : cmd'[u] = cmd[u]
  BY <1>1, TickFrame
<1>3. InHand(w)' = {}
  BY <1>2 DEF InHand
<1>4. \A v \in Ticks : InHand(v)' = InHand(v)
  BY <1>2, <1>3, InHandSame
<1>5. OnceHeld' /\ \A x \in Uploads : Held(x)' <=> Held(x)
  BY <1>1, <1>4, HandsSame
<1>6. OnceListed' /\ \A x \in Uploads : Listed(x)' <=> Listed(x)
  BY <1>1, ListsSame
<1>7. \A x \in Uploads : Same(x)
  BY <1>2, <1>5, <1>6 DEF Same, Own
<1>8. Once'
  BY <1>1, <1>2 DEF Once, Procs
<1> QED BY <1>5, <1>6, <1>7, <1>8 DEF Effect, Apart

LEMMA TickSame ==
    ASSUME ControlInv, PlacesInv, NEW w \in Ticks,
           \/ TimerFires(w) \/ PoppedNothing(w) \/ DedupChecked(w)
           \/ Requeued(w) \/ Buried(w) \/ DrainThrows(w)
    PROVE  Effect /\ Apart
<1>1. InHand(w) = {}
  BY DEF InHand, TimerFires, PoppedNothing, DedupChecked, Requeued, Buried, DrainThrows
<1>2. UNCHANGED <<queue, dead, docs, client>>
  BY DEF TimerFires, PoppedNothing, DedupChecked, Requeued, Buried, DrainThrows
<1>3. ASSUME NEW at, NEW kept, Pop(w, at, kept)
      PROVE  Effect /\ Apart
  <2>1. PICK k, c : /\ k = [pc |-> "popping", at |-> at, item |-> kept]
                    /\ c = [op |-> "pop", tenant |-> Served[at], item |-> NoItem, st |-> "sent"]
                    /\ tick' = [tick EXCEPT ![w] = k] /\ cmd' = [cmd EXCEPT ![w] = c]
    BY <1>3 DEF Pop, Send
  <2>2. k.pc = "popping" /\ c.item = NoItem /\ c.st = "sent"
    BY <2>1
  <2> QED BY <1>1, <1>2, <2>1, <2>2, IdleSame
<1>4. CASE tick' = [tick EXCEPT ![w] = Off] /\ cmd' = [cmd EXCEPT ![w] = NoCmd]
  <2>1. Off.pc = "off" /\ NoCmd.item = NoItem /\ NoCmd.st # "again"
    BY DEF Off, NoCmd
  <2> QED BY <1>1, <1>2, <1>4, <2>1, IdleSame
<1>5. NextTenant(w) \/ \E at, kept : Pop(w, at, kept)
  BY DEF TimerFires, PoppedNothing, DedupChecked, Requeued, Buried, DrainThrows
<1> QED BY <1>3, <1>4, <1>5 DEF NextTenant

\* A replay: a document, or the item stays in the hands of the tick.
LEMMA ReplayEffect ==
    ASSUME ControlInv, PlacesInv, NEW w \in Ticks, Popped(w)
    PROVE  Effect /\ Apart
<1>1. Waits /\ Data /\ Once /\ OnceHeld /\ OnceListed /\ UNCHANGED <<queue, dead, client>>
  BY ControlParts DEF Popped, PlacesInv
<1>2. cmd[w].item \in Retryable /\ tick[w].pc = "popping" /\ cmd[w].st = "ok"
  BY <1>1 DEF Waits, TickInv, CmdInv, Popped, Procs
<1>3. PICK it \in Retryable : it = cmd[w].item
  BY <1>2
<1>4. PICK u \in Uploads : u = it.upload
  BY DEF Retryable
<1>5. Replay(w, it) /\ InHand(w) = {u}
  BY <1>2, <1>3, <1>4 DEF Popped, InHand
<1>6. Pending(u) /\ ~Listed(u) /\ ~Own(u)
  BY <1>5, OneOf DEF Held
<1>7. OnceListed' /\ \A x \in Uploads : Listed(x)' <=> Listed(x)
  BY <1>1, ListsSame
<1>8. CASE docs' = docs /\ AfterFailure(w, it)
  <2>10. PICK pc : pc = IF Retried(it).retries >= MaxRetries THEN "burying" ELSE "requeueing"
    OBVIOUS
  <2>11. PICK op : op = IF Retried(it).retries >= MaxRetries THEN "bury" ELSE "push"
    OBVIOUS
  <2>12. PICK k : k = [pc |-> pc, at |-> tick[w].at, item |-> Retried(it)]
    OBVIOUS
  <2>13. PICK c : c = [op |-> op, tenant |-> Served[tick[w].at],
                       item |-> Retried(it), st |-> "sent"]
    OBVIOUS
  <2>14. tick' = [tick EXCEPT ![w] = k] /\ cmd' = [cmd EXCEPT ![w] = c]
    BY <1>8, <2>10, <2>11, <2>12, <2>13 DEF AfterFailure, Send
  <2>15. k.pc \in {"requeueing", "burying"} /\ c.item = Retried(it) /\ c.st = "sent"
         /\ c.op \in {"push", "bury"}
    BY <2>10, <2>11, <2>12, <2>13
  <2>1. /\ k.pc \in {"requeueing", "burying"} /\ c.item = Retried(it) /\ c.st = "sent"
        /\ c.op \in {"push", "bury"} /\ tick' = [tick EXCEPT ![w] = k] /\ cmd' = [cmd EXCEPT ![w] = c]
    BY <2>14, <2>15
  <2>2. /\ tick'[w] = k /\ cmd'[w] = c
        /\ \A v \in Ticks \ {w} : tick'[v] = tick[v] /\ cmd'[v] = cmd[v]
        /\ \A x \in Uploads : cmd'[x] = cmd[x]
    BY <1>1, <2>1, TickFrame
  <2>3. InHand(w)' = {u}
    BY <1>4, <2>1, <2>2, RetriedItem DEF InHand
  <2>4. \A v \in Ticks : InHand(v)' = InHand(v)
    BY <1>5, <2>2, <2>3, InHandSame
  <2>5. OnceHeld' /\ \A x \in Uploads : Held(x)' <=> Held(x)
    BY <1>1, <2>4, HandsSame
  <2>6. \A x \in Uploads : Same(x)
    BY <1>1, <1>7, <1>8, <2>2, <2>5 DEF Same, Own
  <2>7. Once'
    BY <1>1, <2>1, <2>2 DEF Once, Procs
  <2> QED BY <1>7, <2>5, <2>6, <2>7 DEF Effect, Apart
<1>9. CASE /\ staged[PathOf[u]] # NoUpload
           /\ docs' = [docs EXCEPT ![u] = Append(@, staged[PathOf[u]])]
           /\ tick' = [tick EXCEPT ![w] = [pc |-> "checking", at |-> tick[w].at, item |-> NoItem]]
           /\ cmd'  = [cmd EXCEPT ![w] = NoCmd]
  <2>1. /\ tick'[w].pc = "checking" /\ cmd'[w] = NoCmd
        /\ \A v \in Ticks \ {w} : tick'[v] = tick[v] /\ cmd'[v] = cmd[v]
        /\ \A x \in Uploads : cmd'[x] = cmd[x]
    <3>1. PICK k : k = [pc |-> "checking", at |-> tick[w].at, item |-> NoItem]
      OBVIOUS
    <3>2. k.pc = "checking" /\ tick' = [tick EXCEPT ![w] = k]
      BY <1>9, <3>1
    <3>3. cmd' = [cmd EXCEPT ![w] = NoCmd]
      BY <1>9
    <3>4. /\ tick'[w] = k /\ cmd'[w] = NoCmd
          /\ \A v \in Ticks \ {w} : tick'[v] = tick[v] /\ cmd'[v] = cmd[v]
          /\ \A x \in Uploads : cmd'[x] = cmd[x]
      BY <1>1, <3>2, <3>3, TickFrame
    <3> QED BY <3>2, <3>4
  <2>2. docs'[u] # <<>> /\ \A x \in Uploads \ {u} : docs'[x] = docs[x]
    <3>1. docs[u] \in Seq(Uploads) /\ staged[PathOf[u]] \in Uploads
      BY <1>1, <1>9, UploadsAssumption DEF Data
    <3>2. docs'[u] = Append(docs[u], staged[PathOf[u]])
      BY <1>1, <1>9 DEF Data
    <3>3. docs'[u] # <<>>
      BY <3>1, <3>2
    <3> QED BY <1>1, <1>9, <3>3 DEF Data
  <2>3. InHand(w)' = {} /\ \A v \in Ticks \ {w} : InHand(v)' = InHand(v)
    BY <2>1, InHandSame DEF InHand
  <2>4. OnceHeld' /\ ~Held(u)' /\ \A x \in Uploads \ {u} : Held(x)' <=> Held(x)
    BY <1>1, <1>5, <2>3, HandEmptied
  <2>5. \A x \in Uploads : Own(x)' <=> Own(x)
    BY <2>1 DEF Own
  <2>6. Stores(u)
    BY <1>1, <1>6, <1>7, <2>2, <2>4, <2>5 DEF Stores, Goes, Gone, Pending
  <2>7. \A x \in Uploads \ {u} : Same(x)
    BY <1>1, <1>7, <2>2, <2>4, <2>5 DEF Same
  <2>8. Once'
    BY <1>1, <2>1, NoCmdTyped DEF Once, Procs
  <2> QED BY <1>7, <2>4, <2>6, <2>7, <2>8 DEF Effect, OneChange, Settling, Apart
<1> QED BY <1>4, <1>5, <1>8, <1>9 DEF Replay

\* A crash takes what is on its way to Redis or from it.
LEMMA CrashLoses ==
    ASSUME ControlInv, PlacesInv, Durable, Crash
    PROVE  Effect /\ Apart
<1>1. Waits /\ Data /\ OnceListed
  BY ControlParts DEF PlacesInv
<1>2. UNCHANGED <<queue, dead, docs>> /\ Faults \cap {"crash", "redis"} # {}
  BY DEF Crash
<1>3. /\ \A w \in Ticks : tick'[w] = Off
      /\ \A p \in Procs : cmd'[p] = NoCmd
      /\ \A u \in Uploads : client'[u] = "new" <=> client[u] = "new"
  BY DEF Crash, Procs
<1>4. \A w \in Ticks : InHand(w)' = {}
  BY <1>3, OffTyped DEF InHand
<1>5. \A u \in Uploads : ~Held(u)' /\ ~Own(u)'
  BY <1>3, <1>4, NoCmdTyped DEF Held, Own, Procs
<1>6. OnceListed' /\ \A x \in Uploads : Listed(x)' <=> Listed(x)
  BY <1>1, <1>2, ListsSame
<1>7. ASSUME NEW u \in Uploads
      PROVE  Same(u) \/ Loses(u)
  <2>1. CASE Held(u) \/ Own(u)
    <3>1. Pending(u) /\ ~Listed(u)
      BY <2>1, OneOf
    <3> QED BY <1>2, <1>3, <1>5, <1>6, <3>1 DEF Loses, Goes, Gone, Pending
  <2>2. CASE ~Held(u) /\ ~Own(u)
    BY <1>2, <1>3, <1>5, <1>6, <2>2 DEF Same
  <2> QED BY <2>1, <2>2
<1>8. Apart
  BY <1>3, <1>4, <1>6, NoCmdTyped DEF Apart, OnceHeld, Once
<1> QED BY <1>7, <1>8 DEF Effect

LEMMA NextEffect ==
    ASSUME ControlInv, PlacesInv, Durable, "resend" \notin Faults, [Next]_vars
    PROVE  Effect /\ Apart
<1>1. CASE Next
  <2>1. ASSUME NEW u \in Uploads, Receive(u) \/ Respond(u)
        PROVE  Effect /\ Apart
    BY <2>1, TakenIn, RespondedSame
  <2>2. ASSUME NEW w \in Ticks, TimerFires(w) \/ TickStep(w)
        PROVE  Effect /\ Apart
    BY <2>2, TickSame, ReplayEffect DEF TickStep
  <2>3. ASSUME NEW p \in Procs, RedisStep(p)
        PROVE  Effect /\ Apart
    BY <2>3, RedisEffect
  <2>4. CASE Crash
    BY <2>4, CrashLoses
  <2> QED BY <1>1, <2>1, <2>2, <2>3, <2>4 DEF Next, Procs
<1>2. CASE UNCHANGED vars
  <2>1. \A x \in Uploads : Same(x)
    BY <1>2 DEF vars, Same, Listed, Held, Own, InHand
  <2>2. Apart
    BY <1>2 DEF vars, Apart, PlacesInv, OnceListed, OnceHeld, Once, InHand
  <2> QED BY <2>1, <2>2 DEF Effect
<1> QED BY <1>1, <1>2

LEMMA InitPlaces == Init => PlacesInv
<1> SUFFICES ASSUME Init PROVE PlacesInv
  OBVIOUS
<1>1. \A p \in Procs : cmd[p] = NoCmd
  BY DEF Init, Procs
<1>2. \A w \in Ticks : InHand(w) = {}
  BY OffTyped DEF Init, InHand
<1>3. \A t \in Tenants : DOMAIN queue[t] = {}
  BY DEF Init
<1>4. \A u \in Uploads : Over(u)
  BY <1>1, <1>2, <1>3, NoCmdTyped DEF Init, Over, Gone, Listed, Held, Own, Procs
<1> QED BY <1>1, <1>2, <1>3, <1>4, NoCmdTyped DEF PlacesInv, OnceListed, OnceHeld, Once

\* What an upload comes to, by where it is.
LEMMA FateOfPending ==
    ASSUME NEW u \in Uploads
    PROVE  /\ Pending(u) => Fate(u) = "pending"
           /\ Pending(u)' => Fate(u)' = "pending"
BY DEF Pending, InOnePlace, Fate, Held, Own

LEMMA FateOfNew == ASSUME NEW u \in Uploads, client[u] = "new", Over(u) PROVE Fate(u) = "new"
BY DEF Over, Fate

LEMMA FateOfGone ==
    ASSUME Data', NEW u \in Uploads, Goes(u)
    PROVE  /\ Stores(u) => Fate(u)' = "stored"
           /\ Buries(u) => Fate(u)' = "dead"
           /\ Loses(u) => Fate(u)' = "lost"
BY DEF Goes, Gone, Stores, Buries, Loses, Fate, Held, Own

LEMMA FateSame == ASSUME NEW u \in Uploads, Same(u) PROVE Fate(u)' = Fate(u)
BY DEF Same, Fate, Held, Own

Fates == [u \in Uploads |-> Fate(u)]

\* Every effect is a step of the delivery, or none.
LEMMA EffectDelivers ==
    ASSUME Data', Effect
    PROVE  [UD!DeliveryNext]_Fates
<1>1. CASE \E u \in Uploads : OneChange(u)
  <2>1. PICK u \in Uploads : OneChange(u)
    BY <1>1
  <2>2. \A x \in Uploads \ {u} : Fate(x)' = Fate(x)
    BY <2>1, FateSame DEF OneChange
  <2>3. Fates' = [Fates EXCEPT ![u] = Fate(u)']
    BY <2>2 DEF Fates
  <2>4. Fates[u] = Fate(u)
    BY DEF Fates
  <2>5. CASE Takes(u)
    <3>1. Fate(u) = "new" /\ Fate(u)' = "pending"
      BY <2>5, FateOfNew, FateOfPending DEF Takes
    <3> QED BY <2>3, <2>4, <3>1 DEF Fates, UD!DeliveryNext, UD!Take, UD!Becomes
  <2>6. CASE Moves(u)
    <3>1. Fate(u) = "pending" /\ Fate(u)' = "pending"
      BY <2>6, FateOfPending DEF Moves
    <3> QED BY <2>2, <3>1 DEF Fates
  <2>7. CASE Stores(u)
    <3>1. Fate(u) = "pending" /\ Fate(u)' = "stored"
      BY <2>7, FateOfPending, FateOfGone DEF Stores, Goes
    <3> QED BY <2>3, <2>4, <3>1 DEF Fates, UD!DeliveryNext, UD!Store, UD!Becomes
  <2>8. CASE Buries(u)
    <3>1. Fate(u) = "pending" /\ Fate(u)' = "dead"
      BY <2>8, FateOfPending, FateOfGone DEF Buries, Goes
    <3> QED BY <2>3, <2>4, <3>1 DEF Fates, UD!DeliveryNext, UD!GiveUp, UD!Becomes
  <2>9. CASE Loses(u)
    <3>1. Fate(u) = "pending" /\ Fate(u)' = "lost"
      BY <2>9, FateOfPending, FateOfGone DEF Loses, Goes
    <3>2. Faults \cap {"crash", "redis"} # {}
      BY <2>9 DEF Loses
    <3>3. {u} \in SUBSET {x \in Uploads : Fates[x] = "pending"}
      BY <2>4, <3>1
    <3>4. Fates' = [x \in Uploads |-> IF x \in {u} THEN "lost" ELSE Fates[x]]
      BY <2>2, <3>1 DEF Fates
    <3>5. UD!Lose
      BY <3>2, <3>3, <3>4 DEF UD!Lose, Fates
    <3> QED BY <3>5 DEF UD!DeliveryNext
  <2> QED BY <2>1, <2>5, <2>6, <2>7, <2>8, <2>9 DEF OneChange, Settling
<1>2. CASE \A x \in Uploads : Same(x) \/ Loses(x)
  <2>1. PICK S : S = {x \in Uploads : Loses(x)}
    OBVIOUS
  <2>2. \A x \in S : x \in Uploads /\ Fate(x) = "pending" /\ Fate(x)' = "lost"
    BY <2>1, FateOfPending, FateOfGone DEF Loses, Goes
  <2>3. \A x \in Uploads \ S : Fate(x)' = Fate(x)
    BY <1>2, <2>1, FateSame
  <2>4. CASE S = {}
    BY <2>3, <2>4 DEF Fates
  <2>5. CASE S # {}
    <3>1. Faults \cap {"crash", "redis"} # {}
      BY <2>1, <2>5 DEF Loses
    <3>2. S \in SUBSET {x \in Uploads : Fates[x] = "pending"}
      BY <2>2 DEF Fates
    <3>3. Fates' = [x \in Uploads |-> IF x \in S THEN "lost" ELSE Fates[x]]
      BY <2>2, <2>3 DEF Fates
    <3>4. UD!Lose
      BY <3>1, <3>2, <3>3 DEF UD!Lose, Fates
    <3> QED BY <3>4 DEF UD!DeliveryNext
  <2> QED BY <2>4, <2>5
<1> QED BY <1>1, <1>2 DEF Effect

\* With Redis, and when no command is repeated, the queue implements the
\* delivery of uploads, for any uploads, ticks, tenants and retries: an upload
\* taken in has one outcome, which nothing revises, and only a crash or a
\* failure of Redis loses it.
THEOREM UploadsDelivered ==
    ASSUME Durable, "resend" \notin Faults
    PROVE  Spec => ImplementsDelivery
<1>1. Init => ControlInv /\ PlacesInv
  BY InitControl, InitPlaces
<1>2. ControlInv /\ PlacesInv /\ [Next]_vars => (ControlInv /\ PlacesInv)'
  BY NextControl, NextEffect, EffectKeeps
<1>3. Init => UD!DeliveryInit
  <2> SUFFICES ASSUME Init PROVE UD!DeliveryInit
    OBVIOUS
  <2>1. \A u \in Uploads : client[u] = "new" /\ docs[u] = <<>> /\ dead[u] = 0
    BY DEF Init
  <2>2. \A u \in Uploads : Fate(u) = "new"
    BY <2>1 DEF Fate
  <2> QED BY <2>2 DEF UD!DeliveryInit
<1>4. ControlInv /\ PlacesInv /\ [Next]_vars /\ ControlInv' => [UD!DeliveryNext]_Fates
  BY NextEffect, EffectDelivers, ControlPartsNext, ControlParts DEF ControlInv, OfflineTypeOK, Data
<1>5. [UD!DeliveryNext]_Fates => [UD!DeliveryNext]_[u \in Uploads |-> Fate(u)]
  BY DEF Fates
<1> QED BY <1>1, <1>2, <1>3, <1>4, <1>5, PTL DEF Spec, ImplementsDelivery, UD!DeliverySpec
=============================================================================
