---------------------------- MODULE OfflineQueue ----------------------------
(***************************************************************************)
(* Uploads queued on the server and replayed in the background:            *)
(* routes/spa-api/offline.js takes an upload in, services/offline-queue.js *)
(* keeps it in a list per tenant, services/offline-sync.js drains the      *)
(* lists.  setInterval starts a tick every 15 s whether or not the one     *)
(* before has ended, so ticks overlap at every await.  Between two awaits  *)
(* a tick is one step.                                                     *)
(*                                                                         *)
(* A Redis command has two steps, its execution by the server and the turn *)
(* in which Node sees the reply.  enqueue is LPUSH and then LLEN: LLEN     *)
(* reads only, so a failure of it is a push that took place and is         *)
(* reported as an error.  The in-process fallback runs the same code with  *)
(* commands that never fail and a list that dies with the process.         *)
(***************************************************************************)
EXTENDS Naturals, Sequences, FiniteSets

CONSTANTS
    Uploads, NoUpload,
    Tenants, TenantOf,   \* tenantScope of the request that brought the upload
    Served,              \* TENANTS, in the order of the loop
    Paths, PathOf,       \* multer's name of the staged file, `<ms>-<original name>`
    Malformed,           \* uploads whose metadata_json does not parse
    Ticks,               \* bound on the ticks that overlap
    MaxRetries,          \* MAX_RETRIES
    Durable,             \* TRUE: Redis; FALSE: the in-process fallback
    Faults               \* which of FaultKinds occur

VARIABLES
    queue,     \* pending items per tenant, the oldest first
    dead,      \* copies of each upload in the dead-letter list
    audited,   \* OFFLINE_SYNC_DEAD_LETTER rows of each upload
    staged,    \* uploads/offline-tmp: whose bytes each path holds
    docs,      \* documents rows of each upload, as the bytes of their file
    client,    \* new | waiting | accepted | error: the request of the upload
    tick,      \* what each tick is doing
    cmd,       \* the Redis command each request or tick has outstanding
    dropped    \* history: uploads a fault took out of the queue's keeping

vars == <<queue, dead, audited, staged, docs, client, tick, cmd, dropped>>

\* crash: the Node process dies.  redis: a command is reported as failed,
\* executed or not.  resend: ioredis repeats a command whose reply it lost
\* (autoResendUnfulfilledCommands).  db, fs: an INSERT or a rename throws.
FaultKinds == {"crash", "redis", "resend", "db", "fs"}

Item   == [upload : Uploads, retries : 0..MaxRetries]
NoItem == [upload |-> NoUpload, retries |-> 0]
NoCmd  == [op |-> "none", tenant |-> Served[1], item |-> NoItem, st |-> "none"]
Off    == [pc |-> "off", at |-> 0, item |-> NoItem]

ASSUME UploadsAssumption ==
    /\ NoUpload \notin Uploads
    /\ Uploads \cap Ticks = {}
    /\ TenantOf \in [Uploads -> Tenants]
    /\ PathOf \in [Uploads -> Paths]
    /\ Malformed \subseteq Uploads

ASSUME ServedAssumption ==
    /\ Served \in Seq(Tenants)
    /\ Served # <<>>

ASSUME LimitsAssumption ==
    /\ MaxRetries \in Nat \ {0}
    /\ Durable \in BOOLEAN
    /\ Faults \subseteq FaultKinds

Init ==
    /\ queue   = [t \in Tenants |-> <<>>]
    /\ dead    = [u \in Uploads |-> 0]
    /\ audited = [u \in Uploads |-> 0]
    /\ staged  = [p \in Paths |-> NoUpload]
    /\ docs    = [u \in Uploads |-> <<>>]
    /\ client  = [u \in Uploads |-> "new"]
    /\ tick    = [w \in Ticks |-> Off]
    /\ cmd     = [p \in Uploads \cup Ticks |-> NoCmd]
    /\ dropped = {}

Send(p, op, t, it) ==
    cmd' = [cmd EXCEPT ![p] = [op |-> op, tenant |-> t, item |-> it, st |-> "sent"]]

-----------------------------------------------------------------------------
(* POST /offline/enqueue.                                                  *)

\* multer has written the file; a name in use is overwritten.
Receive(u) ==
    /\ client[u] = "new"
    /\ client' = [client EXCEPT ![u] = "waiting"]
    /\ staged' = [staged EXCEPT ![PathOf[u]] = u]
    /\ Send(u, "push", TenantOf[u], [upload |-> u, retries |-> 0])
    /\ UNCHANGED <<queue, dead, audited, docs, tick, dropped>>

\* { queued: true }, or a 500 that leaves the staged file behind.
Respond(u) ==
    /\ client[u] = "waiting"
    /\ cmd[u].st \in {"ok", "error"}
    /\ client' = [client EXCEPT ![u] = IF cmd[u].st = "ok" THEN "accepted" ELSE "error"]
    /\ cmd' = [cmd EXCEPT ![u] = NoCmd]
    /\ UNCHANGED <<queue, dead, audited, staged, docs, tick, dropped>>

-----------------------------------------------------------------------------
(* Redis.                                                                  *)

\* What the caller learns of a command that was executed.
Outcomes(p) ==
    {"ok"} \cup (IF "redis" \in Faults THEN {"error"} ELSE {})
           \cup (IF "resend" \in Faults /\ cmd[p].st = "sent" THEN {"again"} ELSE {})

RedisPush(p) ==
    /\ cmd[p].op = "push"
    /\ queue' = [queue EXCEPT ![cmd[p].tenant] = Append(@, cmd[p].item)]
    /\ \E st \in Outcomes(p) : cmd' = [cmd EXCEPT ![p].st = st]
    /\ UNCHANGED <<dead, dropped>>

RedisBury(p) ==
    /\ cmd[p].op = "bury"
    /\ dead' = [dead EXCEPT ![cmd[p].item.upload] = @ + 1]
    /\ \E st \in Outcomes(p) : cmd' = [cmd EXCEPT ![p].st = st]
    /\ UNCHANGED <<queue, dropped>>

\* An item whose reply does not arrive is in nobody's hands.
RedisPop(p) ==
    LET q == queue[cmd[p].tenant]
    IN  /\ cmd[p].op = "pop"
        /\ q # <<>>
        /\ queue' = [queue EXCEPT ![cmd[p].tenant] = Tail(q)]
        /\ \/ /\ cmd' = [cmd EXCEPT ![p] = [op |-> "pop", tenant |-> cmd[p].tenant,
                                           item |-> Head(q), st |-> "ok"]]
              /\ UNCHANGED dropped
           \/ \E st \in Outcomes(p) \ {"ok"} :
                 /\ cmd' = [cmd EXCEPT ![p].st = st]
                 /\ dropped' = dropped \cup {Head(q).upload}
        /\ UNCHANGED dead

RedisPopEmpty(p) ==
    /\ cmd[p].op = "pop"
    /\ queue[cmd[p].tenant] = <<>>
    /\ \E st \in Outcomes(p) : cmd' = [cmd EXCEPT ![p].st = st]
    /\ UNCHANGED <<queue, dead, dropped>>

RedisExecute(p) ==
    /\ cmd[p].st \in {"sent", "again"}
    /\ RedisPush(p) \/ RedisBury(p) \/ RedisPop(p) \/ RedisPopEmpty(p)
    /\ UNCHANGED <<audited, staged, docs, client, tick>>

\* Not executed (or not once more), and reported as failed: what a tick was
\* putting back is lost with it.
RedisRefuse(p) ==
    /\ "redis" \in Faults
    /\ cmd[p].st \in {"sent", "again"}
    /\ cmd' = [cmd EXCEPT ![p].st = "error"]
    /\ dropped' = IF p \in Ticks /\ cmd[p].st = "sent" /\ cmd[p].op \in {"push", "bury"}
                  THEN dropped \cup {cmd[p].item.upload} ELSE dropped
    /\ UNCHANGED <<queue, dead, audited, staged, docs, client, tick>>

-----------------------------------------------------------------------------
(* The worker: tick and drainTenant.                                       *)

Pop(w, at, kept) ==
    /\ tick' = [tick EXCEPT ![w] = [pc |-> "popping", at |-> at, item |-> kept]]
    /\ Send(w, "pop", Served[at], NoItem)

\* A tenant is done, or its drain threw and tick logged the error.
NextTenant(w) ==
    \/ tick[w].at < Len(Served) /\ Pop(w, tick[w].at + 1, NoItem)
    \/ /\ tick[w].at = Len(Served)
       /\ tick' = [tick EXCEPT ![w] = Off]
       /\ cmd' = [cmd EXCEPT ![w] = NoCmd]

TimerFires(w) ==
    /\ tick[w].pc = "off"
    /\ Pop(w, 1, NoItem)
    /\ UNCHANGED <<queue, dead, audited, staged, docs, client, dropped>>

\* renameSync out of offline-tmp.
\* Regression: the file is copied and the staged one left in place.
MovedCopied(p) == staged

Moved(p) == [staged EXCEPT ![p] = NoUpload]

\* Regression: the retry count is put back as it was.
RetriedUncounted(it) == it

Retried(it) == [it EXCEPT !.retries = @ + 1]

\* replayUpload threw.
AfterFailure(w, it) ==
    LET again == Retried(it)
        last  == again.retries >= MaxRetries
    IN  /\ tick' = [tick EXCEPT ![w] = [pc |-> IF last THEN "burying" ELSE "requeueing",
                                        at |-> tick[w].at, item |-> again]]
        /\ Send(w, IF last THEN "bury" ELSE "push", Served[tick[w].at], again)
        /\ UNCHANGED audited

\* Regression: an item without its file is passed over as if it were done.
ReplaySkipsMissing(w, it) ==
    LET p == PathOf[it.upload]
    IN  \/ /\ staged[p] = NoUpload
           /\ tick' = [tick EXCEPT ![w] = [pc |-> "checking", at |-> tick[w].at, item |-> NoItem]]
           /\ cmd'  = [cmd EXCEPT ![w] = NoCmd]
           /\ UNCHANGED <<staged, docs, audited>>
        \/ /\ staged[p] # NoUpload
           /\ it.upload \in Malformed \/ "db" \in Faults
           /\ staged' = Moved(p)
           /\ AfterFailure(w, it)
           /\ UNCHANGED docs
        \/ /\ staged[p] # NoUpload
           /\ it.upload \notin Malformed
           /\ staged' = Moved(p)
           /\ docs' = [docs EXCEPT ![it.upload] = Append(@, staged[p])]
           /\ tick' = [tick EXCEPT ![w] = [pc |-> "checking", at |-> tick[w].at, item |-> NoItem]]
           /\ cmd'  = [cmd EXCEPT ![w] = NoCmd]
           /\ UNCHANGED audited

\* Regression: a failed dedup check is thrown on, after the INSERT.
ReplayRethrows(w, it) ==
    LET p == PathOf[it.upload]
    IN  \/ /\ staged[p] = NoUpload \/ "fs" \in Faults
           /\ AfterFailure(w, it)
           /\ UNCHANGED <<staged, docs>>
        \/ /\ staged[p] # NoUpload
           /\ it.upload \notin Malformed
           /\ staged' = Moved(p)
           /\ docs' = [docs EXCEPT ![it.upload] = Append(@, staged[p])]
           /\ AfterFailure(w, it)

\* replayUpload up to the dedup call.  The metadata is parsed after the file
\* was moved, and the move is not undone.
Replay(w, it) ==
    LET p == PathOf[it.upload]
    IN  \/ /\ staged[p] = NoUpload \/ "fs" \in Faults
           /\ AfterFailure(w, it)
           /\ UNCHANGED <<staged, docs>>
        \/ /\ staged[p] # NoUpload
           /\ it.upload \in Malformed \/ "db" \in Faults
           /\ staged' = Moved(p)
           /\ AfterFailure(w, it)
           /\ UNCHANGED docs
        \/ /\ staged[p] # NoUpload
           /\ it.upload \notin Malformed
           /\ staged' = Moved(p)
           /\ docs' = [docs EXCEPT ![it.upload] = Append(@, staged[p])]
           /\ tick' = [tick EXCEPT ![w] = [pc |-> "checking", at |-> tick[w].at, item |-> NoItem]]
           /\ cmd'  = [cmd EXCEPT ![w] = NoCmd]
           /\ UNCHANGED audited

Popped(w) ==
    /\ tick[w].pc = "popping"
    /\ cmd[w].st = "ok"
    /\ cmd[w].item # NoItem
    /\ Replay(w, cmd[w].item)
    /\ UNCHANGED <<queue, dead, client, dropped>>

\* null: the queue is empty.
PoppedNothing(w) ==
    /\ tick[w].pc = "popping"
    /\ cmd[w].st = "ok"
    /\ cmd[w].item = NoItem
    /\ NextTenant(w)
    /\ UNCHANGED <<queue, dead, audited, staged, docs, client, dropped>>

\* Python answered the dedup check, refused it or ran into the 15 s timeout:
\* errors are ignored, and the loop pops the next item.
DedupChecked(w) ==
    /\ tick[w].pc = "checking"
    /\ Pop(w, tick[w].at, NoItem)
    /\ UNCHANGED <<queue, dead, audited, staged, docs, client, dropped>>

Requeued(w) ==
    /\ tick[w].pc = "requeueing"
    /\ cmd[w].st = "ok"
    /\ Pop(w, tick[w].at, tick[w].item)
    /\ UNCHANGED <<queue, dead, audited, staged, docs, client, dropped>>

\* Regression: the rejection of pushDeadLetter is swallowed.
BuriedUnchecked(w) ==
    /\ tick[w].pc = "burying"
    /\ cmd[w].st \in {"ok", "error"}
    /\ audited' = [audited EXCEPT ![tick[w].item.upload] = @ + 1]
    /\ Pop(w, tick[w].at, NoItem)
    /\ UNCHANGED <<queue, dead, staged, docs, client, dropped>>

\* The audit row follows; when its INSERT throws, the drain ends.
Buried(w) ==
    /\ tick[w].pc = "burying"
    /\ cmd[w].st = "ok"
    /\ \/ /\ audited' = [audited EXCEPT ![tick[w].item.upload] = @ + 1]
          /\ Pop(w, tick[w].at, NoItem)
       \/ /\ "db" \in Faults
          /\ NextTenant(w)
          /\ UNCHANGED audited
    /\ UNCHANGED <<queue, dead, staged, docs, client, dropped>>

\* A queue command rejects inside the drain.
DrainThrows(w) ==
    /\ tick[w].pc \in {"popping", "requeueing", "burying"}
    /\ cmd[w].st = "error"
    /\ NextTenant(w)
    /\ UNCHANGED <<queue, dead, audited, staged, docs, client, dropped>>

Listed(u) == \E t \in Tenants : \E n \in DOMAIN queue[t] : queue[t][n].upload = u

\* What tick w holds that is in no list and no table.
InHand(w) ==
    IF \/ tick[w].pc = "popping" /\ cmd[w].st = "ok" /\ cmd[w].item # NoItem
       \/ tick[w].pc \in {"requeueing", "burying"} /\ cmd[w].st = "sent"
    THEN {cmd[w].item.upload} ELSE {}

\* The process dies and starts again; it may die between the rename and the
\* INSERT of a replay.
Crash ==
    /\ "crash" \in Faults
    /\ tick'   = [w \in Ticks |-> Off]
    /\ client' = [u \in Uploads |-> IF client[u] = "waiting" THEN "error" ELSE client[u]]
    /\ cmd'    = [p \in Uploads \cup Ticks |-> NoCmd]
    /\ \E W \in SUBSET {w \in Ticks : tick[w].pc = "popping" /\ InHand(w) # {}} :
          staged' = [p \in Paths |-> IF \E w \in W : PathOf[cmd[w].item.upload] = p
                                     THEN NoUpload ELSE staged[p]]
    /\ queue'  = IF Durable THEN queue ELSE [t \in Tenants |-> <<>>]
    /\ dead'   = IF Durable THEN dead ELSE [u \in Uploads |-> 0]
    /\ dropped' = dropped \cup {u \in Uploads :
          \/ \E w \in Ticks : u \in InHand(w)
          \/ ~Durable /\ (Listed(u) \/ dead[u] > 0)}
    /\ UNCHANGED <<audited, docs>>

-----------------------------------------------------------------------------

TickStep(w) ==
    \/ Popped(w) \/ PoppedNothing(w) \/ DedupChecked(w)
    \/ Requeued(w) \/ Buried(w) \/ DrainThrows(w)

RedisStep(p) == RedisExecute(p) \/ RedisRefuse(p)

Next ==
    \/ \E u \in Uploads : Receive(u) \/ Respond(u)
    \/ \E w \in Ticks : TimerFires(w) \/ TickStep(w)
    \/ \E p \in Uploads \cup Ticks : RedisStep(p)
    \/ Crash

Spec == Init /\ [][Next]_vars

\* The event loop fires the timer and serves replies, the dedup call has a
\* timeout, and Redis executes what it was sent.
FairSpec ==
    /\ Spec
    /\ \A w \in Ticks : WF_vars(TimerFires(w)) /\ WF_vars(TickStep(w))
    /\ \A p \in Uploads \cup Ticks : WF_vars(RedisStep(p))
-----------------------------------------------------------------------------
(* Properties.                                                             *)

Cmd == [op : {"none", "push", "pop", "bury"}, tenant : Tenants, item : Item \cup {NoItem},
        st : {"none", "sent", "again", "ok", "error"}]
Tick == [pc : {"off", "popping", "checking", "requeueing", "burying"},
         at : 0..Len(Served), item : Item \cup {NoItem}]

\* Types of every variable.
OfflineTypeOK ==
    /\ queue \in [Tenants -> Seq(Item)]
    /\ dead \in [Uploads -> Nat]
    /\ audited \in [Uploads -> Nat]
    /\ staged \in [Paths -> Uploads \cup {NoUpload}]
    /\ docs \in [Uploads -> Seq(Uploads)]
    /\ client \in [Uploads -> {"new", "waiting", "accepted", "error"}]
    /\ tick \in [Ticks -> Tick]
    /\ cmd \in [Uploads \cup Ticks -> Cmd]
    /\ dropped \subseteq Uploads

\* However ticks overlap, commands are repeated and replays are tried again,
\* an upload becomes at most one document, with the bytes it came with: the
\* rename of the staged file lets one replay through.
AtMostOneDocument == \A u \in Uploads : docs[u] \in {<<>>, <<u>>}

Settled(u) == docs[u] # <<>> \/ dead[u] > 0

\* An upload answered { queued: true } is pending, in the hands of a tick, a
\* document or a dead letter, unless a crash or a failure of Redis took it:
\* no failure of a replay and no overlap of ticks makes it disappear.
Accounted ==
    \A u \in Uploads :
        client[u] = "accepted" =>
            \/ Settled(u) \/ Listed(u) \/ u \in dropped
            \/ \E w \in Ticks : u \in InHand(w)

\* An OFFLINE_SYNC_DEAD_LETTER row stands for an item in the dead letters.
AuditedAreDead == Durable => \A u \in Uploads : audited[u] <= dead[u]

\* Every upload accepted for a tenant the worker serves becomes a document or
\* a dead letter, whatever fails in its replays.
EventuallySettled ==
    \A u \in Uploads :
        TenantOf[u] \in {Served[n] : n \in DOMAIN Served} =>
            (client[u] = "accepted" ~> Settled(u))

\* The strengthening the proofs need.  An item that may be replayed once more:
Retryable == [upload : Uploads, retries : 0..MaxRetries - 1]

\* what a command c carries,
CmdInv(c) ==
    /\ c.op = "push" => c.item \in Retryable
    /\ c.op = "pop"  => c.item \in Retryable \cup {NoItem}
    /\ c.op = "bury" => c.item \in Item
    /\ c.op = "none" => c.st = "none"

\* the command c that a tick in state k waits for,
TickInv(k, c) ==
    /\ k.pc # "off" => k.at \in 1..Len(Served)
    /\ k.pc = "popping" => c.op = "pop"
    /\ k.pc = "requeueing" => c.op = "push" /\ c.item = k.item
    /\ k.pc = "burying" => c.op = "bury" /\ c.item = k.item
    /\ k.pc \in {"off", "checking"} => c.op = "none"

\* the command c that the request of u waits for,
ClientInv(u, c) ==
    IF client[u] = "waiting" THEN c.op = "push" /\ c.item.upload = u ELSE c.op = "none"

ControlInv ==
    /\ OfflineTypeOK
    /\ \A t \in Tenants : queue[t] \in Seq(Retryable)
    /\ \A p \in Uploads \cup Ticks : CmdInv(cmd[p])
    /\ \A w \in Ticks : TickInv(tick[w], cmd[w])
    /\ \A u \in Uploads : ClientInv(u, cmd[u])

\* and where an upload is from the execution of its push on.
Pushed(u) == \/ client[u] = "accepted"
             \/ client[u] = "waiting" /\ cmd[u].st \in {"again", "ok"}
Kept(u)   == \/ Settled(u) \/ Listed(u) \/ u \in dropped
             \/ \E w \in Ticks : u \in InHand(w)

\* Accounted, as an inductive invariant.
KeptInv == ControlInv /\ \A u \in Uploads : Pushed(u) => Kept(u)

Fate(u) ==
    IF docs[u] # <<>> THEN IF dead[u] > 0 THEN "both" ELSE "stored"
    ELSE IF dead[u] > 0 THEN "dead"
    ELSE IF client[u] = "new" THEN "new"
    ELSE IF \/ Listed(u) \/ \E w \in Ticks : u \in InHand(w)
            \/ cmd[u].op = "push" /\ cmd[u].st = "sent"
         THEN "pending"
    ELSE "lost"

UD == INSTANCE UploadDelivery
      WITH Lossy <- Faults \cap {"crash", "redis"} # {},
           fate <- [u \in Uploads |-> Fate(u)]

\* The queue implements the delivery of uploads: an upload that is taken in
\* has one outcome, which nothing revises.
ImplementsDelivery == UD!DeliverySpec
=============================================================================
