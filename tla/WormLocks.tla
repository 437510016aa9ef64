------------------------------ MODULE WormLocks ------------------------------
(***************************************************************************)
(* Write-once locks on stored files (routers/worm.py, services/worm.py):   *)
(* a row of the documents table says that a document is locked, a flag of  *)
(* the file system protects its file, and each request changes first the   *)
(* one and then the other.  Requests run in threads, and nothing keeps two *)
(* of them from the same document.  STORAGE_DIR is absolute.               *)
(*                                                                         *)
(* Whoever has access to the files may replace or remove one that has no   *)
(* flag; retention does so too.                                            *)
(***************************************************************************)
EXTENDS Naturals, FiniteSetsExt

CONSTANTS Docs,
          Copies,      \* the sets of documents that were uploaded with the same content
          Admins,
          Periods,     \* unlock_after_days and extend_by_days
          MaxTime,     \* bound: days
          MaxUntil,    \* bound: dates of a lock
          MaxContent,  \* bound: contents of a file; 0 is no file
          MaxCrashes   \* bound: restarts of the process

ASSUME WormAssumption ==
    /\ Copies \subseteq SUBSET Docs
    /\ \A c, e \in Copies : c = e \/ c \cap e = {}
    /\ Periods \subseteq Nat \ {0}
    /\ {MaxTime, MaxUntil, MaxCrashes} \subseteq Nat /\ MaxContent \in Nat \ {0}

VARIABLES now, crashes,
          lockRow,    \* document -> its lock columns
          immutable,  \* the documents whose file has the flag
          content,    \* document -> what its file holds
          req,        \* administrator -> the request under way
          alerts,     \* the documents of critical alerts
          apart,      \* documents at whose flag two requests met, or one failed or died,
                      \* since a request last moved it alone (a history)
          since       \* administrator -> what has differed from one and the same hash
                      \* since the request began (a history)

wormBounds == <<now, crashes>>
wormVars == <<wormBounds, lockRow, immutable, content, req, alerts, apart, since>>

\* until 0: no date.
Unlocked == [locked |-> FALSE, until |-> 0, base |-> 0]
NoRequest == [at |-> "idle", docs |-> {}, read |-> [d \in Docs |-> Unlocked], new |-> Unlocked,
              alarm |-> {}, unread |-> {}]

\* save_bytes names a file after its content: copies are one file.
SameFile(d) == {d} \cup UNION {c \in Copies : d \in c}

Locked == {d \in Docs : lockRow[d].locked}
Drifted == {d \in Locked : content[d] # lockRow[d].base}

WormInit ==
    /\ now = 0 /\ crashes = 0
    /\ lockRow = [d \in Docs |-> Unlocked]
    /\ immutable = {}
    /\ content = [d \in Docs |-> 1]
    /\ req = [a \in Admins |-> NoRequest]
    /\ alerts = {} /\ apart = {}
    /\ since = [a \in Admins |-> {}]

-----------------------------------------------------------------------------
(* A request reads rows, then works on files, then commits.                *)

BeginChange(a, at, ds, new) ==
    /\ req[a].at = "idle"
    /\ req' = [req EXCEPT ![a] =
           [at |-> at, docs |-> ds, alarm |-> {}, unread |-> {}, new |-> new,
            read |-> [d \in Docs |-> IF d \in ds THEN lockRow[d] ELSE Unlocked]]]
    /\ UNCHANGED <<wormBounds, lockRow, immutable, content, alerts, apart>>

GoTo(a, at) == req' = [req EXCEPT ![a].at = at]
End(a) == req' = [req EXCEPT ![a] = NoRequest]

\* An UPDATE names the columns that differ from what was read.
LockColumn(current, read, new) == IF new = read THEN current ELSE new

WriteRow(d, read, new) ==
    lockRow' = [lockRow EXCEPT ![d] = [locked |-> LockColumn(@.locked, read.locked, new.locked),
                                       until  |-> LockColumn(@.until, read.until, new.until),
                                       base   |-> LockColumn(@.base, read.base, new.base)]]

CommitRow(a, d) ==
    /\ WriteRow(d, req[a].read[d], req[a].new)
    /\ End(a)
    /\ UNCHANGED <<wormBounds, immutable, content, alerts, apart>>

\* The requests that have moved the flag of d and not yet committed.
Between(d) == {a \in Admins : d \in req[a].docs /\ req[a].at \in {"flagged", "cleared"}}

MoveFlag(a, d, flags, at) ==
    /\ content[d] # 0
    /\ immutable' = flags
    /\ GoTo(a, at)
    /\ apart' = IF Between(d) = {} THEN apart \ {d} ELSE apart \cup {d}

\* chattr fails, or the file is gone.
FlagFails(a) == End(a) /\ UNCHANGED <<immutable, apart>>

\* The commit fails: the request is answered 500, with the flag where it is.
CommitFails(a) ==
    /\ req[a].at \in {"flagged", "cleared", "extending"}
    /\ End(a)
    /\ apart' = apart \cup {d \in Docs : a \in Between(d)}
    /\ UNCHANGED <<wormBounds, lockRow, immutable, content, alerts>>

-----------------------------------------------------------------------------
\* A document that is locked already is answered as it is.
LockDocument(a, d, n) ==
    /\ ~lockRow[d].locked /\ content[d] # 0
    /\ now + n <= MaxUntil
    /\ BeginChange(a, "hashed", {d}, [locked |-> TRUE, until |-> now + n, base |-> content[d]])

\* Regression: a failure of chattr is logged and not raised.
SetFlagSwallowed(a, d) ==
    /\ req[a].at = "hashed" /\ req[a].docs = {d}
    /\ \E flags \in {immutable, immutable \cup SameFile(d)} : MoveFlag(a, d, flags, "flagged")
    /\ UNCHANGED <<wormBounds, lockRow, content, alerts>>

SetFlag(a, d) ==
    /\ req[a].at = "hashed" /\ req[a].docs = {d}
    /\ FlagFails(a) \/ MoveFlag(a, d, immutable \cup SameFile(d), "flagged")
    /\ UNCHANGED <<wormBounds, lockRow, content, alerts>>

CommitLock(a, d) == req[a].at = "flagged" /\ req[a].docs = {d} /\ CommitRow(a, d)

\* The date is not looked at.
UnlockDocument(a, d) ==
    /\ lockRow[d].locked /\ content[d] # 0
    /\ BeginChange(a, "unlocking", {d}, [Unlocked EXCEPT !.base = lockRow[d].base])

ClearFlag(a, d) ==
    /\ req[a].at = "unlocking" /\ req[a].docs = {d}
    /\ FlagFails(a) \/ MoveFlag(a, d, immutable \ SameFile(d), "cleared")
    /\ UNCHANGED <<wormBounds, lockRow, content, alerts>>

CommitUnlock(a, d) == req[a].at = "cleared" /\ req[a].docs = {d} /\ CommitRow(a, d)

\* Regression: the new date counts from today.
ExtendedFromNow(until, n) == now + n

Extended(until, n) == Max({until, now}) + n

ExtendLock(a, d, n) ==
    /\ lockRow[d].locked
    /\ Extended(lockRow[d].until, n) <= MaxUntil
    /\ BeginChange(a, "extending", {d}, [lockRow[d] EXCEPT !.until = Extended(@, n)])

CommitExtend(a, d) == req[a].at = "extending" /\ req[a].docs = {d} /\ CommitRow(a, d)

-----------------------------------------------------------------------------
(* verify_all_locked compares each file with the row read at the start.    *)

VerifyBatch(a) == BeginChange(a, "verify", Locked, Unlocked)

\* Regression: a file that is gone is no drift.
AlarmingIfThere(d, read) == content[d] \notin {0, read.base}

\* Whether the flag is set is found out, and not used.
Alarming(d, read) == content[d] # read.base

VerifyFile(a, d) ==
    /\ req[a].at = "verify" /\ d \in req[a].docs
    /\ req' = [req EXCEPT ![a].docs = @ \ {d},
                          ![a].alarm = IF Alarming(d, req[a].read[d]) THEN @ \cup {d} ELSE @]
    /\ UNCHANGED <<wormBounds, lockRow, immutable, content, alerts, apart>>

\* A file that is there and cannot be read is logged and counted as in order.
UnreadableFile(a, d) ==
    /\ req[a].at = "verify" /\ d \in req[a].docs /\ content[d] # 0
    /\ req' = [req EXCEPT ![a].docs = @ \ {d}, ![a].unread = @ \cup {d}]
    /\ UNCHANGED <<wormBounds, lockRow, immutable, content, alerts, apart>>

CommitAlerts(a) ==
    /\ req[a].at = "verify" /\ req[a].docs = {}
    /\ alerts' = alerts \cup req[a].alarm
    /\ End(a)
    /\ UNCHANGED <<wormBounds, lockRow, immutable, content, apart>>

\* The commit fails, which is logged: the batch is answered as if it had not.
AlertsLost(a) ==
    /\ req[a].at = "verify" /\ req[a].docs = {}
    /\ End(a)
    /\ UNCHANGED <<wormBounds, lockRow, immutable, content, alerts, apart>>

-----------------------------------------------------------------------------
\* The flag keeps everybody off the file.
ChangeFile(d, c) ==
    /\ d \notin immutable /\ content[d] # c
    /\ content' = [e \in Docs |-> IF e \in SameFile(d) THEN c ELSE content[e]]
    /\ UNCHANGED <<wormBounds, lockRow, immutable, req, alerts, apart>>

Crash ==
    /\ crashes < MaxCrashes /\ crashes' = crashes + 1
    /\ apart' = apart \cup {d \in Docs : Between(d) # {}}
    /\ req' = [a \in Admins |-> NoRequest]
    /\ UNCHANGED <<now, lockRow, immutable, content, alerts>>

Tick == /\ now < MaxTime /\ now' = now + 1
        /\ UNCHANGED <<crashes, lockRow, immutable, content, req, alerts, apart>>

\* What differs after the step, and did so since the request began.
Remember ==
    since' = [a \in Admins |->
        IF req[a].at = "idle" THEN Drifted'
        ELSE {d \in since[a] \cap Drifted' : lockRow'[d].base = lockRow[d].base}]

RequestStep(a) ==
    \/ \E d \in Docs : \/ \E n \in Periods : LockDocument(a, d, n) \/ ExtendLock(a, d, n)
                       \/ SetFlag(a, d) \/ CommitLock(a, d)
                       \/ UnlockDocument(a, d) \/ ClearFlag(a, d) \/ CommitUnlock(a, d)
                       \/ CommitExtend(a, d)
                       \/ VerifyFile(a, d) \/ UnreadableFile(a, d)
    \/ CommitFails(a) \/ VerifyBatch(a) \/ CommitAlerts(a) \/ AlertsLost(a)

WormNext == /\ \/ \E a \in Admins : RequestStep(a)
               \/ \E d \in Docs : \E c \in 0 .. MaxContent : ChangeFile(d, c)
               \/ Crash \/ Tick
            /\ Remember

WormSpec == WormInit /\ [][WormNext]_wormVars

-----------------------------------------------------------------------------
\* A request is at the flag of d, or left it where it should not be.
Moving(d) == d \in apart \/ Between(d) # {}

\* The row of a document without copies and the flag of its file say the same,
\* but while a request is between the two, or after it failed or died there or
\* met another one there.
FlagsFollowRows ==
    \A d \in Docs : SameFile(d) = {d} => (lockRow[d].locked <=> d \in immutable) \/ Moving(d)

\* A lock that stands is shortened by nothing but a request that commits on top
\* of a row which has changed since it read it: an extension of what it has read
\* moves the date forward.
OnlyRacesShorten ==
    [][\A d \in Docs :
          lockRow[d].locked /\ lockRow'[d].locked /\ lockRow'[d].until < lockRow[d].until =>
              \E a \in Admins : /\ req[a].docs = {d} /\ req'[a] = NoRequest
                                 /\ req[a].read[d] # lockRow[d]]_wormVars

\* A locked file that had changed or was gone before the batch began, and that
\* the batch could read, is in the alerts that it stores, whatever is locked,
\* unlocked and extended while it runs.
DriftAlerted ==
    [][\A a \in Admins : CommitAlerts(a) => since[a] \ req[a].unread \subseteq alerts']_wormVars

-----------------------------------------------------------------------------
(* Statements of the documentation that the code does not keep: README,    *)
(* section 14.                                                             *)

\* The file of a locked document has the flag, but while somebody unlocks it.
LockedIsProtected == \A d \in Docs : lockRow[d].locked => d \in immutable \/ Moving(d)

\* No lock is shortened while it stands.
DatesMoveForward ==
    [][\A d \in Docs : lockRow[d].locked /\ lockRow'[d].locked => lockRow'[d].until >= lockRow[d].until]_wormVars

\* Whatever had changed before a batch began is alerted when it has ended.
BatchAlerts ==
    [][\A a \in Admins : req[a].at = "verify" /\ req'[a].at = "idle" /\ crashes' = crashes =>
          since[a] \subseteq alerts']_wormVars

\* An alarm is about a file that is locked and differs.
AlarmsAreTrue ==
    [][\A a \in Admins : req'[a].alarm \ req[a].alarm \subseteq Drifted]_wormVars
=============================================================================
