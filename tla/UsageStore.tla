----------------------------- MODULE UsageStore -----------------------------
(***************************************************************************)
(* SqliteUsageStore (usage/store.py): the appends of finished turns, each  *)
(* a coroutine of its own, on one connection that the first of them opens; *)
(* the purge some of them make; the shutdown of the host (app.py), which   *)
(* closes the store while detached resumes may still append.               *)
(*                                                                         *)
(* rows is what the connection sees, disk what is committed.  pc[t] is the *)
(* await the append of turn t is suspended at.                             *)
(***************************************************************************)
EXTENDS Integers

CONSTANTS
  Turns,        \* turns that finish
  Billed,       \* the organisations they may be billed to, or none
  Retention,    \* host_usage_retention_days, in ticks of the clock
  PurgeEvery,   \* _PURGE_INTERVAL_S
  MaxClock, MaxCrashes,    \* bounds
  Nobody

ASSUME TurnsAssumption == Nobody \notin Turns
ASSUME TimesAssumption ==
  /\ Retention \in Nat /\ PurgeEvery \in Nat
  /\ MaxClock \in Nat /\ MaxCrashes \in Nat

VARIABLES
  clock,
  db,           \* _db: none, open, or dead while it is being closed
  lock,         \* _init_lock: who holds it
  opened,       \* history: connections opened since the last close
  rows, disk,
  pc, rec,      \* an append: its await, its record
  cutoff,       \* local of the purge it makes
  lastPurge,
  acked,        \* history: records whose append returned
  host,         \* up, closing, store, tracing, down
  crashes

conn == <<db, lock, opened>>
data == <<rows, disk>>
calls == <<pc, rec, cutoff>>
vars == <<clock, conn, data, calls, lastPurge, acked, host, crashes>>

Never == -PurgeEvery - 1
Blank == [turn |-> Nobody, org |-> Nobody, at |-> 0]

Init ==
  /\ clock = 0
  /\ db = "none" /\ lock = Nobody /\ opened = 0
  /\ rows = {} /\ disk = {}
  /\ pc = [t \in Turns |-> "idle"] /\ rec = [t \in Turns |-> Blank]
  /\ cutoff = [t \in Turns |-> 0]
  /\ lastPurge = Never
  /\ acked = {}
  /\ host = "up" /\ crashes = 0

Running == host # "down"
At(t, phase) == Running /\ pc[t] = phase
Goto(t, phase) == pc' = [pc EXCEPT ![t] = phase]

-----------------------------------------------------------------------------
(* _conn: a connection that is set is used at once, a dead one fails.      *)
Connected == CASE db = "open" -> "insert"
               [] db = "dead" -> "failed"
               [] db = "none" -> "lock"

(* record_usage: the record is made, then appended. *)
Finish(t) ==
  /\ At(t, "idle")
  /\ \E o \in Billed : rec' = [rec EXCEPT ![t] = [turn |-> t, org |-> o, at |-> clock]]
  /\ Goto(t, Connected)
  /\ UNCHANGED <<clock, conn, data, cutoff, lastPurge, acked, host, crashes>>

(* The second look at _db, under the lock.  Mutant: there is none. *)
LocksAnyway(t) == db \in {"none", "open"}
LooksAgain(t) == db = "none"

Lock(t) ==
  /\ At(t, "lock") /\ lock = Nobody
  /\ IF LooksAgain(t)
     THEN lock' = t /\ Goto(t, "connect")
     ELSE Goto(t, Connected) /\ UNCHANGED lock
  /\ UNCHANGED <<clock, db, opened, data, rec, cutoff, lastPurge, acked, host, crashes>>

Connect(t) ==
  /\ At(t, "connect")
  /\ db' = "open" /\ lock' = Nobody /\ opened' = opened + 1
  /\ Goto(t, "insert")
  /\ UNCHANGED <<clock, data, rec, cutoff, lastPurge, acked, host, crashes>>

Insert(t) ==
  /\ At(t, "insert")
  /\ rows' = rows \cup {rec[t]}
  /\ Goto(t, "commit")
  /\ UNCHANGED <<clock, conn, disk, rec, cutoff, lastPurge, acked, host, crashes>>

(* A commit writes what every append has inserted so far.  Mutant: none. *)
KeepsDisk == UNCHANGED disk
Commits == disk' = rows

PurgeDue == clock - lastPurge > PurgeEvery
Returns(t) == acked' = acked \cup {rec[t]} /\ Goto(t, "done")

(* The cutoff of a purge is computed before its DELETE is awaited.  *)
(* Mutant: without the retention.                                   *)
CutoffNow == clock
Cutoff == clock - Retention

Commit(t) ==
  /\ At(t, "commit")
  /\ Commits
  /\ IF PurgeDue
     THEN cutoff' = [cutoff EXCEPT ![t] = Cutoff] /\ Goto(t, "delete")
          /\ UNCHANGED acked
     ELSE Returns(t) /\ UNCHANGED cutoff
  /\ UNCHANGED <<clock, conn, rows, rec, lastPurge, host, crashes>>

Expired(r, limit) == r.at < limit

Delete(t) ==
  /\ At(t, "delete")
  /\ rows' = {r \in rows : ~Expired(r, cutoff[t])}
  /\ Goto(t, "purge")
  /\ UNCHANGED <<clock, conn, disk, rec, cutoff, lastPurge, acked, host, crashes>>

Purged(t) ==
  /\ At(t, "purge")
  /\ Commits
  /\ lastPurge' = clock
  /\ Returns(t) /\ cutoff' = [cutoff EXCEPT ![t] = 0]
  /\ UNCHANGED <<clock, conn, rows, rec, host, crashes>>

(* The stream of the turn is cancelled, or a statement fails: at any of    *)
(* its awaits; what the connection was told it still does.                 *)
InFlight == {"lock", "connect", "insert", "commit", "delete", "purge"}

(* Leaving _conn releases its lock. *)
Unlocks(t) == lock' = IF lock = t THEN Nobody ELSE lock

Abandon(t) ==
  /\ Running /\ pc[t] \in InFlight
  /\ Goto(t, "failed")
  /\ Unlocks(t)
  /\ UNCHANGED <<clock, db, opened, data, rec, cutoff, lastPurge, acked, host, crashes>>

-----------------------------------------------------------------------------
(* The lifespan: aclose_all and the graph's closer, then the store, then   *)
(* the bounded flush of the spans.                                         *)
Shutdown ==
  /\ host = "up"
  /\ host' = "closing"
  /\ UNCHANGED <<clock, conn, data, calls, lastPurge, acked, crashes>>

(* aclose: what is not committed is gone, and every append that is on the  *)
(* connection fails.                                                       *)
CloseStore ==
  /\ host = "closing" /\ db = "open"
  /\ host' = "store"
  /\ db' = "dead" /\ opened' = 0
  /\ rows' = disk
  /\ pc' = [t \in Turns |-> IF pc[t] \in InFlight \ {"lock", "connect"}
                            THEN "failed" ELSE pc[t]]
  /\ UNCHANGED <<clock, lock, disk, rec, cutoff, lastPurge, acked, crashes>>

(* _db is forgotten after the close returned: a later append opens anew.   *)
StoreClosed ==
  /\ host = "store"
  /\ db' = "none"
  /\ host' = "tracing"
  /\ UNCHANGED <<clock, lock, opened, data, calls, lastPurge, acked, crashes>>

(* Nothing to close; or close raises and the flush is skipped. *)
NoStore ==
  /\ \/ host = "closing" /\ db = "none" /\ host' = "tracing"
     \/ host = "store" /\ host' = "down"
  /\ UNCHANGED <<clock, conn, data, calls, lastPurge, acked, crashes>>

(* Tracing.aclose: the exporter's thread is done, or ten seconds are over. *)
Flushed ==
  /\ host = "tracing"
  /\ host' = "down"
  /\ UNCHANGED <<clock, conn, data, calls, lastPurge, acked, crashes>>

(* The process dies and is started again: the disk stays. *)
Restart ==
  /\ crashes < MaxCrashes
  /\ crashes' = crashes + 1
  /\ host' = "up"
  /\ db' = "none" /\ lock' = Nobody /\ opened' = 0
  /\ rows' = disk /\ UNCHANGED disk
  /\ pc' = [t \in Turns |-> IF pc[t] \in InFlight THEN "lost" ELSE pc[t]]
  /\ lastPurge' = Never
  /\ UNCHANGED <<clock, rec, cutoff, acked>>

Tick ==
  /\ Running /\ clock < MaxClock
  /\ clock' = clock + 1
  /\ UNCHANGED <<conn, data, calls, lastPurge, acked, host, crashes>>

Next ==
  \/ \E t \in Turns : \/ Finish(t) \/ Lock(t) \/ Connect(t) \/ Insert(t)
                      \/ Commit(t) \/ Delete(t) \/ Purged(t) \/ Abandon(t)
  \/ Shutdown \/ CloseStore \/ StoreClosed \/ NoStore \/ Flushed \/ Restart \/ Tick

Spec == Init /\ [][Next]_vars

-----------------------------------------------------------------------------
(* OneConnection: however many appends find no connection at once, one is  *)
(* opened (the two looks at _db in _conn), and the lock belongs to the     *)
(* append that is opening it, whoever is cancelled.                        *)
OneConnection ==
  /\ opened <= 1
  /\ \A t \in Turns : lock = t <=> pc[t] = "connect"

(* AckedKept: the record of an append that returned is on the disk, also   *)
(* after a crash, a shutdown or the cancellation of other appends and      *)
(* purges that share its connection, until it is older than the retention. *)
AckedKept == \A r \in acked : r \in disk \/ Expired(r, clock - Retention)

Log == INSTANCE UsageLog WITH
  used <- {t \in Turns : pc[t] \in {"commit", "delete", "purge", "done", "failed", "lost"}},
  records <- rows,
  settled <- disk

(* Logged: with its awaits, its shared transaction, failures, shutdown and *)
(* restarts the store still adds a record once, removes none before its    *)
(* time and loses at a restart only what no commit had settled.            *)
Logged == Log!LogSpec
=============================================================================
