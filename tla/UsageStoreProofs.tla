--------------------------- MODULE UsageStoreProofs ---------------------------
(***************************************************************************)
(* Proofs about UsageStore, for any number of appends, any retention and   *)
(* any number of crashes: there is one connection, a record whose append   *)
(* returned is kept until it is too old, and the store is a UsageLog.      *)
(*                                                                         *)
(* AckedKept alone is not inductive.  A commit writes what the connection  *)
(* sees, so a returned record has to be there too, not only on the disk;   *)
(* an append at its commit must have its record there already; and what a  *)
(* purge deletes must be too old by the clock, although its cutoff was     *)
(* computed before others ran (Kept, Cutoffs).                             *)
(***************************************************************************)
EXTENDS UsageStore, TLAPS

Phases == InFlight \cup {"idle", "done", "failed", "lost"}

TypeOK ==
  /\ clock \in Nat /\ crashes \in Nat /\ opened \in Nat
  /\ db \in {"none", "open", "dead"}
  /\ lock \in Turns \cup {Nobody}
  /\ pc \in [Turns -> Phases]
  /\ rec \in [Turns -> [turn : Turns \cup {Nobody}, org : Billed \cup {Nobody}, at : Nat]]
  /\ cutoff \in [Turns -> Int]
  /\ lastPurge \in Int
  /\ host \in {"up", "closing", "store", "tracing", "down"}

(* The connection of the process, and who is opening it. *)
Connection ==
  /\ host = "store" => db = "dead"
  /\ opened = IF db = "open" THEN 1 ELSE 0
  /\ \A t \in Turns : lock = t <=> pc[t] = "connect"
  /\ \A t \in Turns : pc[t] = "connect" => db = "none"

(* The record an append has under way, made of its turn before now. *)
Recorded ==
  \A t \in Turns : pc[t] \in InFlight =>
    \E o \in Billed, at \in 0 .. clock : rec[t] = Log!Record(t, o, at)

(* The cutoff a DELETE is about to use. *)
Cutoffs == \A t \in Turns : pc[t] = "delete" => cutoff[t] \in -Retention .. clock - Retention

TooOld(r) == Expired(r, clock - Retention)
Seen(r) == r \in rows \/ TooOld(r)
Safe(r) == (r \in disk \/ TooOld(r)) /\ Seen(r)

Kept ==
  /\ \A r \in acked : r.at \in Nat /\ Safe(r)
  /\ \A t \in Turns :
       /\ pc[t] = "commit" => Seen(rec[t])
       /\ pc[t] \in {"delete", "purge"} => Safe(rec[t])

IInv == TypeOK /\ Connection /\ Recorded /\ Cutoffs /\ Kept

USE TurnsAssumption, TimesAssumption
USE DEF vars, conn, data, calls, At, Running, Goto, InFlight

LEMMA Steps ==
  ASSUME [Next]_vars
  PROVE  \/ \E t \in Turns : \/ Finish(t) \/ Lock(t) \/ Connect(t) \/ Insert(t)
                             \/ Commit(t) \/ Delete(t) \/ Purged(t) \/ Abandon(t)
         \/ Shutdown \/ CloseStore \/ StoreClosed \/ NoStore \/ Flushed \/ Restart
         \/ Tick \/ UNCHANGED vars
BY DEF Next

-----------------------------------------------------------------------------
LEMMA TypeNext ==
  ASSUME TypeOK, [Next]_vars
  PROVE  TypeOK'
<1> USE DEF TypeOK, Phases
<1>1. ASSUME NEW t \in Turns, Finish(t) PROVE TypeOK'
  BY <1>1 DEF Finish, Connected
<1>2. ASSUME NEW t \in Turns, Lock(t) PROVE TypeOK'
  BY <1>2 DEF Lock, Connected
<1>3. ASSUME NEW t \in Turns, Connect(t) \/ Insert(t) PROVE TypeOK'
  BY <1>3 DEF Connect, Insert
<1>4. ASSUME NEW t \in Turns, Commit(t) PROVE TypeOK'
  BY <1>4 DEF Commit, Returns, Cutoff
<1>5. ASSUME NEW t \in Turns, Delete(t) \/ Purged(t) PROVE TypeOK'
  BY <1>5 DEF Delete, Purged, Returns
<1>6. ASSUME NEW t \in Turns, Abandon(t) PROVE TypeOK'
  BY <1>6 DEF Abandon, Unlocks
<1>7. CASE Shutdown \/ CloseStore \/ StoreClosed \/ NoStore \/ Flushed \/ Tick
  BY <1>7 DEF Shutdown, CloseStore, StoreClosed, NoStore, Flushed, Tick
<1>8. CASE Restart
  BY <1>8 DEF Restart, Never
<1>9. CASE UNCHANGED vars
  BY <1>9
<1> QED BY <1>1, <1>2, <1>3, <1>4, <1>5, <1>6, <1>7, <1>8, <1>9, Steps

LEMMA ConnectionNext ==
  ASSUME TypeOK, Connection, [Next]_vars
  PROVE  Connection'
<1> USE DEF TypeOK, Phases, Connection
<1>1. ASSUME NEW t \in Turns, Finish(t) PROVE Connection'
  BY <1>1 DEF Finish, Connected
<1>2. ASSUME NEW t \in Turns, Lock(t) PROVE Connection'
  BY <1>2 DEF Lock, LooksAgain, Connected
<1>3. ASSUME NEW t \in Turns, Connect(t) PROVE Connection'
  BY <1>3 DEF Connect
<1>4. ASSUME NEW t \in Turns, Insert(t) \/ Commit(t) \/ Delete(t) \/ Purged(t) PROVE Connection'
  BY <1>4 DEF Insert, Commit, Delete, Purged, Returns
<1>5. ASSUME NEW t \in Turns, Abandon(t) PROVE Connection'
  BY <1>5 DEF Abandon, Unlocks
<1>6. CASE Shutdown \/ StoreClosed \/ NoStore \/ Flushed \/ Tick \/ UNCHANGED vars
  BY <1>6 DEF Shutdown, StoreClosed, NoStore, Flushed, Tick
<1>7. CASE CloseStore
  BY <1>7 DEF CloseStore
<1>8. CASE Restart
  BY <1>8 DEF Restart
<1> QED BY <1>1, <1>2, <1>3, <1>4, <1>5, <1>6, <1>7, <1>8, Steps

LEMMA RecordedNext ==
  ASSUME TypeOK, Recorded, [Next]_vars
  PROVE  Recorded'
<1> USE DEF TypeOK, Phases, Recorded, Log!Record
<1>1. ASSUME NEW t \in Turns, Finish(t) PROVE Recorded'
  BY <1>1 DEF Finish, Connected
<1>2. ASSUME NEW t \in Turns, Lock(t) \/ Connect(t) \/ Insert(t) \/ Abandon(t) PROVE Recorded'
  BY <1>2 DEF Lock, Connect, Insert, Abandon, Connected
<1>3. ASSUME NEW t \in Turns, Commit(t) \/ Delete(t) \/ Purged(t) PROVE Recorded'
  BY <1>3 DEF Commit, Delete, Purged, Returns
<1>4. CASE Tick
  <2>1. \A at \in 0 .. clock : at \in 0 .. clock'
    BY <1>4 DEF Tick
  <2> QED BY <1>4, <2>1 DEF Tick
<1>5. CASE Shutdown \/ StoreClosed \/ NoStore \/ Flushed \/ UNCHANGED vars
  BY <1>5 DEF Shutdown, StoreClosed, NoStore, Flushed
<1>6. CASE CloseStore \/ Restart
  BY <1>6 DEF CloseStore, Restart
<1> QED BY <1>1, <1>2, <1>3, <1>4, <1>5, <1>6, Steps

LEMMA CutoffsNext ==
  ASSUME TypeOK, Cutoffs, [Next]_vars
  PROVE  Cutoffs'
<1> USE DEF TypeOK, Phases, Cutoffs
<1>1. ASSUME NEW t \in Turns, Finish(t) \/ Lock(t) \/ Connect(t) \/ Insert(t) \/ Abandon(t) PROVE Cutoffs'
  BY <1>1 DEF Finish, Lock, Connect, Insert, Abandon, Connected
<1>2. ASSUME NEW t \in Turns, Commit(t) PROVE Cutoffs'
  BY <1>2 DEF Commit, Returns, Cutoff
<1>3. ASSUME NEW t \in Turns, Delete(t) \/ Purged(t) PROVE Cutoffs'
  BY <1>3 DEF Delete, Purged, Returns
<1>4. CASE Shutdown \/ StoreClosed \/ NoStore \/ Flushed \/ Tick \/ UNCHANGED vars
  BY <1>4 DEF Shutdown, StoreClosed, NoStore, Flushed, Tick
<1>5. CASE CloseStore \/ Restart
  BY <1>5 DEF CloseStore, Restart
<1> QED BY <1>1, <1>2, <1>3, <1>4, <1>5, Steps

-----------------------------------------------------------------------------
LEMMA KeptNext ==
  ASSUME TypeOK, Recorded, Cutoffs, Kept, [Next]_vars
  PROVE  Kept'
<1> USE DEF TypeOK, Phases, Kept, Seen, Safe, TooOld, Expired
<1>0. \A t \in Turns : pc[t] \in InFlight => rec[t].at \in Nat
  BY DEF Recorded, Log!Record
<1>1. ASSUME NEW t \in Turns, Finish(t) PROVE Kept'
  BY <1>1 DEF Finish, Connected
<1>2. ASSUME NEW t \in Turns, Lock(t) \/ Connect(t) \/ Abandon(t) PROVE Kept'
  BY <1>2 DEF Lock, Connect, Abandon, Connected
<1>3. ASSUME NEW t \in Turns, Insert(t) PROVE Kept'
  BY <1>3 DEF Insert
<1>4. ASSUME NEW t \in Turns, Commit(t) PROVE Kept'
  BY <1>0, <1>4 DEF Commit, Commits, Returns
<1>5. ASSUME NEW t \in Turns, Delete(t) PROVE Kept'
  <2>1. \A r : r \in rows /\ r.at \in Nat => r \in rows' \/ TooOld(r)'
    BY <1>5 DEF Delete, Cutoffs
  <2> QED BY <1>0, <1>5, <2>1 DEF Delete
<1>6. ASSUME NEW t \in Turns, Purged(t) PROVE Kept'
  BY <1>0, <1>6 DEF Purged, Commits, Returns
<1>7. CASE Shutdown \/ StoreClosed \/ NoStore \/ Flushed \/ UNCHANGED vars
  BY <1>7 DEF Shutdown, StoreClosed, NoStore, Flushed
<1>8. CASE CloseStore \/ Restart
  BY <1>8 DEF CloseStore, Restart
<1>9. CASE Tick
  <2>1. \A r : r.at \in Nat /\ TooOld(r) => TooOld(r)'
    BY <1>9 DEF Tick
  <2> QED BY <1>0, <1>9, <2>1 DEF Tick
<1> QED BY <1>1, <1>2, <1>3, <1>4, <1>5, <1>6, <1>7, <1>8, <1>9, Steps

-----------------------------------------------------------------------------
LEMMA InitInv == Init => IInv
<1> SUFFICES ASSUME Init PROVE IInv
  OBVIOUS
<1> USE DEF Init
<1>1. TypeOK
  BY DEF TypeOK, Phases, Blank, Never
<1>2. Connection /\ Recorded /\ Cutoffs /\ Kept
  BY DEF Connection, Recorded, Cutoffs, Kept
<1> QED BY <1>1, <1>2 DEF IInv

LEMMA NextInv == IInv /\ [Next]_vars => IInv'
BY TypeNext, ConnectionNext, RecordedNext, CutoffsNext, KeptNext DEF IInv

(* IInv holds throughout. *)
THEOREM Invariance == Spec => []IInv
BY InitInv, NextInv, PTL DEF Spec

LEMMA One == IInv => OneConnection
BY DEF IInv, Connection, OneConnection

(* One connection is opened and the lock belongs to its opener             *)
(* (OneConnection): _conn of SqliteUsageStore.                             *)
THEOREM SingleConnection == Spec => []OneConnection
BY Invariance, One, PTL

LEMMA Keeps == IInv => AckedKept
BY DEF IInv, Kept, Safe, TooOld, AckedKept

(* The record of an append that returned stays on the disk until it is     *)
(* older than the retention (AckedKept), whatever crashes, closes, purges  *)
(* or is cancelled beside it.                                              *)
THEOREM KeepsAcked == Spec => []AckedKept
BY Invariance, Keeps, PTL

-----------------------------------------------------------------------------
(* The refinement. *)

LEMMA LogInit == Init => Log!Init
BY DEF Init, Log!Init

LEMMA LogStep ==
  ASSUME IInv, [Next]_vars
  PROVE  [Log!LogNext]_(Log!logVars)
<1> DEFINE used == {t \in Turns : pc[t] \in {"commit", "delete", "purge", "done", "failed", "lost"}}
<1> USE DEF IInv, TypeOK, Phases, Log!LogNext, Log!logVars
<1>1. ASSUME NEW t \in Turns, Finish(t) PROVE [Log!LogNext]_(Log!logVars)
  BY <1>1 DEF Finish, Connected, Log!Adds
<1>2. ASSUME NEW t \in Turns, Lock(t) PROVE [Log!LogNext]_(Log!logVars)
  BY <1>2 DEF Lock, Connected, Log!Adds
<1>3. ASSUME NEW t \in Turns, Connect(t) PROVE [Log!LogNext]_(Log!logVars)
  BY <1>3 DEF Connect
<1>4. ASSUME NEW t \in Turns, Insert(t) PROVE [Log!LogNext]_(Log!logVars)
  BY <1>4 DEF Insert, Recorded, Log!Adds
<1>5. ASSUME NEW t \in Turns, Commit(t) PROVE [Log!LogNext]_(Log!logVars)
  BY <1>5 DEF Commit, Commits, Returns, Log!Settle
<1>6. ASSUME NEW t \in Turns, Delete(t) PROVE [Log!LogNext]_(Log!logVars)
  BY <1>6 DEF Delete, Cutoffs, Expired, Log!Expired, Log!Purge
<1>7. ASSUME NEW t \in Turns, Purged(t) PROVE [Log!LogNext]_(Log!logVars)
  BY <1>7 DEF Purged, Commits, Returns, Log!Settle
<1>8. ASSUME NEW t \in Turns, Abandon(t) PROVE [Log!LogNext]_(Log!logVars)
  BY <1>8 DEF Abandon, Log!Adds
<1>9. CASE Shutdown \/ StoreClosed \/ NoStore \/ Flushed \/ UNCHANGED vars
  BY <1>9 DEF Shutdown, StoreClosed, NoStore, Flushed
<1>10. CASE CloseStore
  <2>1. used' = used \cup {t \in Turns : pc[t] \in InFlight \ {"lock", "connect"}}
    BY <1>10 DEF CloseStore
  <2>2. rows' = disk /\ UNCHANGED <<clock, disk>>
    BY <1>10 DEF CloseStore
  <2> QED BY <2>1, <2>2 DEF Log!Restart
<1>11. CASE Restart
  <2>1. used' = used \cup {t \in Turns : pc[t] \in InFlight}
    BY <1>11 DEF Restart
  <2>2. rows' = disk /\ UNCHANGED <<clock, disk>>
    BY <1>11 DEF Restart
  <2> QED BY <2>1, <2>2 DEF Log!Restart
<1>12. CASE Tick
  BY <1>12 DEF Tick, Log!Tick
<1> QED BY <1>1, <1>2, <1>3, <1>4, <1>5, <1>6, <1>7, <1>8, <1>9, <1>10, <1>11, <1>12, Steps

(* SqliteUsageStore, with its awaits, its one transaction, shutdown and    *)
(* restarts, is step by step a UsageLog (Logged).                          *)
THEOREM Refinement == Spec => Logged
<1>1. Init => Log!Init
  BY LogInit
<1>2. IInv /\ [Next]_vars => [Log!LogNext]_(Log!logVars)
  BY LogStep
<1> QED BY <1>1, <1>2, Invariance, PTL DEF Spec, Logged, Log!LogSpec
=============================================================================
