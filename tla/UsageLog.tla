------------------------------ MODULE UsageLog ------------------------------
(***************************************************************************)
(* What a usage store does, seen from its callers: MemoryUsageStore        *)
(* (usage/store.py), whose appends are one step and whose records never    *)
(* settle, and the promise that SqliteUsageStore keeps (UsageStore).       *)
(* Reports are read from it (UsageReports).                                *)
(***************************************************************************)
EXTENDS Integers

CONSTANTS
  Turns,        \* turns that finish
  Billed,       \* the organisations they may be billed to
  Retention,    \* host_usage_retention_days, in ticks of the clock
  MaxClock      \* bound

ASSUME TimesAssumption == Retention \in Nat /\ MaxClock \in Nat

VARIABLES
  clock,
  used,       \* turns whose record was made
  records,    \* what a query finds
  settled     \* what a restart leaves

logVars == <<clock, used, records, settled>>

Init == clock = 0 /\ used = {} /\ records = {} /\ settled = {}

Record(t, o, at) == [turn |-> t, org |-> o, at |-> at]
Expired(r, limit) == r.at < limit

(* record_usage makes one record of a finished turn, and append adds it,   *)
(* at once or, when it had to wait, later; or never.                       *)
Adds(t) ==
  /\ t \notin used
  /\ used' = used \cup {t}
  /\ \/ \E o \in Billed, at \in 0 .. clock : records' = records \cup {Record(t, o, at)}
     \/ UNCHANGED records
  /\ UNCHANGED <<clock, settled>>

Settle == settled' = records /\ UNCHANGED <<clock, used, records>>

(* purge removes what is older than the retention was when it began. *)
Purge ==
  /\ \E limit \in -Retention .. clock - Retention :
       records' = {r \in records : ~Expired(r, limit)}
  /\ UNCHANGED <<clock, used, settled>>

(* A restart, or the end of the store: appends under way are lost. *)
Restart ==
  /\ records' = settled
  /\ \E lost \in SUBSET Turns : used' = used \cup lost
  /\ UNCHANGED <<clock, settled>>

Tick ==
  /\ clock < MaxClock
  /\ clock' = clock + 1
  /\ UNCHANGED <<used, records, settled>>

LogNext == (\E t \in Turns : Adds(t)) \/ Settle \/ Purge \/ Restart \/ Tick

LogSpec == Init /\ [][LogNext]_logVars
=============================================================================
