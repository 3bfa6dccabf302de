------------------------ MODULE RuntimeRegistryProofs ------------------------
(* What holds of the runtime cache for every set of tenants, requests and  *)
(* runtimes, every cap and every number of config changes.                 *)
EXTENDS RuntimeRegistry, FiniteSetTheorems, TLAPS

USE DEF Versions, Locked, Looking, Closing, PCs, Leased, Idle, Matches, Stamp, LastRelease, ToClose

(* The locals a suspended task will use again are set. *)
LocalsOK ==
  \A t \in Tasks :
    /\ pc[t] \in Looking \cup {"held"} => want[t] \in Orgs
    /\ pc[t] \in {"peek", "peeked", "closeLru", "held"} => ent[t] \in Runtimes

Typed == StateOK /\ LocalsOK

LEMMA InitTyped == Init => Typed
BY BoundAssumption, NullAssumption DEF Init, Typed, StateOK, LocalsOK

LEMMA FastPathTyped ==
  ASSUME Typed, NEW t \in Tasks, FastPath(t)
  PROVE  Typed'
<1> USE BoundAssumption, NullAssumption
        DEF Typed, StateOK, LocalsOK, vars, files, registry, entries, life, locals, Cached
<1>1. CASE \E o \in Orgs : Miss(t, o) \/ Peek(t, o)
  BY <1>1 DEF Miss, Peek, Ask, Goto
<1>2. CASE \E o \in Orgs : Hit(t, o)
  BY <1>2 DEF Hit, Ask, Goto, MoveToEnd, Forget
<1>3. CASE PeekRead(t)
  BY <1>3 DEF PeekRead, ReadFingerprint, Goto
<1>4. CASE PeekFresh(t)
  BY <1>4 DEF PeekFresh, Return, Leave, Goto, MoveToEnd, Forget
<1>5. CASE PeekKeyError(t) \/ PeekChanged(t) \/ Answer500(t)
  BY <1>5 DEF PeekKeyError, PeekChanged, Answer500, Leave, Goto
<1> QED
  BY <1>1, <1>2, <1>3, <1>4, <1>5 DEF FastPath

(* What a lookup that returns r leaves in the task and in the counter. *)
LEMMA ReturnTyped ==
  ASSUME Typed, NEW t \in Tasks, NEW r \in Runtimes, want[t] \in Orgs, Return(t, r)
  PROVE  /\ leases' \in [Runtimes -> Int]
         /\ pc' \in [Tasks -> PCs]
         /\ want' \in [Tasks -> Orgs \cup {NoOrg}]
         /\ ent' \in [Tasks -> Runtimes \cup {NoRuntime}]
         /\ seen' \in [Tasks -> Versions] /\ src' \in [Tasks -> Versions]
         /\ LocalsOK'
BY BoundAssumption, NullAssumption DEF Typed, StateOK, LocalsOK, Return, Leave, Goto

LEMMA SlowPathTyped ==
  ASSUME Typed, NEW t \in Tasks, SlowPath(t)
  PROVE  Typed'
<1> USE BoundAssumption, NullAssumption
        DEF Typed, StateOK, LocalsOK, vars, files, registry, entries, life, locals, Cached
<1>1. CASE Lock(t) \/ CheckRead(t) \/ CheckMiss(t)
  BY <1>1 DEF Lock, CheckRead, ReadFingerprint, CheckMiss, Goto
<1>2. CASE CheckHit(t)
  BY <1>2 DEF CheckHit, Return, Leave, Goto, Unlock, MoveToEnd, Forget
<1>3. CASE CheckChanged(t)
  BY <1>3 DEF CheckChanged, BeginClose, Goto, Forget
<1>4. CASE OldClosed(t) \/ LoadRead(t)
  BY <1>4 DEF OldClosed, LoadRead, EndClose, Goto
<1>5. ASSUME NEW r \in Runtimes, Built(t, r) PROVE Typed'
  <2>1. want[t] \in Orgs /\ Return(t, r)
    BY <1>5 DEF Built, NewEntry
  <2> QED
    BY <1>5, <2>1, ReturnTyped DEF Built, NewEntry, Unlock, MoveToEnd, Forget
<1>6. ASSUME NEW r \in Runtimes, NEW v \in Orgs, BuiltEvictBusy(t, r, v) PROVE Typed'
  <2>1. want[t] \in Orgs /\ Return(t, r)
    BY <1>6 DEF BuiltEvictBusy, BuiltOver, NewEntry
  <2> QED
    BY <1>6, <2>1, ReturnTyped
    DEF BuiltEvictBusy, BuiltOver, NewEntry, IsOldest, Unlock, MoveToEnd, Forget
<1>7. ASSUME NEW r \in Runtimes, NEW v \in Orgs, BuiltEvictIdle(t, r, v) PROVE Typed'
  BY <1>7 DEF BuiltEvictIdle, BuiltOver, NewEntry, IsOldest, Goto, MoveToEnd, Forget
<1>8. CASE LruClosed(t)
  <2>1. want[t] \in Orgs /\ ent[t] \in Runtimes /\ Return(t, ent[t])
    BY <1>8 DEF LruClosed
  <2> QED
    BY <1>8, <2>1, ReturnTyped DEF LruClosed, EndClose, Unlock
<1>9. CASE BuildFails(t)
  BY <1>9 DEF BuildFails, Leave, Goto, Unlock
<1> QED
  BY <1>1, <1>2, <1>3, <1>4, <1>5, <1>6, <1>7, <1>8, <1>9 DEF SlowPath

LEMMA NextTyped == Typed /\ [Next]_vars => Typed'
<1> SUFFICES ASSUME Typed, [Next]_vars PROVE Typed'
  OBVIOUS
<1> USE BoundAssumption, NullAssumption
        DEF Typed, StateOK, LocalsOK, vars, files, registry, entries, life, locals, Cached
<1>1. ASSUME NEW t \in Tasks, Abandon(t) \/ CancelClose(t) PROVE Typed'
  BY <1>1 DEF Abandon, CancelClose, Leave, Goto, Unlock
<1>2. ASSUME NEW t \in Tasks, Release(t) PROVE Typed'
  BY <1>2 DEF Release, BeginClose, Leave, Goto
<1>3. ASSUME NEW t \in Tasks, RelClosed(t) PROVE Typed'
  BY <1>3 DEF RelClosed, EndClose, Leave, Goto
<1>4. CASE Shutdown
  <2>1. {cache[o] : o \in Cached} \subseteq Runtimes
    OBVIOUS
  <2> QED
    BY <1>4, <2>1 DEF Shutdown
<1>5. ASSUME NEW r \in Runtimes, ShutdownClose(r) \/ ShutdownClosed(r) PROVE Typed'
  <2>1. CASE ShutdownClose(r)
    BY <2>1 DEF ShutdownClose, BeginClose
  <2>2. CASE ShutdownClosed(r)
    BY <2>2 DEF ShutdownClosed, EndClose
  <2> QED
    BY <1>5, <2>1, <2>2
<1>6. CASE Edits
  BY <1>6 DEF Edits, Write, Restore, Move
<1>7. CASE UNCHANGED vars
  BY <1>7
<1> QED
  BY FastPathTyped, SlowPathTyped, <1>1, <1>2, <1>3, <1>4, <1>5, <1>6, <1>7 DEF Next

(* The histories only ever collect states of the files. *)
LEMMA NextHistory == Typed /\ HistoryOK /\ [Next]_vars => HistoryOK'
<1> SUFFICES ASSUME Typed, HistoryOK, [Next]_vars PROVE HistoryOK'
  OBVIOUS
<1> USE DEF Typed, StateOK, HistoryOK, vars, files, locals
<1>1. ASSUME UNCHANGED files,
             \/ UNCHANGED during
             \/ \E t \in Tasks : during' = [during EXCEPT ![t] = {}]
             \/ \E t \in Tasks, o \in Orgs : during' = [during EXCEPT ![t] = {version[o]}]
      PROVE  HistoryOK'
  <2>1. \A o \in Orgs : {version[o]} \in SUBSET Versions
    OBVIOUS
  <2>2. \A t \in Tasks, S \in SUBSET Versions :
          [during EXCEPT ![t] = S] \in [Tasks -> SUBSET Versions]
    OBVIOUS
  <2>3. during' \in [Tasks -> SUBSET Versions]
    <3>1. CASE UNCHANGED during
      BY <3>1
    <3>2. ASSUME NEW t \in Tasks, during' = [during EXCEPT ![t] = {}]
          PROVE  during' \in [Tasks -> SUBSET Versions]
      BY <2>2, <3>2
    <3>3. ASSUME NEW t \in Tasks, NEW o \in Orgs, during' = [during EXCEPT ![t] = {version[o]}]
          PROVE  during' \in [Tasks -> SUBSET Versions]
      BY <2>1, <2>2, <3>3
    <3> QED
      BY <1>1, <3>1, <3>2, <3>3
  <2> QED
    BY <1>1, <2>3
<1>2. ASSUME NEW t \in Tasks, FastPath(t) PROVE HistoryOK'
  BY <1>1, <1>2
  DEF FastPath, Miss, Hit, Peek, Ask, PeekRead, ReadFingerprint, PeekFresh, PeekKeyError,
      PeekChanged, Answer500, Return, Leave
<1>3. ASSUME NEW t \in Tasks, SlowPath(t) PROVE HistoryOK'
  BY <1>1, <1>3
  DEF SlowPath, Lock, CheckRead, ReadFingerprint, CheckHit, CheckMiss, CheckChanged, OldClosed,
      LoadRead, LruClosed, BuildFails, Built, BuiltEvictBusy, BuiltEvictIdle, Return, Leave
<1>4. ASSUME NEW t \in Tasks, Abandon(t) \/ Release(t) \/ RelClosed(t) \/ CancelClose(t)
      PROVE  HistoryOK'
  BY <1>1, <1>4 DEF Abandon, Release, RelClosed, CancelClose, Leave
<1>5. CASE Edits
  BY <1>5, BoundAssumption DEF Edits, Write, Restore, Move
<1>6. CASE Shutdown \/ (\E q \in Runtimes : ShutdownClose(q) \/ ShutdownClosed(q))
           \/ UNCHANGED vars
  BY <1>6 DEF Shutdown, ShutdownClose, ShutdownClosed
<1> QED
  BY <1>2, <1>3, <1>4, <1>5, <1>6 DEF Next

(* The state of the cache always has its type. *)
THEOREM TypeCorrect == Spec => []TypeOK
<1>1. Init => Typed /\ HistoryOK
  BY InitTyped, BoundAssumption DEF Init, HistoryOK
<1>2. Typed /\ HistoryOK => TypeOK
  BY DEF Typed, TypeOK
<1> QED
  BY <1>1, NextTyped, NextHistory, <1>2, PTL DEF Spec

-----------------------------------------------------------------------------
(* The shape of the cache: which entries may be where.                     *)

LockOK == \A t \in Tasks : pc[t] \in Locked <=> lock = t

CachedOK ==
  \A o \in Orgs : cache[o] # NoRuntime =>
    /\ phase[cache[o]] = "open" /\ ~retired[cache[o]] /\ orgOf[cache[o]] = o
    /\ cache[o] \notin retiring /\ cache[o] \notin doomed

RetiringOK ==
  \A r \in retiring :
    phase[r] = "open" /\ retired[r] /\ leases[r] > 0 /\ r \notin doomed

PhaseOK ==
  \A r \in Runtimes :
    /\ phase[r] = "unbuilt" => ~retired[r]
    /\ closer[r] # NoTask => phase[r] = "closing"
    /\ r \in doomed => phase[r] = "open"
    /\ phase[r] = "open" =>
         r \in doomed \/ r \in retiring \/ (orgOf[r] \in Orgs /\ cache[orgOf[r]] = r)

PathOK ==
  \A t \in Tasks :
    /\ pc[t] \in {"closeOld", "load", "build"} => cache[want[t]] = NoRuntime
    /\ pc[t] = "closeLru" => cache[want[t]] = ent[t]
    /\ pc[t] \in {"peek", "peeked", "held"} =>
         phase[ent[t]] # "unbuilt" /\ orgOf[ent[t]] = want[t]

DownOK ==
  /\ up => doomed = {}
  /\ ~up => /\ retiring = {} /\ \A o \in Orgs : cache[o] = NoRuntime
            /\ \A t \in Tasks : pc[t] \in {"idle", "held", "closeRel"}

Shape == LockOK /\ CachedOK /\ RetiringOK /\ PhaseOK /\ PathOK /\ DownOK

LEMMA InitShape == Init => Shape
BY NullAssumption
DEF Init, Shape, LockOK, CachedOK, RetiringOK, PhaseOK, PathOK, DownOK

LEMMA FastPathShape ==
  ASSUME Typed, Shape, NEW t \in Tasks, FastPath(t)
  PROVE  Shape'
<1> USE NullAssumption
        DEF Typed, StateOK, LocalsOK, vars, files, registry, entries, life, locals, Cached,
            Shape, LockOK, CachedOK, RetiringOK, PhaseOK, PathOK, DownOK
<1>1. CASE \E o \in Orgs : Miss(t, o) \/ Peek(t, o)
  BY <1>1 DEF Miss, Peek, Ask, Goto
<1>2. CASE \E o \in Orgs : Hit(t, o)
  BY <1>2 DEF Hit, Ask, Goto
<1>3. CASE PeekRead(t)
  BY <1>3 DEF PeekRead, ReadFingerprint, Goto
<1>4. CASE PeekFresh(t)
  BY <1>4 DEF PeekFresh, Return, Leave, Goto
<1>5. CASE PeekKeyError(t) \/ PeekChanged(t) \/ Answer500(t)
  BY <1>5 DEF PeekKeyError, PeekChanged, Answer500, Leave, Goto
<1> QED
  BY <1>1, <1>2, <1>3, <1>4, <1>5 DEF FastPath

LEMMA SlowPathShape ==
  ASSUME Typed, Shape, NEW t \in Tasks, SlowPath(t)
  PROVE  Shape'
<1> USE NullAssumption
        DEF Typed, StateOK, LocalsOK, vars, files, registry, entries, life, locals, Cached,
            Shape, LockOK, CachedOK, RetiringOK, PhaseOK, PathOK, DownOK
<1>1. CASE Lock(t) \/ CheckRead(t) \/ CheckMiss(t)
  BY <1>1 DEF Lock, CheckRead, ReadFingerprint, CheckMiss, Goto
<1>2. CASE CheckHit(t)
  BY <1>2 DEF CheckHit, Return, Leave, Goto, Unlock
<1>3. CASE CheckChanged(t)
  BY <1>3 DEF CheckChanged, BeginClose, Goto
<1>4. CASE OldClosed(t)
  BY <1>4 DEF OldClosed, EndClose, Goto
<1>5. CASE LoadRead(t) \/ BuildFails(t)
  BY <1>5 DEF LoadRead, BuildFails, Leave, Goto, Unlock
<1>6. ASSUME NEW r \in Runtimes, Built(t, r) PROVE Shape'
  BY <1>6 DEF Built, NewEntry, Return, Leave, Goto, Unlock
<1>7. ASSUME NEW r \in Runtimes, NEW v \in Orgs, BuiltEvictBusy(t, r, v) PROVE Shape'
  <2> USE <1>7 DEF BuiltEvictBusy, BuiltOver, NewEntry, IsOldest
  <2>1. cache[v] \in Runtimes /\ cache[v] # r /\ leases'[cache[v]] > 0
    BY DEF Return
  <2>2. \A q \in Runtimes : leases'[q] >= leases[q]
    BY DEF Return
  <2>3. RetiringOK'
    <3> SUFFICES ASSUME NEW q \in retiring'
                 PROVE  phase'[q] = "open" /\ retired'[q] /\ leases'[q] > 0 /\ q \notin doomed'
      BY DEF RetiringOK
    <3>1. CASE q = cache[v]
      BY <3>1, <2>1
    <3>2. CASE q \in retiring
      <4>1. q \in Runtimes /\ leases[q] > 0 /\ leases'[q] \in Int /\ leases[q] \in Int
        BY <3>2 DEF Return
      <4> QED
        BY <3>2, <4>1, <2>2
    <3> QED
      BY <3>1, <3>2
  <2>4. CachedOK' /\ PhaseOK'
    BY <2>1
  <2>5. LockOK' /\ PathOK' /\ DownOK'
    BY <2>1 DEF Return, Leave, Goto, Unlock
  <2> QED
    BY <2>3, <2>4, <2>5
<1>8. ASSUME NEW r \in Runtimes, NEW v \in Orgs, BuiltEvictIdle(t, r, v) PROVE Shape'
  BY <1>8 DEF BuiltEvictIdle, BuiltOver, NewEntry, IsOldest, Goto
<1>9. CASE LruClosed(t)
  BY <1>9 DEF LruClosed, EndClose, Return, Leave, Goto, Unlock
<1> QED
  BY <1>1, <1>2, <1>3, <1>4, <1>5, <1>6, <1>7, <1>8, <1>9 DEF SlowPath

LEMMA NextShape == Typed /\ Shape /\ [Next]_vars => Shape'
<1> SUFFICES ASSUME Typed, Shape, [Next]_vars PROVE Shape'
  OBVIOUS
<1> USE NullAssumption
        DEF Typed, StateOK, LocalsOK, vars, files, registry, entries, life, locals, Cached,
            Shape, LockOK, CachedOK, RetiringOK, PhaseOK, PathOK, DownOK
<1>1. ASSUME NEW t \in Tasks, Abandon(t) PROVE Shape'
  BY <1>1 DEF Abandon, Leave, Goto, Unlock
<1>2. ASSUME NEW t \in Tasks, CancelClose(t) PROVE Shape'
  BY <1>2 DEF CancelClose, Leave, Goto, Unlock
<1>3. ASSUME NEW t \in Tasks, Release(t) PROVE Shape'
  BY <1>3 DEF Release, BeginClose, Leave, Goto
<1>4. ASSUME NEW t \in Tasks, RelClosed(t) PROVE Shape'
  BY <1>4 DEF RelClosed, EndClose, Leave, Goto
<1>5. CASE Shutdown
  BY <1>5 DEF Shutdown
<1>6. ASSUME NEW r \in Runtimes, ShutdownClose(r) PROVE Shape'
  BY <1>6 DEF ShutdownClose, BeginClose
<1>7. ASSUME NEW r \in Runtimes, ShutdownClosed(r) PROVE Shape'
  BY <1>7 DEF ShutdownClosed, EndClose
<1>8. CASE Edits
  BY <1>8 DEF Edits, Write, Restore, Move
<1>9. CASE UNCHANGED vars
  BY <1>9
<1> QED
  BY FastPathShape, SlowPathShape, <1>1, <1>2, <1>3, <1>4, <1>5, <1>6, <1>7, <1>8, <1>9
  DEF Next

-----------------------------------------------------------------------------
(* The lease counter.                                                      *)

LEMMA SameCounts ==
  ASSUME LeaseCount, leases' = leases, \A r \in Runtimes : Holders(r)' = Holders(r)
  PROVE  LeaseCount'
BY DEF LeaseCount

(* A lease granted adds its task to the holders of one entry, and one to   *)
(* the counter of that entry.                                              *)
LEMMA GrantCounts ==
  ASSUME Typed, LeaseCount, NEW t \in Tasks, pc[t] # "held", NEW r \in Runtimes,
         pc' = [pc EXCEPT ![t] = "held"], ent' = [ent EXCEPT ![t] = r],
         leases' = [leases EXCEPT ![r] = @ + 1]
  PROVE  LeaseCount'
<1> USE DEF Typed, StateOK
<1>1. Holders(r)' = Holders(r) \cup {t} /\ t \notin Holders(r)
  BY DEF Holders
<1>2. \A q \in Runtimes \ {r} : Holders(q)' = Holders(q)
  BY DEF Holders
<1>3. IsFiniteSet(Holders(r))
  BY FiniteAssumption, FS_Subset DEF Holders
<1>4. Cardinality(Holders(r)') = Cardinality(Holders(r)) + 1
  BY <1>1, <1>3, FS_AddElement DEF Holders
<1> QED
  BY <1>2, <1>4 DEF LeaseCount

LEMMA ReturnCounts ==
  ASSUME Typed, LeaseCount, NEW t \in Tasks, pc[t] # "held",
         NEW r \in Runtimes, Return(t, r)
  PROVE  LeaseCount'
<1>1. CASE Leave(t) /\ UNCHANGED leases
  BY <1>1, SameCounts DEF Leave, Goto, Holders, Typed, StateOK
<1> QED
  BY <1>1, GrantCounts DEF Return, Goto

LEMMA ReleaseCounts ==
  ASSUME Typed, LeaseCount, NEW t \in Tasks, Release(t), NEW r \in Runtimes, r = ent[t]
  PROVE  /\ LeaseCount'
         /\ Holders(r)' = Holders(r) \ {t}
         /\ \A q \in Runtimes \ {r} : Holders(q)' = Holders(q)
<1> USE DEF Typed, StateOK
<1>1. pc[t] = "held" /\ leases' = [leases EXCEPT ![r] = @ - 1]
  BY DEF Release
<1>2. /\ pc'[t] # "held"
      /\ \A u \in Tasks \ {t} : pc'[u] = pc[u] /\ ent'[u] = ent[u]
  BY DEF Release, Leave, Goto, locals
<1>3. t \in Holders(r) /\ Holders(r)' = Holders(r) \ {t}
  BY <1>1, <1>2 DEF Holders
<1>4. \A q \in Runtimes \ {r} : Holders(q)' = Holders(q)
  BY <1>1, <1>2 DEF Holders
<1>5. IsFiniteSet(Holders(r))
  BY FiniteAssumption, FS_Subset DEF Holders
<1>6. Cardinality(Holders(r)') = Cardinality(Holders(r)) - 1
  <2>1. Cardinality(Holders(r) \ {t}) = Cardinality(Holders(r)) - 1
    BY <1>3, <1>5, FS_RemoveElement
  <2> QED
    BY <1>3, <2>1
<1> QED
  BY <1>1, <1>3, <1>4, <1>6 DEF LeaseCount

LEMMA NextLeaseCount == Typed /\ LeaseCount /\ [Next]_vars => LeaseCount'
<1> SUFFICES ASSUME Typed, LeaseCount, [Next]_vars PROVE LeaseCount'
  OBVIOUS
<1> USE DEF vars, files, registry, entries, life, locals
<1>1. ASSUME NEW t \in Tasks, NEW o \in Orgs, Hit(t, o) PROVE LeaseCount'
  <2>1. cache[o] \in Runtimes
    BY <1>1 DEF Hit, Cached, Typed, StateOK
  <2>2. CASE UNCHANGED <<pc, leases, want, during, ent>>
    BY <2>2, SameCounts DEF Holders
  <2> QED
    BY <1>1, <2>1, <2>2, GrantCounts DEF Hit, Ask, Goto
<1>2. ASSUME NEW t \in Tasks, PeekFresh(t) PROVE LeaseCount'
  BY <1>2, ReturnCounts DEF PeekFresh, Typed, LocalsOK
<1>3. ASSUME NEW t \in Tasks, CheckHit(t) PROVE LeaseCount'
  BY <1>3, ReturnCounts DEF CheckHit, Cached, Typed, StateOK, LocalsOK
<1>4. ASSUME NEW t \in Tasks, NEW r \in Runtimes,
             Built(t, r) \/ \E v \in Orgs : BuiltEvictBusy(t, r, v)
      PROVE  LeaseCount'
  BY <1>4, ReturnCounts DEF Built, BuiltEvictBusy, BuiltOver, NewEntry
<1>5. ASSUME NEW t \in Tasks, LruClosed(t) PROVE LeaseCount'
  BY <1>5, ReturnCounts DEF LruClosed, Typed, LocalsOK
<1>6. ASSUME NEW t \in Tasks, Release(t) PROVE LeaseCount'
  BY <1>6, ReleaseCounts DEF Release, Typed, LocalsOK
<1>7. ASSUME NEW t \in Tasks,
             \/ \E o \in Orgs : Miss(t, o) \/ Peek(t, o)
             \/ PeekRead(t) \/ PeekKeyError(t) \/ PeekChanged(t) \/ Answer500(t)
             \/ Lock(t) \/ CheckRead(t) \/ CheckMiss(t) \/ CheckChanged(t)
             \/ OldClosed(t) \/ LoadRead(t) \/ BuildFails(t)
             \/ Abandon(t) \/ RelClosed(t) \/ CancelClose(t)
             \/ \E r \in Runtimes, v \in Orgs : BuiltEvictIdle(t, r, v)
      PROVE  LeaseCount'
  <2>1. leases' = leases /\ pc[t] # "held" /\ pc'[t] # "held"
        /\ \A u \in Tasks \ {t} : pc'[u] = pc[u] /\ ent'[u] = ent[u]
    BY <1>7
    DEF Typed, StateOK, Miss, Peek, Ask, PeekRead, ReadFingerprint, PeekKeyError, PeekChanged,
        Answer500, Lock, CheckRead, CheckMiss, CheckChanged, OldClosed, LoadRead,
        BuildFails, Abandon, RelClosed, CancelClose, BuiltEvictIdle, BuiltOver, NewEntry,
        Goto, Leave
  <2> QED
    BY <2>1, SameCounts DEF Holders
<1>8. CASE Shutdown \/ (\E r \in Runtimes : ShutdownClose(r) \/ ShutdownClosed(r))
           \/ Edits \/ UNCHANGED vars
  BY <1>8, SameCounts DEF Shutdown, ShutdownClose, ShutdownClosed, Edits, Write, Restore, Move, Holders
<1> QED
  BY <1>1, <1>2, <1>3, <1>4, <1>5, <1>6, <1>7, <1>8 DEF Next, FastPath, SlowPath

-----------------------------------------------------------------------------
(* Who may start a close: the four steps that do, and no other.            *)

(* The step of task t (or of the host) that starts to close entry r. *)
Closes(r, who) ==
  \/ who \in Tasks /\ CheckChanged(who) /\ cache[want[who]] = r
  \/ \E q \in Runtimes, v \in Orgs : BuiltEvictIdle(who, q, v) /\ r = cache[v]
  \/ who \in Tasks /\ Release(who) /\ ent[who] = r /\ r \in retiring
  \/ who = Host /\ ShutdownClose(r)

LEMMA CloseStarts ==
  ASSUME Typed, Shape, [Next]_vars, NEW r \in Runtimes,
         \/ phase[r] # "closing" /\ phase'[r] = "closing"
         \/ closer'[r] \notin {closer[r], NoTask}
  PROVE  \E who \in Tasks \cup {Host} : Closes(r, who)
<1> USE DEF Typed, StateOK, LocalsOK, vars, files, registry, entries, life, locals
<1>1. CASE \E t \in Tasks : FastPath(t) \/ Abandon(t)
  BY <1>1
  DEF FastPath, Miss, Hit, Peek, PeekRead, ReadFingerprint, PeekFresh, PeekKeyError,
      PeekChanged, Answer500, Abandon
<1>2. ASSUME NEW t \in Tasks, Release(t) PROVE Closes(r, t)
  BY <1>2 DEF Closes, Release, BeginClose
<1>3. ASSUME NEW t \in Tasks, CheckChanged(t) PROVE Closes(r, t)
  BY <1>3 DEF Closes, CheckChanged, BeginClose, Cached
<1>4. ASSUME NEW t \in Tasks, NEW q \in Runtimes, NEW v \in Orgs, BuiltEvictIdle(t, q, v)
      PROVE  Closes(r, t)
  BY <1>4 DEF Closes, BuiltEvictIdle, BuiltOver, NewEntry, IsOldest, Cached
<1>5. ASSUME NEW q \in Runtimes, ShutdownClose(q) PROVE Closes(r, Host)
  BY <1>5 DEF Closes, ShutdownClose, BeginClose
<1>6. ASSUME NEW t \in Tasks,
             \/ Lock(t) \/ CheckRead(t) \/ CheckHit(t) \/ CheckMiss(t) \/ OldClosed(t)
             \/ LoadRead(t) \/ LruClosed(t) \/ BuildFails(t) \/ RelClosed(t) \/ CancelClose(t)
      PROVE  FALSE
  BY <1>6
  DEF Lock, CheckRead, ReadFingerprint, CheckHit, CheckMiss, OldClosed, LoadRead,
      LruClosed, BuildFails, RelClosed, CancelClose, EndClose
<1>7. ASSUME NEW t \in Tasks, NEW q \in Runtimes,
             Built(t, q) \/ \E v \in Orgs : BuiltEvictBusy(t, q, v)
      PROVE  FALSE
  BY <1>7 DEF Built, BuiltEvictBusy
<1>8. CASE Shutdown \/ (\E q \in Runtimes : ShutdownClosed(q))
           \/ Edits \/ UNCHANGED vars
  BY <1>8 DEF Shutdown, ShutdownClosed, EndClose, Edits, Write, Restore, Move
<1> QED
  BY <1>1, <1>2, <1>3, <1>4, <1>5, <1>6, <1>7, <1>8 DEF Next, SlowPath

(* Only an open runtime is closed: one that is cached, retiring or doomed. *)
LEMMA ClosesOpen ==
  ASSUME Typed, Shape, NEW r \in Runtimes, NEW who \in Tasks \cup {Host}, Closes(r, who)
  PROVE  phase[r] = "open"
BY DEF Typed, StateOK, Shape, CachedOK, RetiringOK, PhaseOK, Closes, CheckChanged,
       BuiltEvictIdle, BuiltOver, IsOldest, Cached, ShutdownClose

(* Before shutdown, only a runtime without a lease is closed. *)
LEMMA ClosesIdle ==
  ASSUME Typed, Shape, LeaseCount, up, NEW r \in Runtimes,
         NEW who \in Tasks \cup {Host}, Closes(r, who), phase'[r] = "closing"
  PROVE  Holders(r)' = {}
<1> USE DEF Typed, StateOK
<1>0. IsFiniteSet(Holders(r)) /\ leases[r] = Cardinality(Holders(r))
      /\ Cardinality(Holders(r)) \in Nat
  BY FiniteAssumption, FS_Subset, FS_CardinalityType DEF Holders, LeaseCount
<1>1. CASE who \in Tasks /\ CheckChanged(who) /\ cache[want[who]] = r
  <2>1. leases[r] <= 0
    BY <1>1, ClosesOpen DEF CheckChanged
  <2>2. Holders(r) = {}
    BY <2>1, <1>0, FS_EmptySet
  <2> QED
    BY <1>1, <2>2 DEF CheckChanged, Goto, Holders, locals, BeginClose
<1>2. ASSUME NEW q \in Runtimes, NEW v \in Orgs, BuiltEvictIdle(who, q, v), r = cache[v]
      PROVE  Holders(r)' = {}
  <2>1. leases[r] <= 0
    BY <1>2 DEF BuiltEvictIdle
  <2>2. Holders(r) = {}
    BY <2>1, <1>0, FS_EmptySet
  <2> QED
    BY <1>2, <2>2 DEF BuiltEvictIdle, Goto, Holders
<1>3. CASE who \in Tasks /\ Release(who) /\ ent[who] = r /\ r \in retiring
  <2>1. leases[r] <= 1
    BY <1>3, ClosesOpen DEF Release
  <2>2. LeaseCount'
    BY <1>3, ReleaseCounts
  <2>3. leases'[r] <= 0
    BY <1>3, <2>1 DEF Release
  <2>4. IsFiniteSet(Holders(r)') /\ Cardinality(Holders(r)') = leases'[r]
    BY <2>2, FiniteAssumption, FS_Subset DEF Holders, LeaseCount
  <2> QED
    BY <2>3, <2>4, FS_EmptySet, FS_CardinalityType
<1>4. ~ShutdownClose(r)
  BY DEF Shape, DownOK, ShutdownClose
<1> QED
  BY <1>1, <1>2, <1>3, <1>4 DEF Closes

-----------------------------------------------------------------------------
(* One runtime per tenant, at most MaxTenants in the cache.                *)

LEMMA NextSingleFlight == Typed /\ Shape /\ SingleFlight /\ [Next]_vars => SingleFlight'
<1> SUFFICES ASSUME Typed, Shape, SingleFlight, [Next]_vars PROVE SingleFlight'
  OBVIOUS
<1> USE DEF Typed, StateOK, LocalsOK, vars, files, registry, entries, life, locals, SingleFlight
<1>1. ASSUME NEW t \in Tasks, NEW r \in Runtimes,
             Built(t, r) \/ \E v \in Orgs : BuiltEvictBusy(t, r, v) \/ BuiltEvictIdle(t, r, v)
      PROVE  SingleFlight'
  <2>1. NewEntry(t, r) /\ pc[t] = "build" /\ want[t] \in Orgs
    BY <1>1 DEF Built, BuiltEvictBusy, BuiltEvictIdle, BuiltOver, NewEntry
  <2>2. \A q \in Runtimes : phase[q] = "open" /\ ~retired[q] => orgOf[q] # want[t]
    BY <2>1, NullAssumption DEF Shape, PathOK, PhaseOK, RetiringOK, DownOK
  <2>3. \A q \in Runtimes \ {r} :
          /\ phase'[q] = "open" /\ ~retired'[q] => phase[q] = "open" /\ ~retired[q]
          /\ orgOf'[q] = orgOf[q]
    BY <1>1, <2>1
    DEF Built, BuiltEvictBusy, BuiltEvictIdle, BuiltOver, NewEntry, IsOldest, Cached
  <2> QED
    BY <2>1, <2>2, <2>3 DEF NewEntry
<1>2. ASSUME \A r \in Runtimes : orgOf'[r] = orgOf[r] /\ (retired[r] => retired'[r])
                                 /\ (phase'[r] = "open" => phase[r] = "open")
      PROVE  SingleFlight'
  BY <1>2
<1>3. ASSUME NEW t \in Tasks, FastPath(t) PROVE SingleFlight'
  BY <1>2, <1>3
  DEF FastPath, Miss, Hit, Peek, PeekRead, ReadFingerprint, PeekFresh, PeekKeyError,
      PeekChanged, Answer500
<1>4. ASSUME NEW t \in Tasks,
             \/ Lock(t) \/ CheckRead(t) \/ CheckHit(t) \/ CheckMiss(t) \/ OldClosed(t)
             \/ LoadRead(t) \/ LruClosed(t) \/ BuildFails(t) \/ Abandon(t)
             \/ RelClosed(t) \/ CancelClose(t)
      PROVE  SingleFlight'
  BY <1>2, <1>4
  DEF Lock, CheckRead, ReadFingerprint, CheckHit, CheckMiss, OldClosed, LoadRead,
      LruClosed, BuildFails, Abandon, RelClosed, CancelClose, EndClose
<1>5. ASSUME NEW t \in Tasks, CheckChanged(t) \/ Release(t) PROVE SingleFlight'
  BY <1>2, <1>5 DEF CheckChanged, Release, BeginClose, Cached
<1>6. CASE Shutdown \/ (\E q \in Runtimes : ShutdownClose(q) \/ ShutdownClosed(q))
           \/ Edits \/ UNCHANGED vars
  BY <1>2, <1>6 DEF Shutdown, ShutdownClose, ShutdownClosed, BeginClose, EndClose, Edits, Write, Restore, Move
<1> QED
  BY <1>1, <1>3, <1>4, <1>5, <1>6 DEF Next, SlowPath

LEMMA NextCapHolds == Typed /\ Shape /\ CapHolds /\ [Next]_vars => CapHolds'
<1> SUFFICES ASSUME Typed, Shape, CapHolds, [Next]_vars PROVE CapHolds'
  OBVIOUS
<1> USE DEF Typed, StateOK, LocalsOK, vars, files, registry, entries, life, locals
<1>0. IsFiniteSet(Cached) /\ Cardinality(Cached) \in Nat
  BY FiniteAssumption, FS_Subset, FS_CardinalityType DEF Cached
<1>1. ASSUME Cached' \subseteq Cached PROVE CapHolds'
  <2>1. Cardinality(Cached') <= Cardinality(Cached) /\ Cardinality(Cached') \in Nat
    BY <1>0, <1>1, FS_Subset, FS_CardinalityType
  <2> QED
    BY <1>0, <2>1, BoundAssumption DEF CapHolds
<1>2. ASSUME NEW t \in Tasks, NEW r \in Runtimes, Built(t, r) PROVE CapHolds'
  <2>1. Cached' = Cached \cup {want[t]}
    BY <1>2, NullAssumption DEF Built, NewEntry, Cached
  <2>2. IsFiniteSet(Cached \cup {want[t]}) /\ Cardinality(Cached \cup {want[t]}) \in Nat
    BY <1>0, FS_AddElement, FS_CardinalityType
  <2> QED
    BY <1>2, <2>1, <2>2, BoundAssumption DEF Built, Overflows, CapHolds
<1>3. ASSUME NEW t \in Tasks, NEW r \in Runtimes, NEW v \in Orgs, BuiltOver(t, r, v)
      PROVE  CapHolds'
  <2>1. want[t] \in Orgs \ Cached
    BY <1>3 DEF BuiltOver, NewEntry, Shape, PathOK, Cached
  <2>2. v \in Cached /\ Cached' = (Cached \ {v}) \cup {want[t]}
    BY <1>3, <2>1, NullAssumption DEF BuiltOver, IsOldest, Cached
  <2>3. IsFiniteSet(Cached \ {v}) /\ Cardinality(Cached \ {v}) = Cardinality(Cached) - 1
    BY <1>0, <2>2, FS_RemoveElement
  <2>4. Cardinality((Cached \ {v}) \cup {want[t]}) = Cardinality(Cached)
    <3>1. want[t] \notin Cached \ {v}
      BY <2>1
    <3>2. Cardinality((Cached \ {v}) \cup {want[t]}) = Cardinality(Cached \ {v}) + 1
      BY <2>3, <3>1, FS_AddElement
    <3> QED
      BY <1>0, <2>3, <3>2
  <2> QED
    BY <2>2, <2>4 DEF CapHolds
<1>4. ASSUME NEW t \in Tasks, FastPath(t) PROVE CapHolds'
  BY <1>1, <1>4
  DEF FastPath, Miss, Hit, Peek, PeekRead, ReadFingerprint, PeekFresh, PeekKeyError,
      PeekChanged, Answer500, Cached
<1>5. ASSUME NEW t \in Tasks,
             \/ Lock(t) \/ CheckRead(t) \/ CheckHit(t) \/ CheckMiss(t) \/ CheckChanged(t)
             \/ OldClosed(t) \/ LoadRead(t) \/ LruClosed(t) \/ BuildFails(t) \/ Abandon(t)
             \/ Release(t) \/ RelClosed(t) \/ CancelClose(t)
      PROVE  CapHolds'
  BY <1>1, <1>5
  DEF Lock, CheckRead, ReadFingerprint, CheckHit, CheckMiss, CheckChanged, OldClosed,
      LoadRead, LruClosed, BuildFails, Abandon, Release, RelClosed, CancelClose, Cached
<1>6. CASE Shutdown \/ (\E q \in Runtimes : ShutdownClose(q) \/ ShutdownClosed(q))
           \/ Edits \/ UNCHANGED vars
  BY <1>1, <1>6 DEF Shutdown, ShutdownClose, ShutdownClosed, Edits, Write, Restore, Move, Cached
<1> QED
  BY <1>2, <1>3, <1>4, <1>5, <1>6 DEF Next, SlowPath, BuiltEvictBusy, BuiltEvictIdle

-----------------------------------------------------------------------------
(* Freshness of the configuration.  What a task reads was in place since   *)
(* it asked.  An entry whose config is not what its stamp says is out of   *)
(* date by its stamp, too, as long as that stamp does not recur: files     *)
(* that left the stamp come back to it only by a Restore.                  *)

(* The config read, c, is what the stamp f of tenant o says, or the stamp  *)
(* is out of date, or it recurred. *)
Honest(c, f, o) == c # f => f # version[o] \/ f \in back[o]

StatesOK ==
  /\ \A o \in Orgs : version[o] <= written[o]
  /\ \A o \in Orgs \ Watched : written[o] = 0

StampsOK ==
  \A r \in Runtimes : phase[r] # "unbuilt" =>
    /\ orgOf[r] \in Orgs /\ fp[r] <= written[orgOf[r]] /\ cfg[r] <= written[orgOf[r]]
    /\ Honest(cfg[r], fp[r], orgOf[r])

(* What a suspended task has read. *)
Reads(t) ==
  /\ pc[t] \in Looking => version[want[t]] \in during[t]
  /\ pc[t] \in {"peeked", "checked", "closeOld", "load", "build"} =>
       seen[t] \in during[t] /\ seen[t] <= written[want[t]]
  /\ pc[t] = "build" => /\ src[t] \in during[t] /\ src[t] <= written[want[t]]
                        /\ Honest(src[t], seen[t], want[t])

(* The config of entry r was in place since the task asked, or its stamp   *)
(* recurred. *)
Served(t, r) == cfg[r] \in during[t] \/ Recurred(r)

(* So it is for the entry the task leases, or will if its stamp matches.   *)
Leases(t) ==
  /\ pc[t] = "peeked" /\ Matches(t) => Served(t, ent[t])
  /\ pc[t] = "checked" =>
       \A r \in Runtimes :
         phase[r] # "unbuilt" /\ orgOf[r] = want[t] /\ fp[r] = seen[t] => Served(t, r)
  /\ pc[t] \in {"closeLru", "held"} => Served(t, ent[t])

Fresh == HistoryOK /\ StatesOK /\ StampsOK /\ \A t \in Tasks : Reads(t) /\ Leases(t)

(* What changes the files keeps the promise: a new state is new, an old    *)
(* one is recorded. *)
LEMMA EditsFresh == Typed /\ Shape /\ Fresh /\ HistoryOK' /\ Edits => Fresh'
<1> SUFFICES ASSUME Typed, Shape, Fresh, HistoryOK', NEW o \in Orgs, NEW v \in Versions,
                    \/ Write(o) /\ v = written[o] + 1
                    \/ Restore(o, v)
             PROVE  Fresh'
  BY BoundAssumption DEF Edits, Write, Typed, StateOK
<1> USE DEF Versions
<1>0. /\ version \in [Orgs -> Versions] /\ written \in [Orgs -> Versions]
      /\ back \in [Orgs -> SUBSET Versions] /\ Versions \subseteq Nat
      /\ fp \in [Runtimes -> Versions] /\ cfg \in [Runtimes -> Versions]
      /\ seen \in [Tasks -> Versions] /\ src \in [Tasks -> Versions]
  BY BoundAssumption DEF Typed, StateOK, Fresh, HistoryOK
<1>1. /\ version' = [version EXCEPT ![o] = v] /\ o \in Watched
      /\ \A q \in Orgs : written[q] <= written'[q] /\ back[q] \subseteq back'[q]
      /\ \A q \in Orgs \ {o} : written'[q] = written[q]
      /\ v <= written'[o] /\ (written[o] < v \/ v \in back'[o])
  <2>1. CASE Write(o) /\ v = written[o] + 1
    BY <1>0, <2>1 DEF Write, Move
  <2>2. CASE Restore(o, v)
    BY <1>0, <2>2 DEF Restore, Move
  <2> QED
    BY <2>1, <2>2
<1>2. UNCHANGED <<orgOf, fp, cfg, phase, pc, want, ent, seen, src>>
  BY DEF Write, Restore, Move, life, entries
<1>3. \A t \in Tasks : during'[t] = IF want[t] = o /\ pc[t] \in Looking
                                 THEN during[t] \cup {v} ELSE during[t]
  BY DEF Write, Restore, Move
<1>4. ASSUME NEW c, NEW f \in Versions, NEW q \in Orgs, f <= written[q],
             c # f => f # version[q] \/ f \in back[q]
      PROVE  c # f => f # version'[q] \/ f \in back'[q]
  BY <1>0, <1>1, <1>4
<1>5. StatesOK'
  BY <1>0, <1>1 DEF Fresh, StatesOK
<1>6. StampsOK'
  <2> SUFFICES ASSUME NEW r \in Runtimes, phase[r] # "unbuilt"
               PROVE  /\ orgOf[r] \in Orgs
                      /\ fp[r] <= written'[orgOf[r]] /\ cfg[r] <= written'[orgOf[r]]
                      /\ cfg[r] # fp[r] => fp[r] # version'[orgOf[r]] \/ fp[r] \in back'[orgOf[r]]
    BY <1>2 DEF StampsOK, Honest
  <2>1. /\ orgOf[r] \in Orgs /\ fp[r] <= written[orgOf[r]] /\ cfg[r] <= written[orgOf[r]]
        /\ cfg[r] # fp[r] => fp[r] # version[orgOf[r]] \/ fp[r] \in back[orgOf[r]]
    BY DEF Fresh, StampsOK, Honest
  <2>2. fp[r] \in Versions /\ cfg[r] \in Versions /\ written[orgOf[r]] \in Versions
        /\ written'[orgOf[r]] \in Versions
    BY <1>0, <1>1, <2>1 DEF HistoryOK, Write, Restore
  <2> QED
    BY <1>0, <1>1, <1>4, <2>1, <2>2
<1>7. ASSUME NEW t \in Tasks  PROVE Reads(t)'
  <2>1. Reads(t)
    BY DEF Fresh
  <2>2. pc[t] \in Looking => want[t] \in Orgs
    BY DEF Typed, LocalsOK
  <2>3. pc[t] \in Looking => version'[want[t]] \in during'[t]
    BY <1>0, <1>1, <1>3, <2>1, <2>2 DEF Reads
  <2>4. \A x \in during[t] : x \in during'[t]
    BY <1>3
  <2>5. want[t] \in Orgs => /\ \A x \in Versions : x <= written[want[t]] => x <= written'[want[t]]
                            /\ written[want[t]] \in Versions
    BY <1>0, <1>1, BoundAssumption DEF Write, Restore
  <2>6. pc[t] = "build" => (src[t] # seen[t] =>
           seen[t] # version'[want[t]] \/ seen[t] \in back'[want[t]])
    BY <1>0, <1>4, <2>1, <2>2 DEF Reads, Honest
  <2> QED
    BY <1>0, <1>2, <2>1, <2>2, <2>3, <2>4, <2>5, <2>6 DEF Reads, Honest
<1>8. ASSUME NEW t \in Tasks  PROVE Leases(t)'
  <2>1. Leases(t)
    BY DEF Fresh
  <2>2. ASSUME NEW r \in Runtimes, orgOf[r] \in Orgs, Served(t, r)  PROVE Served(t, r)'
    BY <1>1, <1>2, <1>3, <2>2 DEF Served, Recurred
  <2>3. /\ pc[t] = "checked" => want[t] \in Orgs
        /\ pc[t] \in {"peeked", "closeLru", "held"} =>
             ent[t] \in Runtimes /\ orgOf[ent[t]] \in Orgs
    BY NullAssumption DEF Typed, LocalsOK, Shape, PathOK, CachedOK
  <2> QED
    BY <1>2, <2>1, <2>2, <2>3 DEF Leases
<1> QED
  BY <1>5, <1>6, <1>7, <1>8 DEF Fresh

(* A step of one task leaves the files and the other tasks alone. *)
Frame(t) ==
  /\ UNCHANGED files
  /\ \A u \in Tasks \ {t} :
       /\ pc'[u] = pc[u] /\ want'[u] = want[u] /\ ent'[u] = ent[u]
       /\ seen'[u] = seen[u] /\ src'[u] = src[u] /\ during'[u] = during[u]

LEMMA FrameHolds ==
  ASSUME Typed, HistoryOK, NEW t \in Tasks,
         FastPath(t) \/ SlowPath(t) \/ Abandon(t) \/ Release(t) \/ RelClosed(t) \/ CancelClose(t)
  PROVE  Frame(t)
<1>0. /\ DOMAIN pc = Tasks /\ DOMAIN want = Tasks /\ DOMAIN ent = Tasks
      /\ DOMAIN seen = Tasks /\ DOMAIN src = Tasks /\ DOMAIN during = Tasks
  BY DEF Typed, StateOK, HistoryOK
<1>1. CASE FastPath(t)
  BY <1>0, <1>1
  DEF FastPath, Miss, Hit, Peek, Ask, PeekRead, ReadFingerprint, PeekFresh, PeekKeyError,
      PeekChanged, Answer500, Return, Leave, Goto, Frame, locals
<1>2. CASE SlowPath(t)
  BY <1>0, <1>2
  DEF SlowPath, Lock, CheckRead, ReadFingerprint, CheckHit, CheckMiss, CheckChanged, OldClosed,
      LoadRead, LruClosed, BuildFails, Built, BuiltEvictBusy, BuiltEvictIdle, BuiltOver,
      NewEntry, Return, Leave, Goto, Frame, locals, files
<1>3. CASE Abandon(t) \/ Release(t) \/ RelClosed(t) \/ CancelClose(t)
  BY <1>0, <1>3 DEF Abandon, Release, RelClosed, CancelClose, Leave, Goto, Frame, locals, files
<1> QED
  BY <1>1, <1>2, <1>3

(* Then, if no entry is made, only the task itself is to be looked at. *)
LEMMA StepFresh ==
  ASSUME Fresh, HistoryOK', NEW t \in Tasks, Frame(t), UNCHANGED entries,
         \A r \in Runtimes : phase'[r] # "unbuilt" => phase[r] # "unbuilt",
         Reads(t)', Leases(t)'
  PROVE  Fresh'
<1> USE DEF Fresh, Frame, files, entries
<1>1. StatesOK' /\ StampsOK'
  BY DEF StatesOK, StampsOK, Honest
<1>2. ASSUME NEW u \in Tasks \ {t}  PROVE Reads(u)' /\ Leases(u)'
  BY DEF Reads, Leases, Honest, Served, Recurred, Matches
<1> QED
  BY <1>1, <1>2

(* A task that leaves, or that a lookup serves. *)
LEMMA ReturnFresh ==
  ASSUME Typed, HistoryOK, NEW t \in Tasks, NEW r \in Runtimes, Return(t, r),
         Served(t, r), UNCHANGED <<files, entries>>
  PROVE  Reads(t)' /\ Leases(t)'
<1>0. /\ DOMAIN pc = Tasks /\ DOMAIN ent = Tasks
  BY DEF Typed, StateOK
<1> QED
  BY <1>0 DEF Return, Leave, Goto, Reads, Leases, Served, Recurred, files, entries

LEMMA NextFresh == Typed /\ Shape /\ Fresh /\ [Next]_vars => Fresh'
<1> SUFFICES ASSUME Typed, Shape, Fresh, [Next]_vars PROVE Fresh'
  OBVIOUS
<1>0. HistoryOK /\ HistoryOK'
  BY NextHistory DEF Fresh
<1> DEFINE Done(t) ==
      /\ Reads(t)' /\ Leases(t)' /\ UNCHANGED entries
      /\ \A r \in Runtimes : phase'[r] # "unbuilt" => phase[r] # "unbuilt"
<1>a. /\ DOMAIN pc = Tasks /\ DOMAIN want = Tasks /\ DOMAIN ent = Tasks
      /\ DOMAIN seen = Tasks /\ DOMAIN src = Tasks /\ DOMAIN during = Tasks
      /\ DOMAIN phase = Runtimes
  BY <1>0 DEF Typed, StateOK, HistoryOK
<1>1. ASSUME NEW t \in Tasks, NEW o \in Orgs, Miss(t, o) \/ Peek(t, o) PROVE Done(t)
  BY <1>a, <1>1 DEF Miss, Peek, Ask, Goto, Reads, Leases, files, life
<1>2. ASSUME NEW t \in Tasks, NEW o \in Orgs, Hit(t, o) PROVE Done(t)
  <2>1. cache[o] \in Runtimes /\ orgOf[cache[o]] = o /\ phase[cache[o]] # "unbuilt"
        /\ version[o] = 0 /\ cfg[cache[o]] = 0
    BY <1>2, BoundAssumption
    DEF Hit, Cached, Typed, StateOK, Shape, CachedOK, Fresh, StampsOK, StatesOK
  <2>2. CASE UNCHANGED <<pc, leases, want, during, ent>>
    BY <1>2, <2>2 DEF Hit, Fresh, Reads, Leases, Served, Recurred, Honest, files, entries
  <2>3. CASE Ask(t, o) /\ Goto(t, "held") /\ ent' = [ent EXCEPT ![t] = cache[o]]
    BY <1>a, <1>2, <2>1, <2>3 DEF Hit, Ask, Goto, Reads, Leases, Served, files, entries
  <2> QED
    BY <1>2, <2>2, <2>3 DEF Hit
<1>3. ASSUME NEW t \in Tasks, PeekRead(t) \/ CheckRead(t) PROVE Done(t)
  <2>1. /\ seen'[t] = version[want[t]] /\ want[t] \in Orgs /\ want' = want /\ during' = during
        /\ UNCHANGED <<files, entries, phase, ent>>
        /\ \/ pc[t] = "peek" /\ pc'[t] = "peeked"
           \/ pc[t] = "check" /\ pc'[t] = "checked"
    BY <1>a, <1>3 DEF PeekRead, CheckRead, ReadFingerprint, Goto, Typed, LocalsOK, life
  <2>2. Reads(t)'
    BY <2>1 DEF Fresh, Reads, StatesOK, files
  <2>3. ASSUME NEW r \in Runtimes, phase[r] # "unbuilt", orgOf[r] = want[t],
               fp[r] = version[want[t]]
        PROVE  Served(t, r)'
    BY <2>1, <2>3 DEF Fresh, Reads, StampsOK, Honest, Served, Recurred, files, entries
  <2>4. pc[t] = "peek" => /\ ent[t] \in Runtimes /\ phase[ent[t]] # "unbuilt"
                          /\ orgOf[ent[t]] = want[t]
    BY DEF Typed, LocalsOK, Shape, PathOK
  <2>5. Leases(t)'
    BY <2>1, <2>3, <2>4 DEF Leases, Matches, entries
  <2> QED
    BY <2>1, <2>2, <2>5
<1>4. ASSUME NEW t \in Tasks, PeekFresh(t) PROVE Done(t)
  <2>1. ent[t] \in Runtimes /\ Served(t, ent[t]) /\ Return(t, ent[t])
    BY <1>4 DEF PeekFresh, Fresh, Leases, Typed, LocalsOK
  <2>2. UNCHANGED <<files, entries, phase>>
    BY <1>4 DEF PeekFresh, files, life
  <2> QED
    BY <1>0, <2>1, <2>2, ReturnFresh
<1>5. ASSUME NEW t \in Tasks, PeekKeyError(t) \/ PeekChanged(t) \/ Answer500(t) PROVE Done(t)
  BY <1>a, <1>5
  DEF PeekKeyError, PeekChanged, Answer500, Leave, Goto, Fresh, Reads, Leases, files, life, locals
<1>6. ASSUME NEW t \in Tasks, Lock(t) \/ CheckMiss(t) PROVE Done(t)
  BY <1>a, <1>6 DEF Lock, CheckMiss, Goto, Fresh, Reads, Leases, files, entries, life, locals
<1>7. ASSUME NEW t \in Tasks, CheckHit(t) PROVE Done(t)
  <2>1. cache[want[t]] \in Runtimes /\ Served(t, cache[want[t]]) /\ Return(t, cache[want[t]])
    BY <1>7 DEF CheckHit, Cached, Fresh, Leases, Typed, StateOK, LocalsOK, Shape, CachedOK
  <2>2. UNCHANGED <<files, entries, phase>>
    BY <1>7 DEF CheckHit, files, life
  <2> QED
    BY <1>0, <2>1, <2>2, ReturnFresh
<1>8. ASSUME NEW t \in Tasks, CheckChanged(t) PROVE Done(t)
  <2>1. /\ pc[t] = "checked" /\ pc'[t] \in {"load", "closeOld"}
        /\ UNCHANGED <<version, written, want, seen, during, entries>>
    BY <1>a, <1>8 DEF CheckChanged, Goto, files, locals
  <2>2. \A r \in Runtimes : phase'[r] # "unbuilt" => phase[r] # "unbuilt"
    BY <1>a, <1>8 DEF CheckChanged, BeginClose, Cached, Typed, StateOK, LocalsOK, Shape, CachedOK
  <2> QED
    BY <2>1, <2>2 DEF Fresh, Reads, Leases
<1>9. ASSUME NEW t \in Tasks, OldClosed(t) PROVE Done(t)
  <2>1. /\ pc[t] = "closeOld" /\ pc'[t] = "load"
        /\ UNCHANGED <<version, written, want, seen, during, entries>>
    BY <1>a, <1>9 DEF OldClosed, Goto, files, locals
  <2>2. \A r \in Runtimes : phase'[r] # "unbuilt" => phase[r] # "unbuilt"
    BY <1>a, <1>9, NullAssumption DEF OldClosed, EndClose, Shape, PhaseOK
  <2> QED
    BY <2>1, <2>2 DEF Fresh, Reads, Leases
<1>10. ASSUME NEW t \in Tasks, LoadRead(t) PROVE Done(t)
  BY <1>a, <1>10
  DEF LoadRead, Goto, Typed, LocalsOK, Fresh, Reads, StatesOK, Leases, Honest, files, entries, life
<1>11. ASSUME NEW t \in Tasks, LruClosed(t) PROVE Done(t)
  <2>1. ent[t] \in Runtimes /\ Served(t, ent[t]) /\ Return(t, ent[t])
    BY <1>11 DEF LruClosed, Fresh, Leases, Typed, LocalsOK
  <2>2. UNCHANGED <<files, entries>>
    BY <1>11 DEF LruClosed, files
  <2>3. \A r \in Runtimes : phase'[r] # "unbuilt" => phase[r] # "unbuilt"
    BY <1>a, <1>11, NullAssumption DEF LruClosed, EndClose, Shape, PhaseOK
  <2> QED
    BY <1>0, <2>1, <2>2, <2>3, ReturnFresh
<1>12. ASSUME NEW t \in Tasks, BuildFails(t) \/ Abandon(t) \/ CancelClose(t) PROVE Done(t)
  BY <1>a, <1>12 DEF BuildFails, Abandon, CancelClose, Leave, Goto, Reads, Leases, entries, life
<1>13. ASSUME NEW t \in Tasks, Release(t) \/ RelClosed(t) PROVE Done(t)
  <2>1. pc'[t] \in {"idle", "closeRel"} /\ UNCHANGED entries
    BY <1>a, <1>13 DEF Release, RelClosed, Leave, Goto, entries
  <2>2. \A r \in Runtimes : phase'[r] # "unbuilt" => phase[r] # "unbuilt"
    BY <1>a, <1>13, NullAssumption
    DEF Release, RelClosed, BeginClose, EndClose, LastRelease, Shape, PhaseOK, RetiringOK
  <2> QED
    BY <2>1, <2>2 DEF Reads, Leases
<1>14. ASSUME NEW t \in Tasks, NEW r \in Runtimes,
              Built(t, r) \/ \E v \in Orgs : BuiltEvictBusy(t, r, v) \/ BuiltEvictIdle(t, r, v)
       PROVE  Fresh'
  <2>1. /\ pc[t] = "build" /\ phase[r] = "unbuilt" /\ want[t] \in Orgs
        /\ UNCHANGED files
        /\ \A q \in Runtimes \ {r} : orgOf'[q] = orgOf[q] /\ fp'[q] = fp[q] /\ cfg'[q] = cfg[q]
        /\ orgOf'[r] = want[t] /\ fp'[r] = seen[t] /\ cfg'[r] = src[t]
    BY <1>14
    DEF Built, BuiltEvictBusy, BuiltEvictIdle, BuiltOver, NewEntry, files, Typed, StateOK, LocalsOK
  <2>2. \A q \in Runtimes \ {r} : phase'[q] # "unbuilt" => phase[q] # "unbuilt"
    BY <1>a, <1>14
    DEF Built, BuiltEvictBusy, BuiltEvictIdle, BuiltOver, IsOldest, Cached,
        Typed, StateOK, Shape, CachedOK
  <2>3. Reads(t)
    BY DEF Fresh
  <2>4. StatesOK' /\ StampsOK'
    BY <2>1, <2>2, <2>3 DEF Fresh, StatesOK, StampsOK, Reads, Honest, files
  <2>5. ASSUME NEW u \in Tasks \ {t}  PROVE Reads(u)' /\ Leases(u)'
    <3>1. /\ pc[u] \in {"peeked", "closeLru", "held"} => ent[u] \in Runtimes \ {r}
          /\ pc[u] # "checked"
      BY <2>1 DEF Typed, LocalsOK, Shape, LockOK, PathOK, CachedOK
    <3>2. Frame(t)
      BY <1>0, <1>14, FrameHolds DEF SlowPath
    <3>3. Reads(u) /\ Leases(u)
      BY DEF Fresh
    <3> QED
      BY <2>1, <3>1, <3>2, <3>3 DEF Frame, Reads, Leases, Honest, Served, Recurred, Matches, files
  <2>6. Reads(t)' /\ Leases(t)'
    <3>1. CASE pc'[t] = "idle"
      BY <3>1 DEF Reads, Leases
    <3>2. CASE pc'[t] \in {"held", "closeLru"} /\ ent'[t] = r /\ UNCHANGED <<want, during>>
      BY <2>1, <2>3, <3>2 DEF Reads, Leases, Served, files
    <3> QED
      BY <1>a, <1>14, <3>1, <3>2
      DEF Built, BuiltEvictBusy, BuiltEvictIdle, Return, Leave, Goto
  <2> QED
    BY <1>0, <2>4, <2>5, <2>6 DEF Fresh
<1>15. CASE Shutdown \/ (\E q \in Runtimes : ShutdownClose(q) \/ ShutdownClosed(q))
            \/ UNCHANGED vars
  <2>1. UNCHANGED <<files, entries, pc, locals>>
    BY <1>15 DEF Shutdown, ShutdownClose, ShutdownClosed, vars
  <2>2. \A r \in Runtimes : phase'[r] # "unbuilt" => phase[r] # "unbuilt"
    BY <1>a, <1>15, NullAssumption
    DEF Shutdown, ShutdownClose, ShutdownClosed, BeginClose, EndClose, vars, life, Shape, PhaseOK
  <2> QED
    BY <1>0, <2>1, <2>2
    DEF Fresh, StatesOK, StampsOK, Reads, Leases, Honest, Served, Recurred, Matches, files,
        entries, locals
<1>16. CASE Edits
  BY <1>0, <1>16, EditsFresh
<1>17. ASSUME NEW t \in Tasks, Done(t), Frame(t) PROVE Fresh'
  BY <1>0, <1>17, StepFresh
<1>18. ASSUME NEW t \in Tasks,
             FastPath(t) \/ SlowPath(t) \/ Abandon(t) \/ Release(t) \/ RelClosed(t) \/ CancelClose(t)
       PROVE  Fresh'
  <2>1. Frame(t)
    BY <1>0, <1>18, FrameHolds
  <2> HIDE DEF Done
  <2> QED
    BY <1>1, <1>2, <1>3, <1>4, <1>5, <1>6, <1>7, <1>8, <1>9, <1>10, <1>11, <1>12, <1>13,
       <1>14, <1>17, <1>18, <2>1
    DEF FastPath, SlowPath
<1> QED
  BY <1>15, <1>16, <1>18 DEF Next

-----------------------------------------------------------------------------
(* The inductive invariant, and what follows from it.                      *)

IInv == Typed /\ Shape /\ LeaseCount /\ SingleFlight /\ CapHolds /\ Fresh

LEMMA InitIInv == Init => IInv
<1> SUFFICES ASSUME Init PROVE IInv
  OBVIOUS
<1>1. \A r \in Runtimes : Holders(r) = {}
  BY DEF Init, Holders
<1>2. LeaseCount
  BY <1>1, FS_EmptySet DEF Init, LeaseCount
<1>3. Cached = {}
  BY DEF Init, Cached
<1>4. CapHolds
  BY <1>3, FS_EmptySet, BoundAssumption DEF CapHolds
<1>5. SingleFlight /\ Fresh
  BY WatchedAssumption, NullAssumption DEF Init, SingleFlight, Fresh, HistoryOK, StatesOK, StampsOK, Reads, Leases
<1> QED
  BY <1>2, <1>4, <1>5, InitTyped, InitShape DEF IInv

THEOREM Invariance == Spec => []IInv
<1>1. IInv /\ [Next]_vars => IInv'
  BY NextTyped, NextShape, NextLeaseCount, NextSingleFlight, NextCapHolds, NextFresh DEF IInv
<1> QED
  BY InitIInv, <1>1, PTL DEF Spec

(* The lease counter of every entry equals the number of leases held.      *)
THEOREM LeasesAreCounted == Spec => []LeaseCount
<1>1. IInv => LeaseCount
  BY DEF IInv
<1> QED
  BY Invariance, <1>1, PTL

(* No open runtime escapes its close: it is cached, retired with a lease   *)
(* held, or on the list of the shutdown.                                   *)
THEOREM NoRuntimeLeaks == Spec => []NothingLeaks
<1>1. IInv => NothingLeaks
  <2> SUFFICES ASSUME IInv, NEW r \in Runtimes, phase[r] = "open", r \notin doomed
               PROVE  \/ orgOf[r] \in Orgs /\ cache[orgOf[r]] = r /\ ~retired[r]
                      \/ r \in retiring /\ retired[r] /\ Holders(r) # {}
    BY DEF NothingLeaks
  <2>1. CASE r \in retiring
    <3>1. leases[r] > 0 /\ retired[r] /\ leases[r] = Cardinality(Holders(r))
      BY <2>1 DEF IInv, Shape, RetiringOK, LeaseCount
    <3> QED
      BY <2>1, <3>1, FS_EmptySet
  <2>2. CASE r \notin retiring
    BY <2>2, NullAssumption DEF IInv, Shape, PhaseOK, CachedOK
  <2> QED
    BY <2>1, <2>2
<1> QED
  BY Invariance, <1>1, PTL

(* A tenant never has two runtimes in service. *)
THEOREM OneRuntimePerTenant == Spec => []SingleFlight
<1>1. IInv => SingleFlight
  BY DEF IInv
<1> QED
  BY Invariance, <1>1, PTL

(* The cache respects host_max_tenants. *)
THEOREM CacheIsBounded == Spec => []CapHolds
<1>1. IInv => CapHolds
  BY DEF IInv
<1> QED
  BY Invariance, <1>1, PTL

(* An entry whose stamp is current was built from the current files, or    *)
(* that stamp recurred after an edit that fell between its two reads.      *)
THEOREM StampIsHonest == Spec => []ConfigFresh
<1>1. IInv => ConfigFresh
  BY BoundAssumption, NullAssumption
  DEF IInv, Typed, StateOK, Shape, CachedOK, Fresh, StampsOK, Honest, Recurred, ConfigFresh, Cached
<1> QED
  BY Invariance, <1>1, PTL

(* A turn gets its own tenant's runtime, on a config that was in place     *)
(* since its request unless the stamp of the entry recurred.               *)
THEOREM TurnsSeeTheirConfig == Spec => []TurnSeesConfig
<1>1. IInv => TurnSeesConfig
  BY DEF IInv, Typed, StateOK, LocalsOK, Shape, PathOK, Fresh, Leases, Served, TurnSeesConfig
<1> QED
  BY Invariance, <1>1, PTL

(* Retiring never cuts a turn off: only a runtime nobody leases is closed. *)
THEOREM InFlightTurnsSurvive == Spec => CloseOnlyIdle
<1>1. ASSUME IInv, [Next]_vars, NEW r \in Runtimes,
             up, phase[r] # "closing", phase'[r] = "closing"
      PROVE  Holders(r)' = {}
  BY <1>1, CloseStarts, ClosesIdle DEF IInv
<1>2. IInv /\ [Next]_vars =>
        [\A r \in Runtimes :
           up /\ phase[r] # "closing" /\ phase'[r] = "closing" => Holders(r)' = {}]_vars
  BY <1>1
<1> QED
  BY Invariance, <1>2, PTL DEF Spec, CloseOnlyIdle

(* No runtime is closed twice. *)
THEOREM ClosesAtMostOnce == Spec => ClosedOnce
<1>1. ASSUME IInv, [Next]_vars, NEW r \in Runtimes, closer'[r] \notin {closer[r], NoTask}
      PROVE  phase[r] = "open"
  BY <1>1, CloseStarts, ClosesOpen DEF IInv
<1>2. IInv /\ [Next]_vars =>
        [\A r \in Runtimes : closer'[r] \notin {closer[r], NoTask} => phase[r] = "open"]_vars
  BY <1>1
<1> QED
  BY Invariance, <1>2, PTL DEF Spec, ClosedOnce

-----------------------------------------------------------------------------
(* For an unwatched tenant the fast path never awaits, so it cannot hand   *)
(* out an entry that left the cache: the runtime leased is open.  For a    *)
(* watched tenant this is false (see the README).                          *)

PeeksWatched == \A t \in Tasks : pc[t] \in {"peek", "peeked"} => want[t] \in Watched

LEMMA NextPeeksWatched ==
  Typed /\ PeeksWatched /\ [Next]_vars => PeeksWatched'
<1> SUFFICES ASSUME Typed, PeeksWatched, [Next]_vars PROVE PeeksWatched'
  OBVIOUS
<1> USE DEF Typed, StateOK, PeeksWatched, vars, locals
<1>1. ASSUME NEW t \in Tasks, FastPath(t) PROVE PeeksWatched'
  <2>1. CASE PeekRead(t) \/ PeekKeyError(t) \/ PeekChanged(t) \/ Answer500(t)
    BY <2>1 DEF PeekRead, ReadFingerprint, PeekKeyError, PeekChanged, Answer500, Leave, Goto
  <2>2. CASE PeekFresh(t)
    BY <2>2 DEF PeekFresh, Return, Leave, Goto
  <2>3. ASSUME NEW o \in Orgs, Miss(t, o) \/ Hit(t, o) \/ Peek(t, o) PROVE PeeksWatched'
    BY <2>3 DEF Miss, Hit, Peek, Ask, Goto
  <2> QED
    BY <1>1, <2>1, <2>2, <2>3 DEF FastPath
<1>2. ASSUME NEW t \in Tasks, SlowPath(t) PROVE PeeksWatched'
  BY <1>2
  DEF SlowPath, Lock, CheckRead, ReadFingerprint, CheckHit, CheckMiss, CheckChanged, OldClosed,
      LoadRead, LruClosed, BuildFails, Built, BuiltEvictBusy, BuiltEvictIdle, Return, Leave, Goto
<1>3. ASSUME NEW t \in Tasks, Abandon(t) \/ Release(t) \/ RelClosed(t) \/ CancelClose(t)
      PROVE  PeeksWatched'
  BY <1>3 DEF Abandon, Release, RelClosed, CancelClose, Leave, Goto
<1>4. CASE Shutdown \/ (\E q \in Runtimes : ShutdownClose(q) \/ ShutdownClosed(q))
           \/ Edits \/ UNCHANGED vars
  BY <1>4 DEF Shutdown, ShutdownClose, ShutdownClosed, Edits, Write, Restore, Move
<1> QED
  BY <1>1, <1>2, <1>3, <1>4 DEF Next

(* An open entry stays open or starts to be closed. *)
LEMMA OpenStays ==
  ASSUME Typed, Shape, [Next]_vars, NEW r \in Runtimes, phase[r] = "open"
  PROVE  phase'[r] \in {"open", "closing"}
<1> USE NullAssumption DEF Typed, StateOK, LocalsOK, vars, life, Shape, PhaseOK
<1>1. ASSUME NEW t \in Tasks, FastPath(t) \/ Abandon(t) \/ Release(t) \/ CancelClose(t)
      PROVE  phase'[r] \in {"open", "closing"}
  BY <1>1
  DEF FastPath, Miss, Hit, Peek, PeekRead, ReadFingerprint, PeekFresh, PeekKeyError,
      PeekChanged, Answer500, Abandon, Release, BeginClose, CancelClose
<1>2. ASSUME NEW t \in Tasks, SlowPath(t) \/ RelClosed(t)
      PROVE  phase'[r] \in {"open", "closing"}
  BY <1>2
  DEF SlowPath, Lock, CheckRead, ReadFingerprint, CheckHit, CheckMiss, CheckChanged, OldClosed,
      LoadRead, LruClosed, BuildFails, Built, BuiltEvictBusy, BuiltEvictIdle, BuiltOver,
      NewEntry, RelClosed, BeginClose, EndClose
<1>3. CASE Shutdown \/ (\E q \in Runtimes : ShutdownClose(q) \/ ShutdownClosed(q))
           \/ Edits \/ UNCHANGED vars
  BY <1>3 DEF Shutdown, ShutdownClose, ShutdownClosed, BeginClose, EndClose, Edits, Write, Restore, Move
<1> QED
  BY <1>1, <1>2, <1>3 DEF Next

(* A lease that a step grants is on an entry that is open before and after it. *)
LEMMA GrantsOpen ==
  ASSUME Typed, Shape, PeeksWatched, [Next]_vars,
         NEW t \in Tasks, pc[t] # "held", pc'[t] = "held", want'[t] \notin Watched
  PROVE  ent'[t] \in Runtimes /\ phase'[ent'[t]] = "open"
<1> USE NullAssumption
    DEF Typed, StateOK, LocalsOK, vars, locals, registry, life, Shape, CachedOK, PathOK, Cached
<1>1. ASSUME NEW u \in Tasks, FastPath(u) PROVE ent'[t] \in Runtimes /\ phase'[ent'[t]] = "open"
  <2>1. CASE PeekRead(u) \/ PeekKeyError(u) \/ PeekChanged(u) \/ Answer500(u)
    BY <2>1 DEF PeekRead, ReadFingerprint, PeekKeyError, PeekChanged, Answer500, Leave, Goto
  <2>2. CASE PeekFresh(u)   \* not for an unwatched tenant
    BY <2>2 DEF PeekFresh, Return, Leave, Goto, PeeksWatched
  <2>3. ASSUME NEW o \in Orgs, Miss(u, o) \/ Hit(u, o) \/ Peek(u, o)
        PROVE  ent'[t] \in Runtimes /\ phase'[ent'[t]] = "open"
    BY <2>3 DEF Miss, Hit, Peek, Ask, Goto
  <2> QED
    BY <1>1, <2>1, <2>2, <2>3 DEF FastPath
<1>2. ASSUME NEW u \in Tasks, CheckHit(u) \/ LruClosed(u)
      PROVE  ent'[t] \in Runtimes /\ phase'[ent'[t]] = "open"
  BY <1>2 DEF CheckHit, LruClosed, Return, Leave, Goto, EndClose, PhaseOK
<1>3. ASSUME NEW u \in Tasks, NEW r \in Runtimes,
             Built(u, r) \/ \E v \in Orgs : BuiltEvictBusy(u, r, v)
      PROVE  ent'[t] \in Runtimes /\ phase'[ent'[t]] = "open"
  BY <1>3 DEF Built, BuiltEvictBusy, BuiltOver, NewEntry, Return, Leave, Goto
<1>4. ASSUME NEW u \in Tasks,
             \/ Lock(u) \/ CheckRead(u) \/ CheckMiss(u) \/ CheckChanged(u) \/ OldClosed(u)
             \/ LoadRead(u) \/ BuildFails(u) \/ Abandon(u) \/ Release(u) \/ RelClosed(u)
             \/ CancelClose(u) \/ \E r \in Runtimes, v \in Orgs : BuiltEvictIdle(u, r, v)
      PROVE  FALSE
  BY <1>4
  DEF Lock, CheckRead, ReadFingerprint, CheckMiss, CheckChanged, OldClosed, LoadRead,
      BuildFails, Abandon, Release, RelClosed, CancelClose, BuiltEvictIdle, Leave, Goto
<1>5. CASE Shutdown \/ (\E q \in Runtimes : ShutdownClose(q) \/ ShutdownClosed(q))
           \/ Edits \/ UNCHANGED vars
  BY <1>5 DEF Shutdown, ShutdownClose, ShutdownClosed, Edits, Write, Restore, Move
<1> QED
  BY <1>1, <1>2, <1>3, <1>4, <1>5 DEF Next, SlowPath

Keeps(t) == \A u \in Tasks \ {t} : ent'[u] = ent[u] /\ want'[u] = want[u]

(* A lease stays on its entry, and the host does not come up again. *)
LEMMA LeaseKept ==
  ASSUME Typed, [Next]_vars
  PROVE  /\ up' => up
         /\ \A t \in Tasks : pc[t] = "held" /\ pc'[t] = "held"
                => ent'[t] = ent[t] /\ want'[t] = want[t]
<1> USE DEF Typed, StateOK, vars, locals, Keeps
<1>1. ASSUME NEW t \in Tasks, FastPath(t)
      PROVE  up' = up /\ pc[t] # "held" /\ Keeps(t)
  BY <1>1
  DEF FastPath, Miss, Hit, Peek, Ask, PeekRead, ReadFingerprint, PeekFresh, PeekKeyError,
      PeekChanged, Answer500, Return, Leave, Goto
<1>2. ASSUME NEW t \in Tasks, SlowPath(t)
      PROVE  up' = up /\ pc[t] # "held" /\ Keeps(t)
  BY <1>2
  DEF SlowPath, Lock, CheckRead, ReadFingerprint, CheckHit, CheckMiss, CheckChanged, OldClosed,
      LoadRead, LruClosed, BuildFails, Built, BuiltEvictBusy, BuiltEvictIdle, BuiltOver,
      NewEntry, Return, Leave, Goto
<1>3. ASSUME NEW t \in Tasks, Abandon(t) \/ Release(t) \/ RelClosed(t) \/ CancelClose(t)
      PROVE  up' = up /\ pc'[t] # "held" /\ Keeps(t)
  BY <1>3 DEF Abandon, Release, RelClosed, CancelClose, Leave, Goto
<1>4. CASE Shutdown \/ (\E q \in Runtimes : ShutdownClose(q) \/ ShutdownClosed(q))
           \/ Edits \/ UNCHANGED vars
  BY <1>4 DEF Shutdown, ShutdownClose, ShutdownClosed, Edits, Write, Restore, Move
<1> QED
  BY <1>1, <1>2, <1>3, <1>4 DEF Next

(* The leased runtime of an unwatched tenant is open until shutdown. *)
THEOREM UnwatchedLeasesStayOpen == Spec => []UnwatchedLeaseOpen
<1> DEFINE Inv == PeeksWatched /\ UnwatchedLeaseOpen
<1>1. Init => Inv
  BY DEF Init, PeeksWatched, UnwatchedLeaseOpen
<1>2. IInv /\ Inv /\ [Next]_vars => Inv'
  <2> SUFFICES ASSUME IInv, Inv, [Next]_vars PROVE UnwatchedLeaseOpen'
    BY NextPeeksWatched DEF IInv
  <2> SUFFICES ASSUME up', NEW t \in Tasks, pc'[t] = "held", want'[t] \notin Watched
                PROVE  phase'[ent'[t]] = "open"
    BY DEF UnwatchedLeaseOpen
  <2>1. up
    BY LeaseKept DEF IInv
  <2>2. CASE pc[t] # "held"
    BY <2>2, GrantsOpen DEF IInv
  <2>3. CASE pc[t] = "held"
    <3>1. want'[t] = want[t] /\ ent'[t] = ent[t] /\ ent[t] \in Runtimes /\ phase[ent[t]] = "open"
      BY <2>1, <2>3, LeaseKept DEF IInv, Typed, LocalsOK, UnwatchedLeaseOpen
    <3>2. PICK r \in Runtimes : r = ent[t]
      BY <3>1
    <3>3. t \in Holders(r)'
      BY <3>1, <3>2 DEF Holders
    <3>4. phase'[r] # "closing"
      BY <2>1, <3>1, <3>2, <3>3, CloseStarts, ClosesIdle DEF IInv
    <3> QED
      BY <3>1, <3>2, <3>4, OpenStays DEF IInv
  <2> QED
    BY <2>2, <2>3
<1> QED
  BY Invariance, <1>1, <1>2, PTL DEF Spec

-----------------------------------------------------------------------------
(* If no close is cancelled, every close has somebody who will finish it.  *)
(* With cancellations this is false (see the README).                      *)

(* A task closes one runtime at a time, and is at its await of the close.  *)
Closers ==
  /\ \A r \in Runtimes : phase[r] = "closing" => closer[r] # NoTask
  /\ \A r \in Runtimes : closer[r] \in Tasks => pc[closer[r]] \in Closing
  /\ \A q, r \in Runtimes : closer[q] \in Tasks /\ closer[q] = closer[r] => q = r

LEMMA NextClosers ==
  ASSUME ~CloseCancels
  PROVE  Typed /\ Closers /\ [Next]_vars => Closers'
<1> SUFFICES ASSUME Typed, Closers, [Next]_vars  PROVE Closers'
  OBVIOUS
<1>0. /\ closer \in [Runtimes -> Tasks \cup {Host, NoTask}]
      /\ phase \in [Runtimes -> {"unbuilt", "open", "closing", "closed"}]
      /\ cache \in [Orgs -> Runtimes \cup {NoRuntime}]
      /\ pc \in [Tasks -> PCs] /\ DOMAIN want = Tasks /\ DOMAIN ent = Tasks
      /\ \A t \in Tasks : pc[t] \in Looking \cup {"held"} => want[t] \in Orgs
      /\ \A t \in Tasks : pc[t] = "held" => ent[t] \in Runtimes
  BY DEF Typed, StateOK, LocalsOK
<1> USE <1>0, NullAssumption DEF vars, life, locals, Closers, Closing, Looking, Locked
<1>1. ASSUME NEW t \in Tasks, FastPath(t) \/ Abandon(t)
      PROVE  Closers'
  <2>1. phase' = phase /\ closer' = closer /\ pc[t] \notin Closing
    BY <1>1
    DEF FastPath, Miss, Hit, Peek, Ask, PeekRead, ReadFingerprint, PeekFresh, PeekKeyError,
        PeekChanged, Answer500, Abandon
  <2>2. \A u \in Tasks \ {t} : pc'[u] = pc[u]
    BY <1>1
    DEF FastPath, Miss, Hit, Peek, Ask, PeekRead, ReadFingerprint, PeekFresh, PeekKeyError,
        PeekChanged, Answer500, Abandon, Return, Leave, Goto
  <2> QED
    BY <2>1, <2>2
<1>2. ASSUME NEW t \in Tasks,
             \/ Lock(t) \/ CheckRead(t) \/ CheckHit(t) \/ CheckMiss(t) \/ LoadRead(t)
             \/ BuildFails(t)
      PROVE  Closers'
  BY <1>2 DEF Lock, CheckRead, ReadFingerprint, CheckHit, CheckMiss, LoadRead, BuildFails,
              Return, Leave, Goto
<1>3. ASSUME NEW t \in Tasks, CheckChanged(t)  PROVE Closers'
  BY <1>3 DEF CheckChanged, BeginClose, Goto, Cached
<1>4. ASSUME NEW t \in Tasks, OldClosed(t) \/ LruClosed(t) \/ RelClosed(t)  PROVE Closers'
  <2>1. PICK r \in Runtimes : closer[r] = t /\ EndClose(r)
    BY <1>4 DEF OldClosed, LruClosed, RelClosed
  <2>2. /\ \A q \in Runtimes \ {r} : phase'[q] = phase[q] /\ closer'[q] = closer[q]
        /\ phase'[r] = "closed" /\ closer'[r] = NoTask
    BY <2>1 DEF EndClose
  <2>3. \A u \in Tasks \ {t} : pc'[u] = pc[u]
    BY <1>4 DEF OldClosed, LruClosed, RelClosed, Return, Leave, Goto
  <2>4. \A q \in Runtimes \ {r} : closer[q] # t
    BY <2>1
  <2> QED
    BY <2>2, <2>3, <2>4
<1>5. ASSUME NEW t \in Tasks, NEW r \in Runtimes,
             Built(t, r) \/ \E v \in Orgs : BuiltEvictBusy(t, r, v)
      PROVE  Closers'
  BY <1>5 DEF Built, BuiltEvictBusy, BuiltOver, NewEntry, Return, Leave, Goto
<1>6. ASSUME NEW t \in Tasks, NEW r \in Runtimes, NEW v \in Orgs, BuiltEvictIdle(t, r, v)
      PROVE  Closers'
  BY <1>6 DEF BuiltEvictIdle, BuiltOver, NewEntry, IsOldest, Goto, Cached
<1>7. ASSUME NEW t \in Tasks, Release(t)  PROVE Closers'
  BY <1>7 DEF Release, BeginClose, Leave, Goto
<1>8. ASSUME NEW t \in Tasks, CancelClose(t)  PROVE Closers'
  BY <1>8 DEF CancelClose
<1>9. ASSUME NEW r \in Runtimes, ShutdownClose(r) \/ ShutdownClosed(r)  PROVE Closers'
  BY <1>9 DEF ShutdownClose, ShutdownClosed, BeginClose, EndClose
<1>10. CASE Shutdown \/ Edits \/ UNCHANGED vars
  BY <1>10 DEF Shutdown, Edits, Write, Restore, Move
<1> QED
  BY <1>1, <1>2, <1>3, <1>4, <1>5, <1>6, <1>7, <1>8, <1>9, <1>10 DEF Next, SlowPath

(* A runtime that is being closed is awaited by the task that closes it,   *)
(* or by aclose_all, unless a request is cancelled inside aclose().        *)
THEOREM UncancelledClosesFinish ==
  ASSUME ~CloseCancels
  PROVE  Spec => []ClosingHasCloser
<1>1. Init => Closers
  BY NullAssumption DEF Init, Closers
<1>2. IInv /\ Closers /\ [Next]_vars => Closers'
  BY NextClosers DEF IInv
<1>3. IInv /\ Closers => ClosingHasCloser
  BY NullAssumption DEF IInv, Typed, StateOK, Closers, ClosingHasCloser
<1> QED
  BY Invariance, <1>1, <1>2, <1>3, PTL DEF Spec
=============================================================================
