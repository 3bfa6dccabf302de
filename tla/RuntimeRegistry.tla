--------------------------- MODULE RuntimeRegistry ---------------------------
(***************************************************************************)
(* The per-tenant runtime cache of deps.py: RuntimeRegistry, its entries,  *)
(* and the Lease a turn holds on an entry.                                 *)
(*                                                                         *)
(* Everything runs on one asyncio loop, so what happens between two awaits *)
(* is one action.  A task is a request that looks a runtime up (acquire or *)
(* get), may hold a lease, and releases it.  pc[t] names the await it is   *)
(* suspended at:                                                           *)
(*   idle      no call of the registry                                     *)
(*   peek      fast path, the fingerprint thread has not read the file     *)
(*   peeked    fast path, the thread has read, the task has not resumed    *)
(*   wait      queued on self._lock                                        *)
(*   check, checked   the same two points under the lock                   *)
(*   closeOld  awaiting aclose() of the entry whose config changed         *)
(*   load, build      awaiting the config thread, then the builder         *)
(*   closeLru  awaiting aclose() of the evicted entry                      *)
(*   held      the caller owns a Lease on ent[t]                           *)
(*   closeRel  awaiting aclose() inside Lease.release                      *)
(*   crashed   the lookup raised KeyError                                  *)
(***************************************************************************)
EXTENDS Integers, FiniteSets

CONSTANTS
  Orgs,           \* tenants (org_id values)
  Watched,        \* tenants whose fingerprint is read in a thread: all but
                  \* None when host_tenant_config_dir is set, else none
  Tasks,          \* concurrent requests
  Runtimes,       \* identities of the entries that may be built
  MaxTenants,     \* host_max_tenants; 0 disables eviction
  MaxVersion,     \* bound: how often a tenant's files may be written
  MaxBack,        \* bound: how many states they may come back to
  CloseCancels,   \* whether a task may be cancelled while it awaits aclose()
  NoOrg, NoRuntime, NoTask,
  Host            \* the closer of an entry that aclose_all closes

ASSUME FiniteAssumption == IsFiniteSet(Orgs) /\ IsFiniteSet(Tasks)
ASSUME WatchedAssumption == Watched \subseteq Orgs
ASSUME BoundAssumption == {MaxTenants, MaxVersion, MaxBack} \subseteq Nat
ASSUME CancelAssumption == CloseCancels \in BOOLEAN
ASSUME NullAssumption == /\ NoOrg \notin Orgs
                         /\ NoRuntime \notin Runtimes
                         /\ NoTask \notin Tasks \cup {Host}
                         /\ Host \notin Tasks

VARIABLES
  version,    \* per org: the state of its files, which is what fingerprint() and
              \* load() would read; 0 = no tenant.yaml, the fingerprint None
  written,    \* per org: the states its files have had are 0 .. written
  back,       \* history: the states its files came back to
  cache,      \* self._entries as a map
  older,      \* its order: <<a, b>> when a was used before b
  retiring,   \* self._retiring
  doomed,     \* the local list of aclose_all that is still to be closed
  lock,       \* the owner of self._lock
  up,         \* FALSE once the lifespan's shutdown has begun
  orgOf, fp, leases, retired,   \* _Entry
  cfg,        \* the config version the entry's runtime was built from
  phase,      \* unbuilt, open, closing, closed: the entry's runtime
  closer,     \* who awaits its aclose()
  pc, want, ent, seen, src,     \* a task's locals: org, entry, fingerprint,
                                \* loaded config
  during      \* history: the versions in place since the task asked

files == <<version, written, back>>
entries == <<orgOf, fp, cfg>>
life == <<leases, retired, phase, closer>>
registry == <<cache, older, retiring, doomed>>
locals == <<want, ent, seen, src, during>>
vars == <<files, registry, lock, up, entries, life, pc, locals>>

Versions == 0 .. MaxVersion
Locked == {"check", "checked", "closeOld", "load", "build", "closeLru"}
Looking == {"peek", "peeked", "wait"} \cup Locked
Closing == {"closeOld", "closeLru", "closeRel"}
PCs == Looking \cup Closing \cup {"idle", "held", "crashed"}

Cached == {o \in Orgs : cache[o] # NoRuntime}
Holders(r) == {t \in Tasks : pc[t] = "held" /\ ent[t] = r}

Init ==
  /\ version = [o \in Orgs |-> 0] /\ written = [o \in Orgs |-> 0]
  /\ back = [o \in Orgs |-> {}]
  /\ cache = [o \in Orgs |-> NoRuntime]
  /\ older = {} /\ retiring = {} /\ doomed = {}
  /\ lock = NoTask
  /\ up = TRUE
  /\ orgOf = [r \in Runtimes |-> NoOrg]
  /\ fp = [r \in Runtimes |-> 0]
  /\ cfg = [r \in Runtimes |-> 0]
  /\ leases = [r \in Runtimes |-> 0]
  /\ retired = [r \in Runtimes |-> FALSE]
  /\ phase = [r \in Runtimes |-> "unbuilt"]
  /\ closer = [r \in Runtimes |-> NoTask]
  /\ pc = [t \in Tasks |-> "idle"]
  /\ want = [t \in Tasks |-> NoOrg]
  /\ ent = [t \in Tasks |-> NoRuntime]
  /\ seen = [t \in Tasks |-> 0]
  /\ src = [t \in Tasks |-> 0]
  /\ during = [t \in Tasks |-> {}]

-----------------------------------------------------------------------------
(* The order of the OrderedDict, and the pieces the handlers share.        *)

Forget(order, o) == {p \in order : p[1] # o /\ p[2] # o}
MoveToEnd(o) == Forget(older, o) \cup ((Cached \ {o}) \X {o})
IsOldest(o) == o \in Cached /\ \A p \in older : p[2] # o

Goto(t, label) == pc' = [pc EXCEPT ![t] = label]
Unlock(t) == lock' = IF lock = t THEN NoTask ELSE lock

(* The task leaves the registry: its locals are gone. *)
Leave(t) ==
  /\ Goto(t, "idle")
  /\ want' = [want EXCEPT ![t] = NoOrg]
  /\ ent' = [ent EXCEPT ![t] = NoRuntime]
  /\ seen' = [seen EXCEPT ![t] = 0]
  /\ src' = [src EXCEPT ![t] = 0]
  /\ during' = [during EXCEPT ![t] = {}]

(* acquire() counts one more lease on r.  Mutant: a flag, not a counter. *)
LeasedOnce(r) == [leases EXCEPT ![r] = 1]
Leased(r) == [leases EXCEPT ![r] = @ + 1]

(* _current returned r: acquire() counts a lease, get() only hands out the *)
(* runtime.  No await separates the two in acquire.                        *)
Return(t, r) ==
  \/ /\ Goto(t, "held")
     /\ ent' = [ent EXCEPT ![t] = r]
     /\ leases' = Leased(r)
     /\ seen' = [seen EXCEPT ![t] = 0]
     /\ src' = [src EXCEPT ![t] = 0]
     /\ UNCHANGED <<want, during>>
  \/ Leave(t) /\ UNCHANGED leases

(* _retire closes an idle entry at once.  Mutant: any entry. *)
IdleOrNot(r) == TRUE
Idle(r) == leases[r] <= 0

BeginClose(r, who) ==
  /\ phase' = [phase EXCEPT ![r] = "closing"]
  /\ closer' = [closer EXCEPT ![r] = who]

(* aclose() came back; an exception it raised is swallowed. *)
EndClose(r) ==
  /\ phase' = [phase EXCEPT ![r] = "closed"]
  /\ closer' = [closer EXCEPT ![r] = NoTask]

-----------------------------------------------------------------------------
(* _current, before the lock.                                              *)

Ask(t, o) ==
  /\ up /\ pc[t] = "idle"
  /\ want' = [want EXCEPT ![t] = o]
  /\ during' = [during EXCEPT ![t] = {version[o]}]

Miss(t, o) ==
  /\ Ask(t, o)
  /\ o \notin Cached
  /\ Goto(t, "wait")
  /\ UNCHANGED <<files, registry, lock, up, entries, life, ent, seen, src>>

(* Without a watched file the fingerprint is None and nothing is awaited:  *)
(* the hit and the lease are one step.                                     *)
Hit(t, o) ==
  /\ up /\ pc[t] = "idle"
  /\ o \in Cached \ Watched
  /\ older' = MoveToEnd(o)
  /\ \/ /\ Ask(t, o)
        /\ Goto(t, "held")
        /\ ent' = [ent EXCEPT ![t] = cache[o]]
        /\ leases' = Leased(cache[o])
     \/ UNCHANGED <<pc, leases, want, during, ent>>
  /\ UNCHANGED <<files, cache, retiring, doomed, lock, up, entries, retired,
                 phase, closer, seen, src>>

(* A watched hit keeps the entry in a local and awaits the thread. *)
Peek(t, o) ==
  /\ Ask(t, o)
  /\ o \in Cached \cap Watched
  /\ Goto(t, "peek")
  /\ ent' = [ent EXCEPT ![t] = cache[o]]
  /\ UNCHANGED <<files, registry, lock, up, entries, life, seen, src>>

ReadFingerprint(t, from, to) ==
  /\ pc[t] = from
  /\ Goto(t, to)
  /\ seen' = [seen EXCEPT ![t] = version[want[t]]]
  /\ UNCHANGED <<files, registry, lock, up, entries, life, want, ent, src, during>>

PeekRead(t) == ReadFingerprint(t, "peek", "peeked")

Matches(t) == seen[t] = fp[ent[t]]

(* The fast path resumes with the entry it read before the await: whether  *)
(* that entry is still the cached one is not looked at.                    *)
PeekFresh(t) ==
  /\ pc[t] = "peeked" /\ Matches(t)
  /\ want[t] \in Cached
  /\ older' = MoveToEnd(want[t])
  /\ Return(t, ent[t])
  /\ UNCHANGED <<files, cache, retiring, doomed, lock, up, entries, retired, phase, closer>>

PeekKeyError(t) ==
  /\ pc[t] = "peeked" /\ Matches(t)
  /\ want[t] \notin Cached
  /\ Goto(t, "crashed")
  /\ UNCHANGED <<files, registry, lock, up, entries, life, locals>>

PeekChanged(t) ==
  /\ pc[t] = "peeked" /\ ~Matches(t)
  /\ Goto(t, "wait")
  /\ ent' = [ent EXCEPT ![t] = NoRuntime]
  /\ seen' = [seen EXCEPT ![t] = 0]
  /\ UNCHANGED <<files, registry, lock, up, entries, life, want, src, during>>

Answer500(t) ==
  /\ pc[t] = "crashed"
  /\ Leave(t)
  /\ UNCHANGED <<files, registry, lock, up, entries, life>>

-----------------------------------------------------------------------------
(* _current, under the lock.                                               *)

(* Mutant: the cache is not looked at again under the lock. *)
LockAndBuild(t) ==
  /\ pc[t] = "wait" /\ lock = NoTask
  /\ lock' = t
  /\ Goto(t, "load")
  /\ UNCHANGED <<files, registry, up, entries, life, locals>>

Lock(t) ==
  /\ pc[t] = "wait" /\ lock = NoTask
  /\ lock' = t
  /\ Goto(t, "check")
  /\ UNCHANGED <<files, registry, up, entries, life, locals>>

CheckRead(t) == ReadFingerprint(t, "check", "checked")

CheckHit(t) ==
  /\ pc[t] = "checked" /\ want[t] \in Cached
  /\ fp[cache[want[t]]] = seen[t]
  /\ older' = MoveToEnd(want[t])
  /\ Unlock(t)
  /\ Return(t, cache[want[t]])
  /\ UNCHANGED <<files, cache, retiring, doomed, up, entries, retired, phase, closer>>

CheckMiss(t) ==
  /\ pc[t] = "checked" /\ want[t] \notin Cached
  /\ Goto(t, "load")
  /\ UNCHANGED <<files, registry, lock, up, entries, life, locals>>

(* The config changed: the entry is dropped and retired.  With leases it   *)
(* stays in _retiring, idle it is closed now.                              *)
CheckChanged(t) ==
  /\ pc[t] = "checked" /\ want[t] \in Cached
  /\ LET r == cache[want[t]] IN
       /\ fp[r] # seen[t]
       /\ cache' = [cache EXCEPT ![want[t]] = NoRuntime]
       /\ older' = Forget(older, want[t])
       /\ retired' = [retired EXCEPT ![r] = TRUE]
       /\ \/ /\ ~Idle(r)
             /\ retiring' = retiring \cup {r}
             /\ Goto(t, "load")
             /\ UNCHANGED <<phase, closer>>
          \/ /\ Idle(r)
             /\ BeginClose(r, t)
             /\ Goto(t, "closeOld")
             /\ UNCHANGED retiring
  /\ UNCHANGED <<files, doomed, lock, up, entries, leases, locals>>

OldClosed(t) ==
  /\ pc[t] = "closeOld"
  /\ \E r \in Runtimes : closer[r] = t /\ EndClose(r)
  /\ Goto(t, "load")
  /\ UNCHANGED <<files, registry, lock, up, entries, leases, retired, locals>>

LoadRead(t) ==
  /\ pc[t] = "load"
  /\ Goto(t, "build")
  /\ src' = [src EXCEPT ![t] = version[want[t]]]
  /\ UNCHANGED <<files, registry, lock, up, entries, life, want, ent, seen, during>>

(* The stamp of a new entry is the fingerprint read before the load.       *)
(* Mutant: the fingerprint of the moment it is made.                       *)
StampLate(t) == version[want[t]]
Stamp(t) == seen[t]

(* The builder returned: a new entry. *)
NewEntry(t, r) ==
  /\ pc[t] = "build" /\ phase[r] = "unbuilt"
  /\ orgOf' = [orgOf EXCEPT ![r] = want[t]]
  /\ fp' = [fp EXCEPT ![r] = Stamp(t)]
  /\ cfg' = [cfg EXCEPT ![r] = src[t]]

(* Mutant: the size is compared before the insertion. *)
OverflowsBefore(t) == MaxTenants > 0 /\ Cardinality(Cached) > MaxTenants
Overflows(t) == MaxTenants > 0 /\ Cardinality(Cached \cup {want[t]}) > MaxTenants

Built(t, r) ==
  /\ NewEntry(t, r)
  /\ ~Overflows(t)
  /\ cache' = [cache EXCEPT ![want[t]] = r]
  /\ older' = MoveToEnd(want[t])
  /\ phase' = [phase EXCEPT ![r] = "open"]
  /\ Unlock(t)
  /\ Return(t, r)
  /\ UNCHANGED <<files, retiring, doomed, up, retired, closer>>

(* One entry too many: the least recently used one, v, is retired in the   *)
(* same step.  CapHolds shows that the loop runs once.                     *)
BuiltOver(t, r, v) ==
  /\ NewEntry(t, r)
  /\ Overflows(t) /\ IsOldest(v) /\ v # want[t]
  /\ cache' = [cache EXCEPT ![want[t]] = r, ![v] = NoRuntime]
  /\ older' = Forget(MoveToEnd(want[t]), v)
  /\ retired' = [retired EXCEPT ![cache[v]] = TRUE]

BuiltEvictBusy(t, r, v) ==
  /\ BuiltOver(t, r, v) /\ ~Idle(cache[v])
  /\ retiring' = retiring \cup {cache[v]}
  /\ phase' = [phase EXCEPT ![r] = "open"]
  /\ Unlock(t)
  /\ Return(t, r)
  /\ UNCHANGED <<files, doomed, up, closer>>

BuiltEvictIdle(t, r, v) ==
  /\ BuiltOver(t, r, v) /\ Idle(cache[v])
  /\ phase' = [phase EXCEPT ![r] = "open", ![cache[v]] = "closing"]
  /\ closer' = [closer EXCEPT ![cache[v]] = t]
  /\ Goto(t, "closeLru")
  /\ ent' = [ent EXCEPT ![t] = r]
  /\ UNCHANGED <<files, retiring, doomed, lock, up, leases, want, seen, src, during>>

LruClosed(t) ==
  /\ pc[t] = "closeLru"
  /\ \E r \in Runtimes : closer[r] = t /\ EndClose(r)
  /\ Unlock(t)
  /\ Return(t, ent[t])
  /\ UNCHANGED <<files, registry, up, entries, retired>>

(* TenantConfigInvalid, or an exception of the builder. *)
BuildFailsLocked(t) ==   \* mutant: the lock is kept
  /\ pc[t] \in {"load", "build"}
  /\ Leave(t)
  /\ UNCHANGED <<files, registry, lock, up, entries, life>>

BuildFails(t) ==
  /\ pc[t] \in {"load", "build"}
  /\ Unlock(t)
  /\ Leave(t)
  /\ UNCHANGED <<files, registry, up, entries, life>>

(* The request is cancelled, or its fingerprint read raises, at an await   *)
(* that closes nothing; the async with gives the lock back.                *)
Abandon(t) ==
  /\ pc[t] \in Looking \ Closing
  /\ Unlock(t)
  /\ Leave(t)
  /\ UNCHANGED <<files, registry, up, entries, life>>

-----------------------------------------------------------------------------
(* Lease.release, shutdown, and the environment.                           *)

(* The release that closes: the last one of a retired entry that shutdown  *)
(* has not taken over.  Mutants: counted before the decrement; without the *)
(* membership test.                                                        *)
LastReleaseLate(t) == retired[ent[t]] /\ leases[ent[t]] <= 0 /\ ent[t] \in retiring
LastReleaseAny(t) == retired[ent[t]] /\ leases[ent[t]] <= 1
LastRelease(t) == retired[ent[t]] /\ leases[ent[t]] <= 1 /\ ent[t] \in retiring

Release(t) ==
  /\ pc[t] = "held"
  /\ LET r == ent[t] IN
       /\ leases' = [leases EXCEPT ![r] = @ - 1]
       /\ \/ /\ LastRelease(t)
             /\ retiring' = retiring \ {r}
             /\ BeginClose(r, t)
             /\ Goto(t, "closeRel")
             /\ UNCHANGED locals
          \/ /\ ~LastRelease(t)
             /\ Leave(t)
             /\ UNCHANGED <<retiring, phase, closer>>
  /\ UNCHANGED <<files, cache, older, doomed, lock, up, entries, retired>>

RelClosed(t) ==
  /\ pc[t] = "closeRel"
  /\ \E r \in Runtimes : closer[r] = t /\ EndClose(r)
  /\ Leave(t)
  /\ UNCHANGED <<files, registry, lock, up, entries, leases, retired>>

(* Cancelled inside aclose(): _close catches Exception, and CancelledError *)
(* is none, so the close ends where it was and nobody takes it up again.   *)
CancelClose(t) ==
  /\ CloseCancels /\ pc[t] \in Closing
  /\ closer' = [r \in Runtimes |-> IF closer[r] = t THEN NoTask ELSE closer[r]]
  /\ Unlock(t)
  /\ Leave(t)
  /\ UNCHANGED <<files, registry, up, entries, leases, retired, phase>>

(* The entries aclose_all closes.  Mutants: the cached ones only; one per  *)
(* tenant, cached or not.                                                  *)
ToCloseCached == {cache[o] : o \in Cached}
ToCloseSlots == {cache[o] : o \in Orgs} \cup retiring
ToClose == {cache[o] : o \in Cached} \cup retiring

(* aclose_all.  The server has drained its connections: what is left are   *)
(* leases of detached runs and their releases.                             *)
Shutdown ==
  /\ up /\ \A t \in Tasks : pc[t] \in {"idle", "held", "closeRel"}
  /\ up' = FALSE
  /\ doomed' = ToClose
  /\ cache' = [o \in Orgs |-> NoRuntime]
  /\ older' = {} /\ retiring' = {}
  /\ UNCHANGED <<files, lock, entries, life, pc, locals>>

ShutdownClose(r) ==
  /\ r \in doomed /\ \A q \in Runtimes : closer[q] # Host
  /\ doomed' = doomed \ {r}
  /\ retired' = [retired EXCEPT ![r] = TRUE]
  /\ BeginClose(r, Host)
  /\ UNCHANGED <<files, cache, older, retiring, lock, up, entries, leases, pc, locals>>

ShutdownClosed(r) ==
  /\ closer[r] = Host
  /\ EndClose(r)
  /\ UNCHANGED <<files, registry, lock, up, entries, leases, retired, pc, locals>>

(* The operator takes the files of a tenant to another state; the lookups  *)
(* of that tenant that are under way may read it.                          *)
Move(o, v) ==
  /\ version' = [version EXCEPT ![o] = v]
  /\ during' = [t \in Tasks |-> IF want[t] = o /\ pc[t] \in Looking
                                THEN during[t] \cup {v} ELSE during[t]]
  /\ UNCHANGED <<registry, lock, up, entries, life, pc, want, ent, seen, src>>

(* tenant.yaml or a secret is written: its mtime, and so the fingerprint,  *)
(* is one that was never seen.                                             *)
Write(o) ==
  /\ o \in Watched /\ written[o] < MaxVersion
  /\ written' = [written EXCEPT ![o] = @ + 1]
  /\ Move(o, written[o] + 1)
  /\ UNCHANGED back

(* A file is removed, or put back with its mtime: the files are as they    *)
(* were before, and so is their fingerprint.  Without tenant.yaml it is    *)
(* None, every time.                                                       *)
Restore(o, v) ==
  /\ o \in Watched /\ Cardinality(back[o]) < MaxBack
  /\ v \in (0 .. written[o]) \ {version[o]}
  /\ back' = [back EXCEPT ![o] = @ \cup {v}]
  /\ Move(o, v)
  /\ UNCHANGED written

Edits == \E o \in Orgs : Write(o) \/ \E v \in Versions : Restore(o, v)

-----------------------------------------------------------------------------
FastPath(t) ==
  \/ PeekRead(t) \/ PeekFresh(t) \/ PeekKeyError(t) \/ PeekChanged(t) \/ Answer500(t)
  \/ \E o \in Orgs : Miss(t, o) \/ Hit(t, o) \/ Peek(t, o)

SlowPath(t) ==
  \/ Lock(t) \/ CheckRead(t) \/ CheckHit(t) \/ CheckMiss(t) \/ CheckChanged(t)
  \/ OldClosed(t) \/ LoadRead(t) \/ LruClosed(t) \/ BuildFails(t)
  \/ \E r \in Runtimes :
       Built(t, r) \/ \E v \in Orgs : BuiltEvictBusy(t, r, v) \/ BuiltEvictIdle(t, r, v)

Next ==
  \/ \E t \in Tasks :
       FastPath(t) \/ SlowPath(t) \/ Abandon(t) \/ Release(t) \/ RelClosed(t) \/ CancelClose(t)
  \/ Shutdown
  \/ \E r \in Runtimes : ShutdownClose(r) \/ ShutdownClosed(r)
  \/ Edits

Spec == Init /\ [][Next]_vars

(* Threads, builders and aclose() return, turns end, and asyncio.Lock      *)
(* serves its waiters in order; nobody has to ask, edit or shut down.      *)
Resume(t) == SlowPath(t) \/ (FastPath(t) /\ pc[t] # "idle") \/ Release(t) \/ RelClosed(t)
Fairness ==
  /\ \A t \in Tasks : WF_vars(Resume(t)) /\ SF_vars(Lock(t))
  /\ WF_vars(\E r \in Runtimes : ShutdownClose(r) \/ ShutdownClosed(r))
FairSpec == Spec /\ Fairness

-----------------------------------------------------------------------------
(* Type invariant: the state, and the two histories. *)
StateOK ==
  /\ version \in [Orgs -> Versions] /\ written \in [Orgs -> Versions]
  /\ cache \in [Orgs -> Runtimes \cup {NoRuntime}]
  /\ older \subseteq Orgs \X Orgs
  /\ retiring \subseteq Runtimes /\ doomed \subseteq Runtimes
  /\ lock \in Tasks \cup {NoTask}
  /\ up \in BOOLEAN
  /\ orgOf \in [Runtimes -> Orgs \cup {NoOrg}]
  /\ fp \in [Runtimes -> Versions] /\ cfg \in [Runtimes -> Versions]
  /\ leases \in [Runtimes -> Int]
  /\ retired \in [Runtimes -> BOOLEAN]
  /\ phase \in [Runtimes -> {"unbuilt", "open", "closing", "closed"}]
  /\ closer \in [Runtimes -> Tasks \cup {Host, NoTask}]
  /\ pc \in [Tasks -> PCs]
  /\ want \in [Tasks -> Orgs \cup {NoOrg}]
  /\ ent \in [Tasks -> Runtimes \cup {NoRuntime}]
  /\ seen \in [Tasks -> Versions] /\ src \in [Tasks -> Versions]

HistoryOK ==
  /\ back \in [Orgs -> SUBSET Versions]
  /\ during \in [Tasks -> SUBSET Versions]

TypeOK == StateOK /\ HistoryOK

(* The lease counter of an entry is the number of callers that hold one:   *)
(* no lookup, failure, cancellation or release path loses or doubles one.  *)
LeaseCount == \A r \in Runtimes : leases[r] = Cardinality(Holders(r))

(* No open runtime is out of reach of a close: it is the cached one of its *)
(* org, or it is retired and waits for leases somebody really holds, or    *)
(* shutdown has it on its list.                                            *)
NothingLeaks ==
  \A r \in Runtimes : phase[r] = "open" =>
    \/ orgOf[r] \in Orgs /\ cache[orgOf[r]] = r /\ ~retired[r]
    \/ r \in retiring /\ retired[r] /\ Holders(r) # {}
    \/ r \in doomed

(* The cache never exceeds host_max_tenants, not even while a lookup       *)
(* awaits the close of the entry it evicted.                               *)
CapHolds == MaxTenants > 0 => Cardinality(Cached) <= MaxTenants

(* Single flight: concurrent first uses of a tenant build one runtime.     *)
SingleFlight ==
  \A r, q \in Runtimes :
    /\ phase[r] = "open" /\ phase[q] = "open" /\ ~retired[r] /\ ~retired[q]
    /\ orgOf[r] = orgOf[q]
    => r = q

(* The one way an entry's config may differ from its stamp unnoticed: the  *)
(* files changed between the two reads, and a removal (or a file put back) *)
(* brought the stamped fingerprint back later.  So an entry built from a   *)
(* tenant.yaml that was written between them, and removed since, is taken  *)
(* for current: None is None (see the README).                             *)
Recurred(r) == cfg[r] # fp[r] /\ fp[r] \in back[orgOf[r]]

(* A cached entry whose stamp matches the tenant's files was built from    *)
(* that very content, or the stamp recurred: the fingerprint is read       *)
(* before the load, so an edit in between is noticed by the next lookup.   *)
ConfigFresh ==
  \A o \in Cached :
    fp[cache[o]] = version[o] => cfg[cache[o]] = version[o] \/ Recurred(cache[o])

(* A turn runs on the runtime of its own tenant, and on a config that was  *)
(* in place at some moment between its request and its lease, unless the   *)
(* stamp of the entry recurred.                                            *)
TurnSeesConfig ==
  \A t \in Tasks : pc[t] = "held" =>
    /\ orgOf[ent[t]] = want[t]
    /\ cfg[ent[t]] \in during[t] \/ Recurred(ent[t])

(* A turn's runtime is open for as long as the turn holds its lease (until *)
(* shutdown, which cuts off the detached runs it finds).                   *)
LeasedRuntimeOpen ==
  up => \A t \in Tasks : pc[t] = "held" => phase[ent[t]] = "open"

(* So is at least the runtime of a tenant whose file is not watched,       *)
(* whatever happens to the other tenants.                                  *)
UnwatchedLeaseOpen ==
  up => \A t \in Tasks :
          pc[t] = "held" /\ want[t] \notin Watched => phase[ent[t]] = "open"

(* A runtime that is being closed has somebody who will finish it. *)
ClosingHasCloser ==
  \A r \in Runtimes : phase[r] = "closing" =>
    closer[r] = Host \/ \E t \in Tasks : closer[r] = t /\ pc[t] \in Closing

(* In-flight turns are never cut off: before shutdown, no step begins to   *)
(* close a runtime on which somebody holds a lease after it.               *)
CloseOnlyIdle ==
  [][\A r \in Runtimes :
       up /\ phase[r] # "closing" /\ phase'[r] = "closing" => Holders(r)' = {}]_vars

(* aclose() is called at most once per runtime, by whichever of reload,    *)
(* eviction, last release and shutdown gets there.                         *)
ClosedOnce ==
  [][\A r \in Runtimes :
       closer'[r] \notin {closer[r], NoTask} => phase[r] = "open"]_vars

(* A lookup ends: with a lease or a runtime, an error, or a crash. *)
LookupEnds == \A t \in Tasks : pc[t] \in Looking ~> pc[t] \notin Looking

(* A retired runtime is eventually closed. *)
RetiredCloses == \A r \in Runtimes : retired[r] ~> phase[r] = "closed"

(* After shutdown no runtime stays open, though some of its leases are     *)
(* released while aclose_all is on its way.                                *)
ShutdownCloses ==
  ~up ~> \A r \in Runtimes : phase[r] \in {"unbuilt", "closed"}
=============================================================================
