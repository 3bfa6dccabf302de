# prismal-server in TLA+

prismal-server hosts the prismal engine for several tenants over REST, SSE, AG-UI,
WebSocket and A2A. It is one Python process with one asyncio loop: what runs between
two `await`s is atomic, everything else interleaves, and files are read in threads.
This directory holds the models of its concurrent core, the TLC instances that check
them and the TLAPS proofs about them. Paths below are relative to
`src/src/prismal_server/`.

## Inventory

| component | state | operations | what is hard |
|---|---|---|---|
| Runtime registry and leases (`deps.py`) | `_entries` (LRU), `_retiring`, one lock, per entry `leases`, `retired`, `fingerprint` | `get`, `acquire`, `Lease.release`, reload, eviction, `aclose_all` | entries read before an await and used after it; who closes an entry; cancellation inside a close |
| AG-UI resume and turn lifecycle (`routes/threads.py`) | `resume_claims`, a turn's `recorded` flag, a lease's holds and release hook, the engine's checkpoint | `open_turn`, `_resume_input`, `_finish_detached`, `record_usage`, `Turn.aclose` | concurrent resumes, a retry that meets the next interrupt, a client that leaves in mid-resume |
| Turn streams (`streaming.py`) | the pump's bounded queue, its producer task | `prime`, `get`, `aclose`, `native_events`, `sse_stream`, `agui_events` | order, one terminal event, heartbeats against late items, a full queue at cancellation |
| WebSocket session (`routes/ws.py`) | `_busy`, `_turn_scope`, `_turn_done`, the send lock | receive loop, heartbeat, cancel, the turn task | a cancel racing the terminal frame, a failure without a frame |
| A2A and AG-UI endpoints (`routes/a2a.py`, `routes/agui.py`) | none of their own; a lease per call | `_dispatch`, `_finish_rpc`, cards | every path must release its lease once |
| Usage (`usage/*`, `routes/usage.py`) | rows, the sqlite connection, per-thread baselines | append, query, purge, cursors, the probe | concurrent appends under a cursor, two turns sharing a probe's baseline |
| Tenant resolution and thread keys (`auth/*`, `engine_thread_id`) | none | pure functions | two tenants must never share an engine thread |
| Tenant config and secrets (`tenancy/*`) | files | `fingerprint`, `load` | both are several reads, with edits between any two of them |
| Lifespan (`app.py`) | none | startup, ordered shutdown | detached runs that outlive their requests |
| Tracing (`tracing.py`) | a span's `ended` flag and outcome | `end`, `aclose` | the first outcome must win |
| Admin, health, metrics; config, errors, examples; fake graph | none, or test data | read-only pages, tables | nothing beyond their lookups |

How they meet: every route that runs a turn acquires a **lease** from the registry,
opens the graph on the tenant's runtime, hands the graph's event stream to a **pump**,
and releases the lease when the response ends. An AG-UI resume adds a **claim** on the
engine thread and holds the lease until its detached run is over. When the turn ends,
by its own stream or by the response's finalizer, **usage** is appended once. At
shutdown `aclose_all` closes every runtime, then the stores.

What makes the parts correct, in a line each:

- **registry**: a leased runtime is open, a runtime that left the cache is closed once and
  only when idle, one runtime per tenant, the cap holds, a turn runs on a config that was in
  place at some moment since its request (unless a removal brought an old fingerprint back),
  no lookup hangs;
- **turn lifecycle**: resumes of a thread exclude each other, an answer meets the question
  it was given for, a run that answers is left to end by itself, a finished turn is billed
  once and for its own run, a claim is always freed;
- **turn streams**: items keep their order, exactly one terminal event, closing cancels or
  drains the producer, whatever the queue's bound;
- **WebSocket session**: one turn at a time, its frames are contiguous and end with one
  terminal frame, every turn is answered unless its event stream itself raises (`raised`, see
  Findings), every end of the session frees the lease;
- **requests of every kind**: a lease taken is released on every path but one (`broken`), and
  not before the work on it is over or told to stop, except for an A2A stream that a cut send
  drops; a span says what became of its request, everything settles;
- **usage**: pages neither repeat nor skip, a purge removes what is old and nothing else,
  the store opens once;
- **keys and tenants**: different (organisation, thread) pairs never share an engine
  thread; a request is given only the tenant its credential allows; an edit of any file of
  a tenant is noticed, and a tenant never falls back to the operator's keys;
- **lifespan, tracing**: nothing is used after its close; the first outcome of a span stays.

## Modules

| module | models |
|---|---|
| `RuntimeRegistry` | `RuntimeRegistry`, `_Entry` and `Lease` of `deps.py`, with the mtime-driven reload |
| `MCRuntimeRegistry` | its TLC instances and their symmetry |
| `RuntimeRegistryProofs` | its inductive invariant and theorems |
| `ThreadTurns` | the turns of one engine thread: `open_turn`, `_resume_input`, `_finish_detached`, `record_usage` and `Turn` of `routes/threads.py`, the end of `agui_events`, and the checkpoint behind them |
| `MCThreadTurns` | its TLC instances, their symmetry and the scope of one search |
| `ThreadTurnsProofs` | its inductive invariant and theorems |
| `WsSession` | `_Session` of `routes/ws.py` with the pump that feeds its turns |
| `MCWsSession` | its TLC instance |
| `WsSessionProofs` | its inductive invariant and theorems |
| `Response` | what an HTTP request that leases a runtime has in common: its span (`tracing.py`), its lease, the streamed body and its backstop |
| `HttpTurn` | EXTENDS it with a chat turn: `run_turn`, the unbounded pump with priming and heartbeats, `native_events`, `agui_events` |
| `A2aRpc` | EXTENDS it with the A2A calls of `routes/a2a.py` and the leasing pages of `routes/admin.py` |
| `Requests`, `MCRequests` | the composition: one request of any kind, its fairness, what must hold of it |
| `RequestsProofs` | its inductive invariant, theorems, and the refinement of `TracedRequest` |
| `TracedRequest` | the abstract promise: one truthful span, a lease around the work, one answer |
| `UsageLog` | the abstract usage store, which is also `MemoryUsageStore` |
| `UsageStore`, `MCUsageStore` | `SqliteUsageStore` await by await, and the host's shutdown around it |
| `UsageStoreProofs` | its inductive invariant, theorems, and the refinement of `UsageLog` |
| `Access` | `resolve_org_id` and `engine_thread_id` as operators |
| `UsageReports`, `MCUsageReports` | `GET /v1/usage` over a `UsageLog`, for the callers of `Access` |
| `UsageReportsProofs` | the order of cursors, the inductive invariant of paging, the injectivity of engine keys |
| `TenantFiles`, `MCTenantFiles` | `fingerprint` and `load` of a tenant's files, read by read, while they are edited |
| `TenantFilesProofs` | its inductive invariant and theorems |

They meet through leases: a turn of `ThreadTurns` or `WsSession` and a request of `Requests`
are tasks in state `held` of `RuntimeRegistry`; what they ask of it is only that a lease,
once taken, can be released, and what it asks of them is that they do. `Requests` and
`ThreadTurns` look at the same turn from two sides: the first has one request with every
await of its response, the second many turns of one thread with their claims and checkpoint.
`RuntimeRegistry` takes each of the two readings of `TenantFiles` for one step.

In the modules an operator whose comment says *mutant* is a plausible bug; it is not part
of the specification and stands beside the definition it would replace.

### RuntimeRegistry

A *task* is a request. `pc[t]` names the `await` it is suspended at, so one action runs
from one `await` to the next. `cache` and `older` are the `OrderedDict`: a map and its
order, as the relation "was used before", so that no sequence has to be searched.
`retiring`, `lock`, `leases`, `retired` and `fp` are the fields of the same names;
`phase` and `closer` say how far the entry's `aclose()` is and who awaits it.
`doomed` is the local list of `aclose_all`. The state of a tenant's files is its `version`,
0 for no `tenant.yaml`: the fingerprint read returns it, and the load returns it. `Write`
takes them to a state that never was (a new mtime), `Restore` back to one they were in: a
`tenant.yaml` that is removed is fingerprinted as `None` every time, a secret that is removed
leaves the fingerprint from before it. `written` says which states there have been. Tenants in
`Watched` have their fingerprint read in a thread (`host_tenant_config_dir` is set and
the org is not `None`); for the others the fast path does not suspend.
`during` and `back` are history variables: the versions in place since the task asked, and
the states the files came back to.

`fp` and `cfg` of an entry may differ, as they are read one after the other. Normally the next
lookup finds such a stamp stale. Where the stamped state came back it does not, and the entry
goes on with a config that is no longer there: `Recurred`, the one case that `ConfigFresh` and
`TurnSeesConfig` exempt. The run reaches it; without the exemption it is a counterexample.

A raised `TenantConfigInvalid`, a failing builder and a cancelled request are
`BuildFails` and `Abandon`; a cancellation that lands inside `aclose()` is
`CancelClose`, allowed by the constant `CloseCancels`. `get` is a lookup that returns
without a lease. `aclose_all` starts when no lookup is under way, as the server
drains its connections before the lifespan ends; leases of detached runs may remain.

Under the lock the fingerprint of an unwatched tenant is read without suspending in the
code and with a suspension in the model; that only adds interleavings.

### ThreadTurns

Claims, checkpoint, interrupt ids and the usage probe are all keyed by the engine thread,
so the module has one thread and any number of turns. A turn has up to four concurrent
parts, each with its own program counter: the request (`pc`), the graph run in the pump's
task (`run`), the finalizer of a resume (`fin`) and its appends to the usage store (`due`).

- `Begin` takes the probe's baseline and suspends in `acquire`. A resume carries one of the
  ids in `tokens`, that is one some client has been sent: *engine id + fence*.
- `Claim`/`ResumeInProgress` test and set `resume_claims` in one step; `ReadState`,
  `Resume`, `NotResumable` read the checkpoint across an `await` and validate what was read.
- `RunLoads`, `RunCommits`, `RunFails` are the engine, taken from how `fake/graph.py` and
  the source use LangGraph: a run loads the checkpoint, a resume answers the open interrupt
  if its id matches, and the run ends with a commit that may leave an interrupt. The ids
  repeat (`AsksAgain`): LangGraph reuses one id for every interrupt of a node invocation.
  Raising the interrupt and committing is one step, and one interrupt is open at a time.
- `StreamEnds`, `FenceRead`, `FinishRun`, `StreamFails` are the end of `agui_events`: the fence is
  looked up after the run, then `on_done` appends the usage, then the client gets the ids.
  Native turns have no fence and announce no interrupt.
- `Disconnect` closes the stream at any of its awaits: a plain run is cancelled, a resume's
  run is left to finish (`detach_on_close`). `Finalize` is `_finish_detached`.
- `Release` is the lease's release: it may be asked for any number of times and takes effect,
  running the hook that discards the claim, when the held finalizer is done.

`took` (the occurrence an answer met), `ran` (the turn's own run id) and the `occ` part of
tokens are history variables: the code cannot see them, the properties need them.
`Faults` names the failures a run allows; `Overlaps = FALSE` restricts the clients to one
plain turn at a time, retries of resumes excepted.

### WsSession

One connection. `loop` is the receive loop and the `await` it is suspended at, `pc[t]` a
turn task, `run`/`made`/`queue` its pump, `beat` the heartbeat; `busy` and `cur` are `_busy`
and the turn of `_turn_scope`/`_turn_done`; `outq` is the send lock, which serves in order:
its head is the frame being sent. `inbox` holds frames not yet received. A cancelled turn
may still run on from an `await` that was already resolved (`Event`, `LastEvent` of a
cancelled turn) but queues no frame, since the lock's acquire raises first; `Cancelled` is
the delivery at an `await`. `EndSession` is the end of the task group, reached from a
disconnect, a close, a failing send or a server that stops. `wire` is what the client
gets; `polite` and `raised` are history variables. A chunk has at most one event, and a
frame that is too big is a malformed one; the close code is left out.

### Response, HttpTurn, A2aRpc, Requests

One request from its arrival until nothing of it is left. `at` is the `await` its task is
suspended at, `run` the graph (or the engine's call or stream), `queue` and `head` the pump
and its primed item, `frame` what the body generator has yielded, `wire` what the server has
taken. `span`/`outcome` are `TurnSpan`, `lease`/`hold`/`owed` the `Lease` with the finalizer of
a resume. A refused request never gets further than its error response.

Who gives what back is spread over the code: `native_events` and `agui_events` end the span and
close the pump in their `finally` (`Stop`, `Settle`), `release_after` releases, the response's
background task does all of it again (`Backstop`, `Drained`), the refusals do it for
themselves, and `_finish_detached` takes a resume's lease over (`Finalized`). Which of
them runs depends on where a client that leaves (`cut`) finds the task: in a send the
generator stays suspended and only the background task cleans up (`CutSend`); in an await of
the generator its `finally` runs (`CutAwait`); an exception in the stream skips the background
task (`TurnBreaks`, `StreamRaises`). A cancelled A2A stream is *dropped* until the event loop
closes it (`Collected`), which is after its lease was released (`routes/a2a.py:149`).

A chunk stands for the events it becomes, zero or more; framing (`json.dumps`) is taken not to
raise. `TurnBreaks` is a translation, or the engine's start and finish events, raising. A
timer may fire in the moment an item arrives; the item stays queued.

`RpcBreaks` is a payload the dispatch cannot read or a route table that raises, outside every
`try` (`routes/a2a.py:131-145`, `339`): the lease is not released. `Settles` exempts it by name.

`TracedRequest` is what all of this promises, with five variables that each move forward only:
`Requests!Promised` is its specification under a refinement mapping, for every kind of request.
Work that goes on keeps its lease, and work that is over, or was told to stop, need not. A
dropped A2A stream is neither: it maps to `dropped`, and that its lease may be freed before it
closes is an action of its own, `LeaseFreedEarly`, which only a client that left makes possible.

### UsageLog, UsageStore

`pc[t]` is the `await` the append of turn `t` is suspended at. `rows` is what the one connection
sees and `disk` what is committed: all appends share one transaction, so a commit settles what
others have inserted, and a close or crash between `INSERT` and commit loses it. `lock` and the
second look at `db` are `_conn`; `cutoff` is the local of the purge an append makes now and
then; `Abandon` is a statement that fails or is cancelled. `host` is the order of the lifespan's
shutdown: the runtimes, the store, the bounded flush of the spans.

The model shows three things that no property forbids, because the process ends: an append of a
detached resume that comes after `aclose` has forgotten `_db` opens a connection nobody closes
(`usage/store.py:226`), a `connect` that is cancelled may leave one (`usage/store.py:156`), and a
close that raises skips the flush (`app.py:158`).

`UsageLog` is the store seen from its callers: a record is added once or never, a purge
removes only what is older than the retention, a restart loses only what no commit settled.
`UsageStore!Logged` maps `records` to `rows` and `settled` to `disk`. The memory store is
`UsageLog` without `Settle`.

### Access, UsageReports

`view` is one client paging: its organisation by `ResolveOrg` for reads, its cursor (`after`),
what it was shown and, as history, what its turns are billed to, what was there all the time
(`steady`) and what was there at some time (`seen`). The log it reads changes between any two
pages. Times are half seconds: a cursor compares `isoformat()` strings, which leave out
microseconds that are zero, and the model compares such strings character by character. A
window without `until` moves with the clock. `Access!EngineKey` is checked for injectivity over
all short names of characters that could confuse it, and some of ten, eleven and a hundred
characters; its length prefix has up to three digits, so organisations have fewer than a
thousand characters (`_ORG_ID_RE` allows 128). The records of a page are the first `Limit` of the one sequence that
has them newest first. That `by_model` splits the totals without loss is a fact about sets of
records, which TLC evaluates as an assumption of `MCUsageReports`. Empty strings as organisations are left out.

### TenantFiles

A file is the time of its last write, which stands for its content, and whether it is
acceptable (readable, well formed, allowed, not empty). A lookup under the registry's lock
reads `tenant.yaml`'s time, lists the secrets, reads each one's time, and on a miss reads the
contents the same way, one step per file access; `Write` and `Remove` happen between any two.
`steady` is history: the files untouched since the lookup began. No two writes have the same
time (`st_mtime_ns`). `removed` is history, too: the files removed since the load of the entry.

A file that was written after the fingerprint, read by the load and then removed leaves no
trace in the fingerprint. If it is a secret, it stays in the config. If it is `tenant.yaml`, the
fingerprint is `None` as it was before (`tenancy/config_source.py:264-265`), later lookups find
`None == None` and hit (`deps.py:258`, `267`), and the tenant goes on with the removed config
and the secrets it was loaded with, where `docs/tenancy.md:76-77` says that a tenant without the
file uses the process config. `ConfigCurrent` allows both by name, through `removed`, and
nothing else: every file there is must be in the entry as it is now.

A secret that vanishes between the listing and its `stat` makes the fingerprint raise
`FileNotFoundError` (`tenancy/secrets.py:94`), also in `has_tenant_config`, whose docstring says
"never raises" (`deps.py:212`).

## Runs

| run | question | result |
|---|---|---|
| `registry_reload` | what does the cache guarantee under every interleaving of reload, eviction, release, cancellation and shutdown? | types, lease counts, nothing leaks, the cap, one runtime per tenant, no turn on a config older than its request, `Recurred` excepted; only idle runtimes are closed before shutdown, and once |
| `registry_live` | does everything that begins end? | every lookup returns, retired runtimes and all runtimes at shutdown are closed |
| `registry_stale_lease` | "in-flight turns are never cut off" | violated, see Findings |
| `registry_cancelled_close` | a retired runtime is closed | violated |
| `turns_overlap` | what survives any overlap of turns and any fault? | resumed runs exclude each other, no question is answered twice, no turn is billed twice |
| `turns_retry` | what holds when only retries overlap? | an answer meets its own question, usage is the turn's own, the claim is freed, a resume is billed |
| `turns_late_fence` | "a retried answer can never approve the next prompt" | violated when plain turns overlap |
| `ws_turns` | is a connection a sequence of answered turns, and does it clean up? | frames in turn order, one terminal frame, polite clients are served, one run, no lease left, no hang, every turn whose stream does not raise is answered |
| `requests` | does a request of any kind, left by its client at any moment or failing at any await, keep what every request promises? | the client reads the run in order with one true terminal event, the span tells the truth, a turn's lease outlives its run, everything settles (but `broken`), and it is a `TracedRequest`, whose lease outlives the work but not the closing of a dropped A2A stream |
| `usage_store` | what do concurrent appends, purges, failures, a shutdown and a crash do to the records? | one connection, acknowledged records are kept for their time, and the store is a `UsageLog` |
| `usage_reports` | what does a client see that pages while the log changes? | pages repeat and skip nothing and agree with the totals, only its own records, and thread keys are injective |
| `tenant_files` | what do edits between the reads of a lookup do? | an entry that looks current has what every file there is says now, and beyond that only what was removed since its load; no fallback to the operator's config |

**Bounds.** The registry's hazards need one task in the fast path while another reloads and
a third evicts: three tasks, two tenants, a cap of one so that every build evicts, three
runtimes so that a tenant can be rebuilt while another is in the cache, one config written
(`MaxVersion`) and one return to what was before (`MaxBack`), which is the shortest way to a
stamp that recurs. In `registry_live` files do not come back; it has
two tasks and three runtimes because its tableau multiplies the states.
`registry_cancelled_close` needs three tenants, as the cap there is two. Three
turns are what a claim needs to be taken, refused and taken again, and what a stale token
needs to meet a later prompt; `turns_late_fence` needs five, with a state constraint
(`LateFenceScope`: runs that all ask, no usage) that keeps the search small; it can only hide
violations. Two messages and one further frame suffice on a WebSocket: every race there is
between a turn and its successor or a cancel. One chunk and a queue of one make
the producer block. Turns and tasks are symmetric and permuted where no liveness is checked.
A request has up to three chunks, enough for one to be primed, one queued and one to come.
`usage_store` has three turns (one that inserts, one that commits, one that purges), four
ticks with a retention and a purge interval of one, and a crash in addition to the shutdown.
`usage_reports` has three turns, pages of one record and a clock that passes the retention and
the widest window; clients may pin `since` and `until` to one time. A tenant has its file and two
secrets, one of which may be listed or read while the other changes, and six edits.

**Deadlock** is checked in `tenant_files`, where a lookup is always possible. It is not in
the others, as those systems stop: the registry after shutdown, a thread when each turn has been
made, a session or a request when it is over, a usage store when its host is down.

**Fairness.** Weak fairness per task of what the event loop resumes: a resolved `await` is
always resumed. Threads that read files, builders, `aclose()` of a runtime, graph runs and
appends are assumed to return (they have no timeout in the code; a hung engine does hang a
lookup). The registry's `asyncio.Lock` is first come, first served, which the model states
as strong fairness of `Lock`. A client of
`ThreadTurns` reads its stream or leaves, and one of `WsSession` reads what it is sent or is
found to be gone. In `Requests` the task of a
request and its finalizer are run (weak), a cancellation that was delivered while the task could
not take it is delivered again (strong fairness of `CutSend` and `CutAwait`, as anyio's scopes
do), and the engine ends a run whose client waits, or that is a resume; a run whose client has
left is ended by its cancellation. Nothing is assumed of clients that send, leave or cancel, of heartbeats,
faults or shutdown.

## Proofs

All theorems hold for every value of the constants, under the ASSUMEs of the modules
(finite sets of tenants, tasks and turns, watched tenants among the tenants, bounds that
are natural numbers, null values outside the sets they stand outside of).

**RuntimeRegistryProofs.** The runs' invariants are not inductive: that the counter of an
entry is the number of its leases needs that a lookup returning a runtime was counted at
that step, and single flight needs that whoever builds holds the lock and has found the
cache empty. The invariant `IInv` therefore adds to the types of state and locals (`Typed`) the
*shape* of the cache (`Shape`): who holds the lock and in which phases (`LockOK`, `PathOK`), that
cached entries are open, not retired, and in the right slot (`CachedOK`), that a retired entry is
in `retiring` exactly while it is leased (`RetiringOK`), which phases belong to which
closer (`PhaseOK`) and what shutdown has on its list (`DownOK`); then `LeaseCount`, `SingleFlight`,
`CapHolds` and `Fresh` (`ConfigFresh`). Since a stamp may recur, `Fresh` cannot say that a
stamp that differs from the config is out of date for ever: it says that it is out of date or
has come back (`Honest`), that what a lookup reads was in place since it asked (`Reads`), and that
the entry it will return, if the stamp matches, was built from such a state or `Recurred`
(`Served`). Each part has a lemma per group of actions; `NothingLeaks`,
`TurnSeesConfig`, `CloseOnlyIdle`, `ClosedOnce` and `UnwatchedLeaseOpen` follow. The last,
which no run needs to check, is the positive side of the stale lease: without a watched config the fast path does not
suspend, and the leased runtime is open until shutdown.

`ClosingHasCloser`, which the run `registry_cancelled_close` shows to be false, holds for
`~CloseCancels` (`UncancelledClosesFinish`): then a task that closes a runtime is at that await
and closes no second one (`Closers`).

**ThreadTurnsProofs.** `IInv` is `TypeOK`, `ClaimOwned`, `Phases` (a resume owns the claim from
`_resume_input` until its finalizer is done; what a turn cannot have before its run starts),
`Spent` (an answered occurrence is no longer open, and no other run that may still commit has
met it) and `Billed`. From it: one owner, mutual exclusion of resumes, one answer per question,
one record per turn. These theorems are about all
of `Overlaps` and `Faults`. `AnswersTheQuestion` and `BillsItsRun` assume `~Overlaps`, as the run
`turns_retry` does: with overlapping messages the first is false (`turns_late_fence`), and so is
the second, since the probe is per thread. Neither says anything of what a turn has *read*, which is what can
go stale, so `SerialInv` adds that a plain turn is alone (`Alone`), that an id that was handed out
stands for the open question as long as its fence is the newest checkpoint (`Handed`), that a resume
keeps the claim to the end of its stream (`Kept`), that what it read of the checkpoint is still so
(`Fresh`), and that the baseline of a turn is the newest summary before its own (`Based`).

**RequestsProofs.** `IInv` follows one request: which phases a kind of request has (`Phases`), what
cannot be before (`Fresh`, `Begun`), that the primed item and the queue are exactly the items
produced and not yet taken, in order (`Pumped`), what the frame in flight is (`Framed`) and what the wire has
(`Wired`), where an outcome comes from (`Outcomes`) and who may have given the lease back (`Leases`).
`WireInOrder` needs the pump: that the next frame is the next chunk is true because the queue
holds consecutive numbers that begin after the last one sent. `Refinement` is `Promised`, for runs of
any length: each group of actions is a step of `TracedRequest` or a stutter under the mapping.

**WsSessionProofs.** The invariants speak of the wire; what decides is what is still at the send lock.
`Senders` says that a frame there belongs to one task waiting for it; `Stages`, that turns are
accepted in order, and that only the current one, with the flag set, may still produce events or
have a live run; `Order`, that the wire with the frames at the lock behind it is one conversation, in which
the current turn has no terminal frame while the flag is set or a cancel is under way; `Manners`,
that a polite message was sent after a terminal frame. They give `Conversation`,
`PoliteServed` and `OneRun` for conversations and runs of any length and a pump of any size.

**UsageStoreProofs.** A commit writes what the connection sees and a purge deletes by a cutoff that
is no longer now. So `Kept` says more than `AckedKept`: the record of an append that returned, or
whose commit did, is in `rows` *and* on the disk unless it is too old; an append at its commit has
its record in `rows`; and the cutoff of a purge lies in the past (`Cutoffs`). `Connection` ties the lock
to the one task that connects. `Refinement` is `Logged`: a failing or cancelled statement, a
close and a crash are a loss or a stutter of the log.

**UsageReportsProofs.** `CursorOrder` is a fact about data: for all times and turns the comparison of
`isoformat` strings is the order of the records, with and without microseconds. That a finite
set of records has a sorted sequence is proved by a smallest counterexample
(`SortedExists`), and that a page is its beginning is `PageIs`. The invariant of paging is that the
cursor is the last record shown (`Cursor`) and that what was there all the time has been shown or
is older than it (`Reached`); no step of the log can break it, as a page only ever cuts off at the
cursor. Hence `PagesExact` for any page size, window and number of turns. `ReadsOwnBills` rests on
`ReadsWhatItWrites`: where a read is allowed, it is for the organisation a turn would be billed
to. `EngineKeyInjective` is about all names of up to 999 characters and all thread ids: a
length of up to three digits is told by its decimal (`DecimalApart`), and where the first colon
stands tells its width (`NoNarrower`). `KeysApart` is an instance.

**TenantFilesProofs.** `ConfigCurrent` compares two readings of the same files. The invariant follows each
file through them: all times are in the past (`Past`), so a file that has the time the fingerprint
found was not written since, and the second reading has found it too, or still will (`Reading`); the entry made of the two inherits that (`Entry`). What a config has
beyond the files there are was removed since its load began (`Lingering`).

**Only model-checked**: everything under fairness (`LookupEnds`, `RetiredCloses`,
`ShutdownCloses`, `ClaimFreed`, `ResumeBilled`, `Settles`, `NoLeaseLeft`, `LoopReturns`,
`Answered`), which is out of the prover's reach; that `by_model` adds up, which is an
induction over a fold; and that the counterexamples of the three violated properties exist.

## Findings

- `deps.py:258`: the fast path awaits the fingerprint and then uses the entry it read before:
  the runtime may have been retired and closed (`registry_stale_lease`), or the tenant may have
  left the cache, and `move_to_end` raises `KeyError` (the action `PeekKeyError`).
- `deps.py:311`: a request cancelled inside `aclose()` leaves a runtime half closed that is in
  no list any more (`registry_cancelled_close`).
- `routes/threads.py:429`: the fence is the thread's newest checkpoint, not the one at which
  the interrupt was raised (`turns_late_fence`).

Other places where the models follow the code into something its docs do not say. They have no
run of their own; the properties exempt them by name, with the reason:

- `usage/summary.py:52`: the probe takes the newest run of the thread for its own, so
  overlapping turns report each other's (`BilledOwnRun` is checked for `Overlaps = FALSE`).
- `routes/threads.py:377`: the flag is set before the append, so an append that is cancelled is
  made by nobody (`ResumeBilled` is checked without the fault `cut`).
- `routes/ws.py:270`: what the event stream raises is taken for a client that is gone: no
  frame is sent and the connection stays busy, where `docs/websocket.md:59` promises an
  `error` frame (`Answered` exempts `raised`).
- `routes/a2a.py:145`: the lease that a malformed payload leaves behind (`Settles` exempts
  `broken`).
- `routes/a2a.py:149`: "The lease spans the stream", but a send that is cancelled leaves the
  stream suspended, and it is closed after the background task has released the lease
  (`Promised` has this as `LeaseFreedEarly`).
- `tenancy/config_source.py:265`: the fingerprint `None`, or that of the other secrets, comes
  back when a file is removed, so an entry loaded in between goes on with a config that is no
  longer there (`TurnSeesConfig` exempts `Recurred`, `ConfigCurrent` what was `removed`).
- `deps.py:212`: `has_tenant_config` may raise, see TenantFiles.

## Not modelled, and why

Token verification (`auth/bearer.py`, `auth/oidc.py`) is stateless and a library's, as are the
span exporter and LangGraph. Parsing of frames, the formats of events, the tables of allowed
keys, configuration, errors and documentation examples are data without state. Agent cards, the
tenant list, health, metrics and the budget page are reads that change nothing. The scripted
graph and its middleware are test data; the checkpoint and the repeated ids behind them are in
`ThreadTurns`. The env backend for secrets is constant for the life of the process.

## Plan

Every invariant, action property and refinement that a run checks is a theorem. What is left:

1. the positive sides of the findings that have none yet: which requests never meet the
   `KeyError` of the fast path, and what a lease that a malformed payload leaves behind can
   still keep open;
2. that each reading of `TenantFiles` can be taken for the one step it is in
   `RuntimeRegistry`, as a refinement of that step;
3. the safety part of `Settles` and `NoLeaseLeft`: in a state where nothing of a request or a
   session can move any more, the lease is back.
