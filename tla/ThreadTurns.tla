----------------------------- MODULE ThreadTurns -----------------------------
(***************************************************************************)
(* The turns of one engine thread: open_turn, _resume_input,               *)
(* _finish_detached and Turn.aclose of routes/threads.py, the end of       *)
(* agui_events in streaming.py, and the engine's checkpoint behind them.   *)
(*                                                                         *)
(* Claims, checkpoint, interrupts and the usage baseline are all keyed by  *)
(* the engine thread, so one thread is enough.  A turn is plain (a new     *)
(* message) or a resume that carries one of the interrupt ids handed out   *)
(* before.  Its parts interleave: the request (pc), the graph run in the   *)
(* pump's task (run), the finalizer of a resume (fin) and the appends to   *)
(* the usage store (due).                                                  *)
(***************************************************************************)
EXTENDS Integers, FiniteSets

CONSTANTS
  Turns,      \* requests on the thread; each is made once
  Overlaps,   \* FALSE: while a turn is under way only retries of resumes arrive
  Faults      \* what may go wrong: "disconnect" of a client, failure of the
              \* "engine", of the fence "lookup", of the usage "store", and
              \* "cut": a cancelled append is lost (SqliteUsageStore)

ASSUME TurnAssumption == IsFiniteSet(Turns)
ASSUME SwitchAssumption ==
  Overlaps \in BOOLEAN /\ Faults \subseteq {"disconnect", "engine", "lookup", "store", "cut"}

VARIABLES
  ckpt,       \* the thread's checkpoint id: the number of commits
  pending,    \* its open interrupt: engine id and occurrence, 0 if none
  raised,     \* occurrences of an interrupt so far
  latest,     \* run id of the newest run summary of the thread, 0 if none
  claimed,    \* the thread's key is in state.resume_claims
  tokens,     \* interrupt ids the clients have been sent, with their fence
              \* and the occurrence they stand for
  pc,         \* new, opening, state, snapped, streaming, fence, append,
              \* closed (the lease's release is asked for), over (refused)
  token,      \* the id a resume carries; NoToken for a plain turn
  snap,       \* aget_state's answer to _resume_input
  run,        \* none, starting, running, completed, failed, cancelled
  took,       \* the occurrence the answer of a resumed run met, 0 if none
  mine,       \* the interrupt the run ended with
  ran,        \* the run id of the turn's own summary, 0 if it has none
  fenceId,    \* the checkpoint id read at the end of the run
  fin,        \* none, waiting, append, done: the finalizer of a resume
  hook,       \* the lease's release hook that discards the claim is set
  base,       \* the probe's run id from before the turn
  recorded,   \* record_usage has been reached with a usage
  due, rows   \* appends under way, and done: <<turn, writer, run id>>

engine == <<ckpt, pending, raised, latest>>
request == <<pc, token, snap, fenceId>>
running == <<run, took, mine, ran>>
lease == <<claimed, hook>>
usage == <<recorded, due, rows>>
vars == <<engine, tokens, request, running, lease, fin, base, usage>>

None == [id |-> 0, occ |-> 0]
NoToken == [id |-> 0, fence |-> 0, occ |-> 0]
Live == {"starting", "running"}
IsResume(t) == token[t].id # 0
Busy(t) ==
  \/ pc[t] \notin {"new", "closed", "over"}
  \/ run[t] \in Live
  \/ fin[t] \in {"waiting", "append"}

Init ==
  /\ ckpt = 0 /\ pending = None /\ raised = 0 /\ latest = 0
  /\ claimed = FALSE /\ tokens = {} /\ due = {} /\ rows = {}
  /\ pc = [t \in Turns |-> "new"]
  /\ token = [t \in Turns |-> NoToken]
  /\ snap = [t \in Turns |-> [pending |-> None, ckpt |-> 0]]
  /\ run = [t \in Turns |-> "none"]
  /\ took = [t \in Turns |-> 0]
  /\ mine = [t \in Turns |-> None]
  /\ ran = [t \in Turns |-> 0]
  /\ fenceId = [t \in Turns |-> 0]
  /\ fin = [t \in Turns |-> "none"]
  /\ hook = [t \in Turns |-> FALSE]
  /\ base = [t \in Turns |-> 0]
  /\ recorded = [t \in Turns |-> FALSE]

Goto(t, label) == pc' = [pc EXCEPT ![t] = label]

-----------------------------------------------------------------------------
(* open_turn.                                                              *)

(* The probe takes its baseline, then the lease and the graph are awaited. *)
Begin(t) ==
  /\ pc[t] = "new"
  /\ \/ /\ Overlaps \/ \A u \in Turns : ~Busy(u)
        /\ UNCHANGED token
     \/ /\ Overlaps \/ \A u \in Turns : Busy(u) => IsResume(u)
        /\ \E k \in tokens : token' = [token EXCEPT ![t] = k]
  /\ base' = [base EXCEPT ![t] = latest]
  /\ Goto(t, "opening")
  /\ UNCHANGED <<engine, tokens, snap, fenceId, running, lease, fin, usage>>

StartRun(t) ==
  /\ run' = [run EXCEPT ![t] = "starting"]
  /\ Goto(t, "streaming")

OpenPlain(t) ==
  /\ pc[t] = "opening" /\ ~IsResume(t)
  /\ StartRun(t)
  /\ UNCHANGED <<engine, tokens, token, snap, fenceId, took, mine, ran, lease, fin, base, usage>>

(* _resume_input: the claim is tested and taken in one step ...            *)
(* Mutant: no test. *)
ClaimableAnyway(t) == TRUE
Claimable(t) == ~claimed

Claim(t) ==
  /\ pc[t] = "opening" /\ IsResume(t) /\ Claimable(t)
  /\ claimed' = TRUE
  /\ hook' = [hook EXCEPT ![t] = TRUE]
  /\ Goto(t, "state")
  /\ UNCHANGED <<engine, tokens, token, snap, fenceId, running, fin, base, usage>>

(* The lease of a turn that starts no run is released at once, with the    *)
(* claim if the turn has one.                                              *)
RefusedKeeps(t) ==       \* mutant: the lease of a refused turn is not released
  /\ Goto(t, "over")
  /\ UNCHANGED <<claimed, hook>>
Refused(t) ==
  /\ claimed' = (claimed /\ ~hook[t])
  /\ hook' = [hook EXCEPT ![t] = FALSE]
  /\ Goto(t, "over")

ResumeInProgress(t) ==
  /\ pc[t] = "opening" /\ IsResume(t) /\ ~Claimable(t)
  /\ Refused(t)
  /\ UNCHANGED <<engine, tokens, token, snap, fenceId, running, fin, base, usage>>

(* ... then the checkpoint is read, across an await, ...                   *)
ReadState(t) ==
  /\ pc[t] = "state"
  /\ snap' = [snap EXCEPT ![t] = [pending |-> pending, ckpt |-> ckpt]]
  /\ Goto(t, "snapped")
  /\ UNCHANGED <<engine, tokens, token, fenceId, running, lease, fin, base, usage>>

(* ... and the id must name the open interrupt at this very checkpoint.    *)
(* Mutant: the fence is not compared.                                      *)
AcceptsUnfenced(t) == snap[t].pending.id # 0 /\ token[t].id = snap[t].pending.id
Accepts(t) ==
  /\ snap[t].pending.id # 0
  /\ token[t].id = snap[t].pending.id /\ token[t].fence = snap[t].ckpt

Resume(t) ==
  /\ pc[t] = "snapped" /\ Accepts(t)
  /\ StartRun(t)
  /\ fin' = [fin EXCEPT ![t] = "waiting"]
  /\ UNCHANGED <<engine, tokens, token, snap, fenceId, took, mine, ran, lease, base, usage>>

NotResumable(t) ==
  /\ pc[t] = "snapped" /\ ~Accepts(t)
  /\ Refused(t)
  /\ UNCHANGED <<engine, tokens, token, snap, fenceId, running, fin, base, usage>>

(* The lookup or the graph fails, or the request is cancelled meanwhile. *)
OpenFails(t) ==
  /\ Faults \cap {"engine", "disconnect"} # {}
  /\ pc[t] \in {"opening", "state", "snapped"}
  /\ Refused(t)
  /\ UNCHANGED <<engine, tokens, token, snap, fenceId, running, fin, base, usage>>

-----------------------------------------------------------------------------
(* The graph run in the pump's task.  A resumed run's answer meets the open *)
(* interrupt if that still has its id.  A run that ends commits a          *)
(* checkpoint, the interrupt it raised and, if it called the model, its    *)
(* summary.  The next question of the same node keeps the id.              *)

RunLoads(t) ==
  /\ run[t] = "starting"
  /\ run' = [run EXCEPT ![t] = "running"]
  /\ took' = [took EXCEPT ![t] =
                IF IsResume(t) /\ pending.id = token[t].id THEN pending.occ ELSE 0]
  /\ UNCHANGED <<engine, tokens, request, mine, ran, lease, fin, base, usage>>

Asks(t) ==
  /\ raised' = raised + 1
  /\ \E id \in {raised + 1} \cup (IF took[t] # 0 THEN {token[t].id} ELSE {}) :
       /\ pending' = [id |-> id, occ |-> raised + 1]
       /\ mine' = [mine EXCEPT ![t] = pending']
AsksAgain(t) ==   \* a resume without an answer to the open interrupt
  /\ IsResume(t) /\ took[t] = 0 /\ pending # None
  /\ mine' = [mine EXCEPT ![t] = pending]
  /\ UNCHANGED <<pending, raised>>
Ends(t) ==
  /\ pending' \in (IF took[t] # 0 THEN {None} ELSE {None, pending})
  /\ UNCHANGED <<raised, mine>>

RunCommits(t) ==
  /\ run[t] = "running"
  /\ run' = [run EXCEPT ![t] = "completed"]
  /\ ckpt' = ckpt + 1
  /\ \/ latest' = latest + 1 /\ ran' = [ran EXCEPT ![t] = latest + 1]
     \/ UNCHANGED <<latest, ran>>
  /\ Asks(t) \/ AsksAgain(t) \/ Ends(t)
  /\ UNCHANGED <<tokens, request, took, lease, fin, base, usage>>

RunFails(t) ==
  /\ "engine" \in Faults
  /\ run[t] \in {"starting", "running"}
  /\ run' = [run EXCEPT ![t] = "failed"]
  /\ UNCHANGED <<engine, tokens, request, took, mine, ran, lease, fin, base, usage>>

-----------------------------------------------------------------------------
(* The end of the stream, and usage.                                       *)

(* record_usage, up to its await.  Mutants: no flag; the baseline is not   *)
(* compared; the finalizer does not record.                                *)
RecordsAgain(t, writer) ==
  IF latest = base[t]
    THEN UNCHANGED <<recorded, due>>
    ELSE UNCHANGED recorded /\ due' = due \cup {<<t, writer, latest>>}
RecordsStale(t, writer) ==
  IF latest = 0 \/ recorded[t]
    THEN UNCHANGED <<recorded, due>>
    ELSE /\ recorded' = [recorded EXCEPT ![t] = TRUE]
         /\ due' = due \cup {<<t, writer, latest>>}
RecordsInStream(t, writer) ==
  IF latest = base[t] \/ recorded[t] \/ writer = "finalizer"
    THEN UNCHANGED <<recorded, due>>
    ELSE /\ recorded' = [recorded EXCEPT ![t] = TRUE]
         /\ due' = due \cup {<<t, writer, latest>>}
Records(t, writer) ==
  IF latest = base[t] \/ recorded[t]
    THEN UNCHANGED <<recorded, due>>
    ELSE /\ recorded' = [recorded EXCEPT ![t] = TRUE]
         /\ due' = due \cup {<<t, writer, latest>>}


StreamEnds(t) ==
  /\ pc[t] = "streaming" /\ run[t] = "completed"
  /\ \/ mine[t] # None /\ Goto(t, "fence") /\ UNCHANGED usage
     \/ mine[t] = None /\ Goto(t, "append") /\ Records(t, "stream") /\ UNCHANGED rows
  /\ UNCHANGED <<engine, tokens, token, snap, fenceId, running, lease, fin, base>>

(* The fence is the thread's checkpoint now; a failing lookup leaves none. *)
FenceRead(t) ==
  /\ pc[t] = "fence"
  /\ \E f \in {ckpt} \cup (IF "lookup" \in Faults THEN {0} ELSE {}) :
       fenceId' = [fenceId EXCEPT ![t] = f]
  /\ Goto(t, "append")
  /\ Records(t, "stream")
  /\ UNCHANGED <<engine, tokens, token, snap, running, lease, fin, base, rows>>

(* The body is over; from here on the lease may be released: by            *)
(* release_after, by the background task and by Turn.aclose.               *)
Closes(t) == Goto(t, "closed")

(* The token an interrupted run hands to its client, with the last event:  *)
(* an id without a fence cannot be resumed and is left out.  Mutant: it is *)
(* handed out all the same.                                                *)
FencedOrNot(t) == mine[t] # None
Fenced(t) == mine[t] # None /\ fenceId[t] # 0

FinishRun(t) ==
  /\ pc[t] = "append" /\ \A d \in due : <<d[1], d[2]>> # <<t, "stream">>
  /\ tokens' = IF Fenced(t)
                 THEN tokens \cup {[id |-> mine[t].id, fence |-> fenceId[t], occ |-> mine[t].occ]}
                 ELSE tokens
  /\ Closes(t)
  /\ UNCHANGED <<engine, token, snap, fenceId, running, lease, fin, base, usage>>

StreamFails(t) ==
  /\ pc[t] = "streaming" /\ run[t] = "failed"
  /\ Closes(t)
  /\ UNCHANGED <<engine, tokens, token, snap, fenceId, running, lease, fin, base, usage>>

(* What the pump does to a run the client leaves: a plain one is           *)
(* cancelled, a resumed one detached.                                      *)
Cut(t) == run[t] \in Live /\ ~IsResume(t)

Disconnect(t) ==
  /\ "disconnect" \in Faults
  /\ pc[t] \in {"streaming", "fence", "append"}
  /\ run' = IF Cut(t) THEN [run EXCEPT ![t] = "cancelled"] ELSE run
  /\ \/ UNCHANGED due
     \/ "cut" \in Faults /\ due' = {d \in due : <<d[1], d[2]>> # <<t, "stream">>}
  /\ Closes(t)
  /\ UNCHANGED <<engine, tokens, token, snap, fenceId, took, mine, ran, lease, fin, base,
                 recorded, rows>>

(* _finish_detached, woken by the end of the run. *)
Finalize(t) ==
  /\ fin[t] = "waiting" /\ run[t] \notin Live
  /\ \/ run[t] = "completed" /\ Records(t, "finalizer")
     \/ run[t] # "completed" /\ UNCHANGED <<recorded, due>>
  /\ fin' = [fin EXCEPT ![t] = "append"]
  /\ UNCHANGED <<engine, tokens, request, running, lease, base, rows>>

Finalized(t) ==
  /\ fin[t] = "append" /\ \A d \in due : <<d[1], d[2]>> # <<t, "finalizer">>
  /\ fin' = [fin EXCEPT ![t] = "done"]
  /\ UNCHANGED <<engine, tokens, request, running, lease, base, usage>>

Append(d) ==
  /\ d \in due
  /\ due' = due \ {d}
  /\ \/ rows' = rows \cup {d}
     \/ "store" \in Faults /\ UNCHANGED rows
  /\ UNCHANGED <<engine, tokens, request, running, lease, fin, base, recorded>>

(* Lease.release, as often as it is asked for: it waits for the finalizer  *)
(* it holds until, and runs its hooks once.  Mutants: it does not wait;    *)
(* the hooks run every time.                                               *)
ReleasableNow(t) == TRUE
Releasable(t) == fin[t] \in {"none", "done"}
DiscardsAgain(t) == IsResume(t)
Discards(t) == hook[t]

Release(t) ==
  /\ pc[t] = "closed" /\ Releasable(t)
  /\ claimed' = (claimed /\ ~Discards(t))
  /\ hook' = [hook EXCEPT ![t] = FALSE]
  /\ UNCHANGED <<engine, tokens, request, running, fin, base, usage>>

-----------------------------------------------------------------------------
Opens(t) ==
  \/ OpenPlain(t) \/ Claim(t) \/ ResumeInProgress(t)
  \/ ReadState(t) \/ Resume(t) \/ NotResumable(t)
Runs(t) == RunLoads(t) \/ RunCommits(t) \/ RunFails(t)
Streams(t) ==
  \/ StreamEnds(t) \/ FenceRead(t) \/ FinishRun(t)
  \/ StreamFails(t) \/ Disconnect(t)
Finishes(t) == Finalize(t) \/ Finalized(t)
Appends(t) == \E d \in due : d[1] = t /\ Append(d)

Turn(t) ==
  \/ Begin(t) \/ Opens(t) \/ OpenFails(t) \/ Runs(t) \/ Streams(t)
  \/ Finishes(t) \/ Appends(t) \/ Release(t)

Next == \E t \in Turns : Turn(t)

Spec == Init /\ [][Next]_vars

(* The event loop resumes what is ready, the engine ends its runs, and a   *)
(* client reads its stream or leaves.  No request need be made, no open    *)
(* need fail and no background task need run.                              *)
Fairness ==
  \A t \in Turns :
    /\ WF_vars(Opens(t)) /\ WF_vars(Runs(t)) /\ WF_vars(Streams(t))
    /\ WF_vars(Finishes(t)) /\ WF_vars(Appends(t)) /\ WF_vars(Release(t))

FairSpec == Spec /\ Fairness

-----------------------------------------------------------------------------
Interrupt == [id : Nat, occ : Nat]
Token == [id : Nat, fence : Nat, occ : Nat]
Record == Turns \X {"stream", "finalizer"} \X Nat

(* The state keeps its type; an id to resume with carries a checkpoint. *)
TypeOK ==
  /\ ckpt \in Nat /\ raised \in Nat /\ latest \in Nat
  /\ pending \in Interrupt /\ claimed \in BOOLEAN /\ tokens \subseteq {k \in Token : k.fence # 0}
  /\ pc \in [Turns -> {"new", "opening", "state", "snapped", "streaming", "fence",
                       "append", "closed", "over"}]
  /\ token \in [Turns -> Token]
  /\ snap \in [Turns -> [pending : Interrupt, ckpt : Nat]]
  /\ run \in [Turns -> Live \cup {"none", "completed", "failed", "cancelled"}]
  /\ took \in [Turns -> Nat] /\ mine \in [Turns -> Interrupt] /\ ran \in [Turns -> Nat]
  /\ fenceId \in [Turns -> Nat] /\ base \in [Turns -> Nat]
  /\ fin \in [Turns -> {"none", "waiting", "append", "done"}]
  /\ hook \in [Turns -> BOOLEAN]
  /\ recorded \in [Turns -> BOOLEAN]
  /\ due \subseteq Record /\ rows \subseteq Record

(* The thread is claimed exactly while one turn is going to free it:       *)
(* refusals, failures and repeated releases neither free another turn's    *)
(* claim nor leave one behind (_resume_input, Lease.release).              *)
ClaimOwned ==
  /\ claimed <=> \E t \in Turns : hook[t]
  /\ \A t, u \in Turns : hook[t] /\ hook[u] => t = u

(* At most one resumed run of a thread is under way, also when its client  *)
(* has left and the run is finished in the background (hold_until).        *)
ResumeExclusive ==
  \A t, u \in Turns :
    IsResume(t) /\ IsResume(u) /\ run[t] \in Live /\ run[u] \in Live => t = u

(* No question is answered twice: of two resumed runs that met the same    *)
(* occurrence of an interrupt, one did not commit.                         *)
AnsweredOnce ==
  \A t, u \in Turns :
    /\ t # u /\ took[t] # 0 /\ took[t] = took[u]
    => run[t] # "completed" \/ run[u] # "completed"

(* An answer only ever meets the question it was given to: not a later one *)
(* of the same node, whose id is the same.                                 *)
AnswerMeetsQuestion ==
  \A t \in Turns : took[t] # 0 => took[t] = token[t].occ

(* A turn is billed once, although its stream and its finalizer both try. *)
BilledOnce ==
  \A d, e \in due \cup rows : d[1] = e[1] => d = e

(* The run a turn is billed for is its own: not the previous one of the    *)
(* thread, nor that of another turn (TurnUsageProbe).                      *)
BilledOwnRun == \A d \in due \cup rows : d[3] = ran[d[1]]

(* A claimed thread becomes free again. *)
ClaimFreed == claimed ~> ~claimed

(* A resumed run that used the model is billed, whoever saw it end. *)
ResumeBilled ==
  \A t \in Turns :
    IsResume(t) /\ run[t] = "completed" /\ ran[t] # 0 ~> \E d \in rows : d[1] = t
=============================================================================
