------------------------------ MODULE Response ------------------------------
(***************************************************************************)
(* One HTTP request that leases a runtime: its root span (tracing.py), its *)
(* lease (deps.py) and the streamed response with its backstop, which the  *)
(* chat turns (HttpTurn) and the A2A calls (A2aRpc) share.                 *)
(*                                                                         *)
(* at names the await the request's task is suspended at:                  *)
(*   acquire, open, prime     the registry, the graph factory, the pump    *)
(*   json, call, answer       the body, the engine, the release of an RPC  *)
(*   report                   the worker thread of an admin page           *)
(*   headers, send            the server's send                            *)
(*   next, wait, fence, record     inside the generator of the body        *)
(*   stop, settle             its finally blocks, before and in the wait   *)
(*                            for the producer                             *)
(*   after, drain             the background task, before and in its wait  *)
(***************************************************************************)
EXTENDS Integers, Sequences

CONSTANT MaxChunks     \* bound: chunks a run produces, frames an engine streams

ASSUME ChunksAssumption == MaxChunks \in Nat

VARIABLES
  kind,         \* native, agui, resume: a turn; rpc; admin
  at,
  status,       \* the response: ok, budget (402), refused, broken (500)
  span,         \* off, open, ended
  outcome,      \* TurnSpan._outcome: none, ok, failed
  lease,        \* none, held, free
  hold, owed,   \* a detached run's finalizer keeps the lease; a release is due
  run,          \* the graph, or the engine's call or stream
  made,         \* chunks it has produced
  queue, head,  \* ChunkPump
  frame,        \* the frame the body generator has yielded
  wire,         \* the frames the server has taken
  cut,          \* the client has left
  erred         \* history: a JSON-RPC error was answered

traced == <<span, outcome>>
leased == <<lease, hold, owed>>
pump == <<run, made, queue, head>>
body == <<frame, wire>>
vars == <<kind, at, status, traced, leased, pump, body, cut, erred>>

Turns == {"native", "agui", "resume"}
Kinds == Turns \cup {"rpc", "admin"}

(* Queue items and frames: what they are and which chunk they carry. *)
Item(what, n) == [is |-> what, n |-> n]
Nothing == Item("none", 0)
Broken == Item("raise", 0)

Init ==
  /\ kind = "none" /\ at = "idle" /\ status = "none"
  /\ span = "off" /\ outcome = "none"
  /\ lease = "none" /\ hold = FALSE /\ owed = FALSE
  /\ run = "none" /\ made = 0
  /\ queue = <<>> /\ head = Nothing
  /\ frame = Nothing /\ wire = <<>>
  /\ cut = FALSE /\ erred = FALSE

-----------------------------------------------------------------------------
(* TurnSpan: complete, fail, end; without a span they change nothing.      *)

OutcomeLast(o) == IF span = "open" THEN o ELSE outcome   \* mutant: last wins
Outcome(o) == IF span = "open" /\ outcome = "none" THEN o ELSE outcome

EndSpan == span' = IF span = "open" THEN "ended" ELSE span
(* fail_span.  Mutant: without the outcome. *)
FailEnds == EndSpan /\ UNCHANGED outcome
FailSpan == outcome' = Outcome("failed") /\ EndSpan

(* Lease.release: with a task it is held for, it is only noted.  Mutant:   *)
(* it is freed at once.                                                    *)
ReleaseNow ==
  /\ lease' = IF lease = "held" THEN "free" ELSE lease
  /\ UNCHANGED <<hold, owed>>
Release ==
  /\ lease' = IF lease = "held" /\ ~hold THEN "free" ELSE lease
  /\ owed' = (owed \/ (lease = "held" /\ hold))
  /\ UNCHANGED hold

(* The request is refused: an error response, nothing of it left. *)
Refuse == at' = "over" /\ status' = "refused"

-----------------------------------------------------------------------------
(* The streamed response.                                                  *)

FirstAwait == IF kind = "rpc" THEN "wait" ELSE "next"

SendHeaders ==
  /\ at = "headers"
  /\ IF kind \in {"agui", "resume"}
     THEN at' = "send" /\ frame' = Item("start", 0)
     ELSE at' = FirstAwait /\ UNCHANGED frame
  /\ UNCHANGED <<kind, status, traced, leased, pump, wire, cut, erred>>

(* A turn ends with done or error; an engine's stream goes on. *)
Terminal(f) == f.is = "done" \/ (f.is = "error" /\ kind # "rpc")

Sent ==
  /\ at = "send"
  /\ wire' = IF frame.is = "beat" THEN wire ELSE Append(wire, frame)
  /\ frame' = Nothing
  /\ at' = IF Terminal(frame) THEN "stop" ELSE FirstAwait
  /\ UNCHANGED <<kind, status, traced, leased, pump, cut, erred>>

(* The client leaves.  Only the response looks out for it: the server      *)
(* cancels the task at one of its awaits.                                  *)
ClientLeaves ==
  /\ at \notin {"idle", "over"} /\ ~cut
  /\ cut' = TRUE
  /\ UNCHANGED <<kind, at, status, traced, leased, pump, body, erred>>

(* In a send, the generator of the body stays where it is and only the     *)
(* background task cleans up.                                              *)
CutSend ==
  /\ cut /\ at \in {"headers", "send"}
  /\ at' = "after"
  /\ frame' = Nothing
  /\ run' = IF kind = "rpc" /\ run = "live" THEN "dropped" ELSE run
  /\ UNCHANGED <<kind, status, traced, leased, made, queue, head, wire, cut, erred>>

(* Inside the generator, its finally blocks run. *)
CutAwait ==
  /\ cut /\ at \in {"wait", "fence", "record"}
  /\ at' = "stop"
  /\ run' = IF kind = "rpc" THEN "stopped" ELSE run
  /\ UNCHANGED <<kind, status, traced, leased, made, queue, head, body, cut, erred>>

(* ChunkPump.aclose cancels the producer of a plain turn and waits for it; *)
(* a resume's run is left alone.                                           *)
StopRun == run' = IF run = "live" /\ kind \in {"native", "agui"} THEN "unwinding" ELSE run
RunDown == run \notin {"live", "unwinding"} \/ kind = "resume"

Stop ==
  /\ at = "stop"
  /\ EndSpan
  /\ StopRun
  /\ at' = "settle"
  /\ UNCHANGED <<kind, status, outcome, leased, made, queue, head, body, cut, erred>>

(* release_after.  The scope is cancelled when the client has left, so the *)
(* wait may be cut short; after an exception there is no background task.  *)
Settle ==
  /\ at = "settle" /\ (RunDown \/ cut)
  /\ Release
  /\ at' = IF frame = Broken THEN "over" ELSE "after"
  /\ UNCHANGED <<kind, status, traced, pump, body, cut, erred>>

(* Turn.release and a2a._release. *)

Backstop ==
  /\ at = "after"
  /\ EndSpan
  /\ StopRun
  /\ at' = "drain"
  /\ UNCHANGED <<kind, status, outcome, leased, made, queue, head, body, cut, erred>>

Drained ==
  /\ at = "drain" /\ RunDown
  /\ Release
  /\ at' = "over"
  /\ UNCHANGED <<kind, status, traced, pump, body, cut, erred>>

Streaming ==
  SendHeaders \/ Sent \/ Stop \/ Settle \/ Backstop \/ Drained
=============================================================================
