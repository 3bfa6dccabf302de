------------------------------- MODULE A2aRpc -------------------------------
(***************************************************************************)
(* The A2A calls: a2a_rpc, tenant_a2a_rpc and _dispatch (routes/a2a.py),   *)
(* and the admin pages (routes/admin.py), which lease a runtime the same   *)
(* way.  The engine's handler is external: a call returns a result or an   *)
(* error or raises, a stream yields frames, ends or raises.                *)
(***************************************************************************)
EXTENDS Response

(* 401 and 403, or a tenant in the path that is not the caller's. *)
RpcRefused ==
  /\ at = "idle"
  /\ kind' = "rpc"
  /\ Refuse
  /\ UNCHANGED <<traced, leased, pump, body, cut, erred>>

(* The admin pages are disabled, or their caller lacks the scope, or the   *)
(* global one for an organisation that is not its own.                     *)
AdminRefused ==
  /\ at = "idle"
  /\ kind' = "admin"
  /\ Refuse
  /\ UNCHANGED <<traced, leased, pump, body, cut, erred>>

RpcStarts ==
  /\ at = "idle"
  /\ kind' \in {"rpc", "admin"}
  /\ at' = "acquire"
  /\ UNCHANGED <<status, traced, leased, pump, body, cut, erred>>

RpcLeased ==
  /\ at = "acquire" /\ kind \in {"rpc", "admin"}
  /\ lease' = "held"
  /\ at' = IF kind = "rpc" THEN "json" ELSE "report"
  /\ UNCHANGED <<kind, status, traced, hold, owed, pump, body, cut, erred>>

(* The registry refuses; on the tenant route, the runtime does not serve   *)
(* this path (404); or the body cannot be read.                            *)
RpcGivesUp ==
  /\ at \in {"acquire", "json"} /\ kind \in {"rpc", "admin"}
  /\ Release
  /\ Refuse
  /\ UNCHANGED <<kind, traced, pump, body, cut, erred>>

(* What raises outside every try: the route table of the runtime, or a      *)
(* payload that is a batch or names no method; without a handler the lease *)
(* is already released then.                                               *)
RpcBreaks ==
  /\ at = "json"
  /\ Release \/ UNCHANGED leased
  /\ at' = "over" /\ status' = "broken"
  /\ UNCHANGED <<kind, traced, pump, body, cut, erred>>

(* _run_span: the message-sending methods are runs. *)
OpenSpan == span' \in {"off", "open"}

(* The runtime has no handler: released, then answered with an error. *)
NoHandler ==
  /\ at = "json"
  /\ OpenSpan
  /\ Release
  /\ at' = "answer" /\ erred' = TRUE
  /\ UNCHANGED <<kind, status, outcome, pump, body, cut>>

Call ==
  /\ at = "json"
  /\ OpenSpan
  /\ run' = "live"
  /\ at' = "call"
  /\ UNCHANGED <<kind, status, outcome, leased, made, queue, head, body, cut, erred>>

CallReturns ==
  /\ at = "call"
  /\ run' = "completed"
  /\ erred' \in BOOLEAN
  /\ Release
  /\ at' = "answer"
  /\ UNCHANGED <<kind, status, traced, made, queue, head, body, cut>>

(* Mutant: the lease is released on the way to an answer only. *)
CallRaisesKeeps ==
  /\ at = "call"
  /\ run' = "failed"
  /\ FailSpan
  /\ Refuse
  /\ UNCHANGED <<kind, leased, made, queue, head, body, cut, erred>>
CallRaises ==
  /\ at = "call"
  /\ run' = "failed"
  /\ FailSpan
  /\ Release
  /\ Refuse
  /\ UNCHANGED <<kind, made, queue, head, body, cut, erred>>

(* _finish_rpc. *)
Finish == outcome' = Outcome(IF erred THEN "failed" ELSE "ok") /\ EndSpan

Answered ==
  /\ at = "answer"
  /\ Finish
  /\ at' = "over" /\ status' = "ok"
  /\ UNCHANGED <<kind, leased, pump, body, cut, erred>>

-----------------------------------------------------------------------------
(* A stream: _traced_stream around the engine's frames.                    *)

Stream ==
  /\ at = "json"
  /\ span' = "open"
  /\ run' = "live"
  /\ at' = "headers" /\ status' = "ok"
  /\ UNCHANGED <<kind, outcome, leased, made, queue, head, body, cut, erred>>

Frame ==
  /\ at = "wait" /\ kind = "rpc" /\ made < MaxChunks
  /\ made' = made + 1
  /\ at' = "send" /\ frame' = Item("chunk", made + 1)
  /\ UNCHANGED <<kind, status, traced, leased, run, queue, head, wire, cut, erred>>

ErrorFrame ==
  /\ at = "wait" /\ kind = "rpc" /\ made < MaxChunks
  /\ made' = made + 1
  /\ outcome' = Outcome("failed") /\ erred' = TRUE
  /\ at' = "send" /\ frame' = Item("error", made + 1)
  /\ UNCHANGED <<kind, status, span, leased, run, queue, head, wire, cut>>

StreamEnds ==
  /\ at = "wait" /\ kind = "rpc"
  /\ run' = "completed"
  /\ outcome' = Outcome("ok")
  /\ at' = "stop"
  /\ UNCHANGED <<kind, status, span, leased, made, queue, head, body, cut, erred>>

StreamRaises ==
  /\ at = "wait" /\ kind = "rpc"
  /\ run' = "failed"
  /\ outcome' = Outcome("failed")
  /\ at' = "stop" /\ frame' = Broken
  /\ UNCHANGED <<kind, status, span, leased, made, queue, head, wire, cut, erred>>

(* A generator nobody iterates any more is closed by the event loop; its   *)
(* cleanup runs when the background task has already released the lease.   *)
Collected ==
  /\ at = "over" /\ run = "dropped"
  /\ run' = "stopped"
  /\ UNCHANGED <<kind, at, status, traced, leased, made, queue, head, body, cut, erred>>

-----------------------------------------------------------------------------
(* An admin page: its engine reads return or raise, the lease is released. *)
PageRead ==
  /\ at = "report"
  /\ Release
  /\ at' = "over" /\ status' \in {"ok", "refused"}
  /\ UNCHANGED <<kind, traced, pump, body, cut, erred>>

Rpc ==
  \/ RpcLeased \/ RpcGivesUp \/ RpcBreaks \/ NoHandler
  \/ Call \/ CallReturns \/ CallRaises \/ Answered \/ Stream \/ Frame \/ ErrorFrame \/ StreamEnds \/ StreamRaises
  \/ PageRead
=============================================================================
