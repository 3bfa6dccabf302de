------------------------------ MODULE Requests ------------------------------
(***************************************************************************)
(* A request of any kind that leases a runtime, from its arrival until     *)
(* nothing of it is left, and what must hold of it.                        *)
(***************************************************************************)
EXTENDS HttpTurn, A2aRpc

Next ==
  \/ \E k \in Turns : TurnUnauthorized(k) \/ TurnRefused(k) \/ TurnStarts(k)
  \/ RpcRefused \/ AdminRefused \/ RpcStarts
  \/ Turn \/ Rpc \/ Streaming
  \/ Graph \/ Unwound \/ Finalized \/ Collected
  \/ ClientLeaves \/ CutSend \/ CutAwait

Spec == Init /\ [][Next]_vars

(* The task of the request and the finalizer are run by the event loop; a  *)
(* cancellation is delivered again until it is taken; the engine finishes  *)
(* a run whose client waits for it, and every resume.                      *)
Finishing == Graph /\ (~cut \/ kind = "resume")

Fairness ==
  /\ WF_vars(Turn \/ Rpc \/ Streaming)
  /\ SF_vars(CutSend \/ CutAwait)
  /\ WF_vars(Finishing)
  /\ WF_vars(Unwound) /\ WF_vars(Finalized) /\ WF_vars(Collected)

FairSpec == Spec /\ Fairness

-----------------------------------------------------------------------------
(* WireInOrder: what the client of a turn has read is a prefix of the      *)
(* run's chunks, each once and in the order they were produced, and then   *)
(* at most one terminal event, which tells whether the run completed; a    *)
(* turn refused for its budget shows nothing and has produced nothing.     *)
(* It crosses the pump, its primed item and the two timers that race the   *)
(* arrival of an item (ChunkPump.prime and get).                           *)
Lead == IF kind = "native" THEN 0 ELSE 1      \* frames before the first chunk

TellsEnd(f) ==
  \/ f.is = "done" /\ run = "completed"
  \/ f.is = "error" /\ run = "failed"

InOrder(i) ==
  \/ i <= Lead /\ wire[i].is = "start"
  \/ i > Lead /\ i - Lead <= made /\ wire[i] = Item("chunk", i - Lead)
  \/ i = Len(wire) /\ i - Lead = made + 1 /\ TellsEnd(wire[i])

WireInOrder ==
  kind \in Turns =>
    /\ \A i \in 1 .. Len(wire) : InOrder(i)
    /\ status = "budget" => wire = <<>> /\ made = 0
    /\ at = "over" /\ status = "ok" /\ ~cut =>
         frame = Broken \/ (wire # <<>> /\ Terminal(wire[Len(wire)]))

(* SpanTruth: an ended span says what became of the request: nothing only  *)
(* when the client left, ok only of a run that completed without an error, *)
(* failed only when something failed (TurnSpan, "disconnect / cancel: not  *)
(* an error").                                                             *)
SpanTruth ==
  span = "ended" =>
    /\ outcome = "none" => cut
    /\ outcome = "ok" => run = "completed" /\ ~erred
    /\ outcome = "failed" => \/ erred \/ run = "failed"
                             \/ status \in {"budget", "refused"}
                             \/ frame = Broken

(* LeaseSpansRun: the runtime of a turn is given back only when the graph  *)
(* has ended or has been told to stop, and that of a resume only when it   *)
(* has ended: Turn.release, the body's release_after, the refusals and the *)
(* finalizer all release the same lease, in any order.                     *)
LeaseSpansRun ==
  lease = "free" /\ kind \in Turns =>
    /\ run # "live"
    /\ kind = "resume" => run \in {"none", "completed", "failed"}

(* Settles: a request that arrived is answered or dropped, and then its    *)
(* span has ended and its lease is given back, whoever leaves when; the    *)
(* one exception is the payload that breaks the dispatch of an RPC.        *)
Settles ==
  at # "idle" ~>
    at = "over" /\ span # "open" /\ (lease # "held" \/ status = "broken")

-----------------------------------------------------------------------------
Promise == INSTANCE TracedRequest WITH
  span <- CASE span = "off" -> "none"
            [] span = "open" -> "open"
            [] span = "ended" -> IF outcome = "none" THEN "cancelled" ELSE outcome,
  work <- CASE run = "none" -> "none"
            [] run = "live" -> "going"
            [] run = "dropped" -> "dropped"
            [] OTHER -> "over",
  answer <- CASE status = "none" -> "none"
              [] status = "ok" -> "given"
              [] OTHER -> "refused",
  left <- cut

(* Promised: every kind of request, in all its interleavings, is what      *)
(* TracedRequest promises: its span, its lease and its answer move only as *)
(* far as its work allows, with the lease of an A2A stream that a cut send *)
(* left suspended given back before the stream is closed (the exception    *)
(* TracedRequest!LeaseFreedEarly; _dispatch hands over the lease with "The *)
(* lease spans the stream").                                               *)
Promised == Promise!Spec
=============================================================================
