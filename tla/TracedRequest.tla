---------------------------- MODULE TracedRequest ----------------------------
(***************************************************************************)
(* What the host promises of one agent request, whatever its protocol: a   *)
(* root span with one truthful outcome, a runtime leased for as long as    *)
(* work is done on it, and one answer.  The one exception is a stream      *)
(* dropped by a client that left: it is still to be closed, and its lease  *)
(* does not wait for that.  The parts move on their own, each only         *)
(* forward, several of them in one step.                                   *)
(***************************************************************************)
VARIABLES
  span,      \* none, open, then ok, failed or cancelled
  lease,     \* none, held, free
  work,      \* the engine's work: none, going, dropped (suspended, nobody
             \* reads it any more), over (done or told to stop)
  answer,    \* none, given, refused
  left       \* the client has gone

vars == <<span, lease, work, answer, left>>

Init ==
  /\ span = "none" /\ lease = "none" /\ work = "none"
  /\ answer = "none" /\ left = FALSE

(* A span says ok when the work is done, and cancelled only of a client    *)
(* that left.                                                              *)
SpanOpens == span = "none" /\ span' \in {"open", "failed"} /\ answer = "none"
SpanEnds ==
  /\ span = "open"
  /\ \/ span' = "ok" /\ work' = "over" /\ answer' = "given"
     \/ span' = "failed"
     \/ span' = "cancelled" /\ left

(* The lease is there before the work and stays until it is over.          *)
(* LeaseFreedEarly is the exception: what a dropped stream does when it is *)
(* closed, it does on a runtime that may be given back by then.            *)
LeaseTaken == lease = "none" /\ lease' = "held" /\ answer = "none"
LeaseFreed == lease = "held" /\ lease' = "free" /\ work' \in {"none", "over"}
LeaseFreedEarly == lease = "held" /\ lease' = "free" /\ work' = "dropped"

WorkStarts == work = "none" /\ work' = "going" /\ lease = "held" /\ answer = "none"
WorkEnds == work = "going" /\ work' = "over"
WorkDropped == work = "going" /\ work' = "dropped" /\ left
DroppedCloses == work = "dropped" /\ work' = "over"

(* A refusal leaves no span open and none that says ok. *)
Answers ==
  /\ answer = "none"
  /\ \/ answer' = "given" /\ lease # "none"
     \/ answer' = "refused" /\ span' \in {"none", "failed"}

Next ==
  /\ SpanOpens \/ SpanEnds \/ UNCHANGED span
  /\ LeaseTaken \/ LeaseFreed \/ LeaseFreedEarly \/ UNCHANGED lease
  /\ WorkStarts \/ WorkEnds \/ WorkDropped \/ DroppedCloses \/ UNCHANGED work
  /\ Answers \/ UNCHANGED answer
  /\ left' \in {left, TRUE}

Spec == Init /\ [][Next]_vars
=============================================================================
