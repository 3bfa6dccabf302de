------------------------------ MODULE HttpTurn ------------------------------
(***************************************************************************)
(* A chat turn over HTTP: run_turn and open_turn (threads.py), the chunk   *)
(* pump with its priming and heartbeats, and the event streams             *)
(* native_events and agui_events (streaming.py).  A resume is an AG-UI     *)
(* turn whose run outlives the response.                                   *)
(***************************************************************************)
EXTENDS Response

(* 401, before there is a span. *)
TurnUnauthorized(k) ==
  /\ at = "idle"
  /\ kind' = k
  /\ Refuse
  /\ UNCHANGED <<traced, leased, pump, body, cut, erred>>

(* The span is opened; the tenant, the thread id or the input is refused   *)
(* before anything is awaited.                                             *)
TurnRefused(k) ==
  /\ at = "idle"
  /\ kind' = k
  /\ span' = "ended" /\ outcome' = "failed"
  /\ Refuse
  /\ UNCHANGED <<leased, pump, body, cut, erred>>

TurnStarts(k) ==
  /\ at = "idle"
  /\ kind' = k
  /\ span' = "open"
  /\ at' = "acquire"
  /\ UNCHANGED <<status, outcome, leased, pump, body, cut, erred>>

TurnLeased ==
  /\ at = "acquire" /\ kind \in Turns
  /\ lease' = "held"
  /\ at' = "open"
  /\ UNCHANGED <<kind, status, traced, hold, owed, pump, body, cut, erred>>

(* The registry, the protocol gate, the graph factory or the resume check  *)
(* raises: the lease is released, the span fails.                          *)
TurnFails ==
  /\ at \in {"acquire", "open"} /\ kind \in Turns
  /\ FailSpan
  /\ Release
  /\ Refuse
  /\ UNCHANGED <<kind, pump, body, cut, erred>>

TurnOpened ==
  /\ at = "open"
  /\ run' = "live"
  /\ hold' = (kind = "resume")
  /\ at' = "prime"
  /\ UNCHANGED <<kind, status, traced, lease, owed, made, queue, head, body, cut, erred>>

-----------------------------------------------------------------------------
(* The run: the producer task and the finalizer of a detached resume.      *)

Put(item) == queue' = Append(queue, item)

Produce ==
  /\ kind \in Turns /\ run = "live" /\ made < MaxChunks
  /\ made' = made + 1
  /\ Put(Item("chunk", made + 1))
  /\ UNCHANGED <<kind, at, status, traced, leased, run, head, body, cut, erred>>

RunFails(why) ==
  /\ kind \in Turns /\ run = "live"
  /\ run' = "failed"
  /\ Put(Item(why, 0))
  /\ UNCHANGED <<kind, at, status, traced, leased, made, head, body, cut, erred>>

RunCompletes ==
  /\ kind \in Turns /\ run = "live"
  /\ run' = "completed"
  /\ Put(Item("end", 0))
  /\ UNCHANGED <<kind, at, status, traced, leased, made, head, body, cut, erred>>

(* A cancelled graph finishes its own cleanup. *)
Unwound ==
  /\ run = "unwinding"
  /\ run' = "stopped"
  /\ UNCHANGED <<kind, at, status, traced, leased, made, queue, head, body, cut, erred>>

(* _finish_detached is done after the run; a release that was due happens. *)
Finalized ==
  /\ hold /\ run \in {"completed", "failed"}
  /\ hold' = FALSE
  /\ lease' = IF owed THEN "free" ELSE lease
  /\ UNCHANGED <<kind, at, status, traced, owed, pump, body, cut, erred>>

-----------------------------------------------------------------------------
(* ChunkPump.prime: the first item is looked at and kept for get.          *)

Refusal(item) == item.is = "budget"

Keep(item) == queue' = Tail(queue) /\ head' = item

Primed ==
  /\ at = "prime" /\ queue # <<>>
  /\ Keep(Head(queue))
  /\ ~Refusal(Head(queue))
  /\ at' = "headers" /\ status' = "ok"
  /\ UNCHANGED <<kind, traced, leased, run, made, body, cut, erred>>

(* A budget refusal before the first token: the span fails and ends, then  *)
(* Turn.aclose, which is Stop and Settle.                                  *)
PrimedRefusal ==
  /\ at = "prime" /\ queue # <<>>
  /\ Keep(Head(queue))
  /\ Refusal(Head(queue))
  /\ FailSpan
  /\ at' = "stop" /\ status' = "budget" /\ frame' = Broken
  /\ UNCHANGED <<kind, leased, run, made, wire, cut, erred>>

(* The timer fires; an item that arrives with it stays in the queue. *)
PrimeTimesOut ==
  /\ at = "prime"
  /\ at' = "headers" /\ status' = "ok"
  /\ UNCHANGED <<kind, traced, leased, pump, body, cut, erred>>

-----------------------------------------------------------------------------
(* The event stream: ChunkPump.get and what each item leads to.            *)

(* The item get returns, and what it leaves.  Mutant: the primed item is   *)
(* not cleared.                                                            *)
Ready == head # Nothing \/ queue # <<>>
Next1 == IF head # Nothing THEN head ELSE Head(queue)
ConsumeTwice == IF head # Nothing THEN UNCHANGED <<head, queue>>
                ELSE queue' = Tail(queue) /\ UNCHANGED head
Consume == IF head # Nothing THEN head' = Nothing /\ UNCHANGED queue
           ELSE queue' = Tail(queue) /\ UNCHANGED head

Get == at \in {"next", "wait"} /\ kind \in Turns /\ Ready /\ Consume

Empty ==
  /\ at = "next" /\ ~Ready
  /\ at' = "wait"
  /\ UNCHANGED <<kind, status, traced, leased, pump, body, cut, erred>>

(* The idle timer: also in the moment an item arrives, which stays queued. *)
Heartbeat ==
  /\ at = "wait" /\ kind \in Turns
  /\ at' = "send" /\ frame' = Item("beat", 0)
  /\ UNCHANGED <<kind, status, traced, leased, pump, wire, cut, erred>>

TakeChunk ==
  /\ Get /\ Next1.is = "chunk"
  /\ at' = "send" /\ frame' = Next1
  /\ UNCHANGED <<kind, status, traced, leased, run, made, wire, cut, erred>>

(* The translation of a chunk raises, or the engine's events for the start *)
(* and the end of an AG-UI run; after the end the outcome stays ok.        *)
TurnBreaks ==
  /\ \/ Get /\ Next1.is = "chunk"
     \/ at \in {"headers", "record"} /\ kind # "native" /\ kind \in Turns
        /\ UNCHANGED <<queue, head>>
  /\ outcome' = Outcome("failed")
  /\ at' = "stop" /\ frame' = Broken
  /\ UNCHANGED <<kind, status, span, leased, run, made, wire, cut, erred>>

TakeError ==
  /\ Get /\ Next1.is \in {"error", "budget"}
  /\ outcome' = Outcome("failed")
  /\ at' = "send" /\ frame' = Item("error", 0)
  /\ UNCHANGED <<kind, status, span, leased, run, made, wire, cut, erred>>

(* The end: AG-UI may still look up the fence, then the span completes and *)
(* the usage is recorded; a failure of either is swallowed.                *)
TakeEnd ==
  /\ Get /\ Next1.is = "end"
  /\ \/ kind # "native" /\ at' = "fence" /\ UNCHANGED outcome
     \/ at' = "record" /\ outcome' = Outcome("ok")
  /\ UNCHANGED <<kind, status, span, leased, run, made, body, cut, erred>>

Fenced ==
  /\ at = "fence"
  /\ at' = "record" /\ outcome' = Outcome("ok")
  /\ UNCHANGED <<kind, status, span, leased, pump, body, cut, erred>>

Recorded ==
  /\ at = "record"
  /\ at' = "send" /\ frame' = Item("done", 0)
  /\ UNCHANGED <<kind, status, traced, leased, pump, wire, cut, erred>>

Graph == Produce \/ RunCompletes \/ \E why \in {"error", "budget"} : RunFails(why)

Turn ==
  \/ TurnLeased \/ TurnFails \/ TurnOpened
  \/ Primed \/ PrimedRefusal \/ PrimeTimesOut
  \/ Empty \/ Heartbeat \/ TakeChunk \/ TurnBreaks \/ TakeError \/ TakeEnd
  \/ Fenced \/ Recorded
=============================================================================
