------------------------------ MODULE WsSession ------------------------------
(***************************************************************************)
(* One WebSocket connection: _Session of routes/ws.py with the pump that   *)
(* feeds its turns (ChunkPump and native_events of streaming.py).          *)
(*                                                                         *)
(* Four kinds of tasks meet: the receive loop, the heartbeat, the turn     *)
(* tasks and the producers of their pumps.  They share the busy flag, the  *)
(* current turn's scope and the send lock, which serves in order.          *)
(***************************************************************************)
EXTENDS Integers, Sequences, SequencesExt

CONSTANTS
  MaxTurns,    \* messages the client sends
  MaxOther,    \* other frames it sends: cancel, ping, malformed ones
  MaxChunks,   \* chunks a run yields
  MaxSize      \* the pump's bound

ASSUME WsAssumption ==
  /\ MaxTurns \in Nat \ {0} /\ MaxOther \in Nat /\ MaxChunks \in Nat
  /\ MaxSize \in Nat \ {0}

Turns == 1 .. MaxTurns

VARIABLES
  inbox,      \* frames on their way to the loop
  spoken,     \* messages sent so far
  others,     \* other frames sent so far
  polite,     \* messages sent after the answer to the one before
  gone,       \* the socket is closed, by the client or by the host
  loop,       \* recv, pong, cancelling, answering, closing, over
  busy,       \* _busy
  cur,        \* the turn of _turn_scope and _turn_done, 0 if none
  beat,       \* the heartbeat: idle, sending, off
  outq,       \* the send lock: its holder and the senders waiting behind it
  wire,       \* frames sent: <<turn, "event" | "end">>
  pc,         \* a turn: idle, opening, building, failing, streaming, sending,
              \* ending, closing, releasing, over; refused if not accepted
  cancelled,  \* its scope is cancelled
  leased,     \* it holds a runtime
  run,        \* its graph run: none, live, over
  made,       \* chunks the run has yielded
  queue,      \* the pump's queue: "chunk", "error", "end"
  raised      \* its event stream raised an exception

client == <<inbox, spoken, others, polite>>
session == <<loop, busy, cur, beat>>
turn == <<pc, cancelled, leased, raised>>
pump == <<run, made, queue>>
vars == <<client, gone, session, outq, wire, turn, pump>>

Init ==
  /\ inbox = <<>> /\ spoken = 0 /\ others = 0 /\ polite = {} /\ gone = FALSE
  /\ loop = "recv" /\ busy = FALSE /\ cur = 0 /\ beat = "idle"
  /\ outq = <<>> /\ wire = <<>>
  /\ pc = [t \in Turns |-> "idle"]
  /\ cancelled = [t \in Turns |-> FALSE]
  /\ leased = [t \in Turns |-> FALSE]
  /\ raised = [t \in Turns |-> FALSE]
  /\ run = [t \in Turns |-> "none"]
  /\ made = [t \in Turns |-> 0]
  /\ queue = [t \in Turns |-> <<>>]

Goto(t, label) == pc' = [pc EXCEPT ![t] = label]
Frame(who, t, kind) == [who |-> who, turn |-> t, kind |-> kind]
Ended(t) == \E i \in DOMAIN wire : wire[i] = <<t, "end">>

(* A task that is cancelled while it waits for the lock, or holds it,      *)
(* takes back the one frame it has there.                                  *)
From(f, who, t) == f.who = who /\ (who = "turn" => f.turn = t)
Withdrawn(q, who, t) ==
  IF \E i \in DOMAIN q : From(q[i], who, t)
  THEN RemoveAt(q, CHOOSE i \in DOMAIN q : From(q[i], who, t))
  ELSE q

-----------------------------------------------------------------------------
(* The client. *)

Message ==
  /\ ~gone /\ spoken < MaxTurns
  /\ spoken' = spoken + 1
  /\ polite' = IF spoken = 0 \/ Ended(spoken) THEN polite \cup {spoken + 1} ELSE polite
  /\ inbox' = Append(inbox, <<"message", spoken + 1>>)
  /\ UNCHANGED <<others, gone, session, outq, wire, turn, pump>>

OtherFrame ==
  /\ ~gone /\ others < MaxOther
  /\ others' = others + 1
  /\ \E f \in {"cancel", "ping", "bad"} : inbox' = Append(inbox, <<f, 0>>)
  /\ UNCHANGED <<spoken, polite, gone, session, outq, wire, turn, pump>>

Leaves ==
  /\ ~gone /\ gone' = TRUE
  /\ UNCHANGED <<client, session, outq, wire, turn, pump>>

-----------------------------------------------------------------------------
(* The end of the session: the task group is cancelled, and with it the    *)
(* heartbeat and every turn; frames still to be read are dropped.          *)
EndSession(rest) ==
  /\ loop' = "over" /\ beat' = "off" /\ gone' = TRUE
  /\ outq' = Withdrawn(Withdrawn(rest, "loop", 0), "beat", 0)
  /\ cancelled' = [t \in Turns |->
                    cancelled[t] \/ pc[t] \notin {"idle", "refused", "over"}]
  /\ inbox' = <<>> /\ UNCHANGED <<spoken, others, polite>>

(* The receive loop. *)
Receives(kind) == loop = "recv" /\ inbox # <<>> /\ inbox[1][1] = kind

Receive(kind) ==
  /\ Receives(kind)
  /\ inbox' = Tail(inbox)
  /\ UNCHANGED <<spoken, others, polite>>

Accept ==
  /\ ~busy /\ Receive("message")
  /\ busy' = TRUE /\ cur' = inbox[1][2]
  /\ Goto(cur', "opening")
  /\ UNCHANGED <<gone, loop, beat, outq, wire, cancelled, leased, raised, pump>>

Close ==
  /\ loop' = "closing"
  /\ outq' = Append(outq, Frame("loop", 0, "close"))
  /\ UNCHANGED <<gone, busy, cur, beat, wire, cancelled, leased, raised, pump>>

Refuse ==
  /\ busy /\ Receive("message")
  /\ Goto(inbox[1][2], "refused")
  /\ Close

Malformed == Receive("bad") /\ Close /\ UNCHANGED pc

Ping ==
  /\ Receive("ping")
  /\ loop' = "pong"
  /\ outq' = Append(outq, Frame("loop", 0, "pong"))
  /\ UNCHANGED <<gone, busy, cur, beat, wire, turn, pump>>

CancelIgnored ==
  /\ Receive("cancel") /\ ~busy
  /\ UNCHANGED <<gone, session, outq, wire, turn, pump>>

Cancel ==
  /\ Receive("cancel") /\ busy
  /\ cancelled' = [cancelled EXCEPT ![cur] = TRUE]
  /\ loop' = "cancelling"
  /\ UNCHANGED <<gone, busy, cur, beat, outq, wire, pc, leased, raised, pump>>

(* _turn_done is awaited, so the turn is over before it is answered.       *)
(* Mutant: it is not awaited.                                              *)
StoppedAnyway(t) == TRUE
Stopped(t) == pc[t] = "over"

CancelDone ==
  /\ loop = "cancelling" /\ Stopped(cur)
  /\ busy' = FALSE /\ loop' = "answering"
  /\ outq' = Append(outq, Frame("loop", cur, "end"))
  /\ UNCHANGED <<client, gone, cur, beat, wire, turn, pump>>

Disconnected ==
  /\ loop = "recv" /\ inbox = <<>> /\ gone
  /\ EndSession(outq)
  /\ UNCHANGED <<busy, cur, wire, pc, leased, raised, pump>>

(* The server stops and cancels the handler. *)
Shutdown ==
  /\ loop # "over"
  /\ EndSession(outq)
  /\ UNCHANGED <<busy, cur, wire, pc, leased, raised, pump>>

-----------------------------------------------------------------------------
(* The send lock.  Its holder's frame is sent, or raises because the       *)
(* socket is gone.                                                         *)

Beat ==
  /\ beat = "idle"
  /\ beat' = "sending"
  /\ outq' = Append(outq, Frame("beat", 0, "beat"))
  /\ UNCHANGED <<client, gone, loop, busy, cur, wire, turn, pump>>

(* Pongs and heartbeats are no part of a turn.  Mutant: they are shown. *)
ShownAll(f) ==
  IF gone THEN wire
  ELSE Append(wire, <<f.turn, IF f.kind = "event" THEN "event" ELSE "end">>)

Shown(f) ==
  IF f.turn = 0 \/ gone THEN wire
  ELSE Append(wire, <<f.turn, IF f.kind = "event" THEN "event" ELSE "end">>)

TurnSent ==
  /\ outq # <<>> /\ outq[1].who = "turn"
  /\ wire' = Shown(outq[1]) /\ outq' = Tail(outq)
  /\ Goto(outq[1].turn, CASE outq[1].kind = "event"   -> "streaming"
                          [] outq[1].kind = "end"     -> "closing"
                          [] outq[1].kind = "refusal" -> "over")
  /\ UNCHANGED <<client, gone, session, cancelled, leased, raised, pump>>

LoopSent ==
  /\ outq # <<>> /\ outq[1].who = "loop" /\ outq[1].kind # "close"
  /\ wire' = Shown(outq[1]) /\ outq' = Tail(outq)
  /\ loop' = "recv"
  /\ UNCHANGED <<client, gone, busy, cur, beat, turn, pump>>

Closed ==
  /\ outq # <<>> /\ outq[1].kind = "close"
  /\ EndSession(Tail(outq))
  /\ UNCHANGED <<busy, cur, wire, pc, leased, raised, pump>>

BeatSent ==
  /\ outq # <<>> /\ outq[1].who = "beat"
  /\ outq' = Tail(outq)
  /\ beat' \in {"idle"} \cup (IF gone THEN {"off"} ELSE {})
  /\ UNCHANGED <<client, gone, loop, busy, cur, wire, turn, pump>>

(* An event that cannot be sent ends its turn's stream ... *)
TurnSendRaises ==
  /\ gone /\ outq # <<>> /\ outq[1].who = "turn" /\ outq[1].kind # "refusal"
  /\ outq' = Tail(outq)
  /\ Goto(outq[1].turn, "closing")
  /\ UNCHANGED <<client, gone, session, wire, cancelled, leased, raised, pump>>

(* ... any other frame that cannot be sent ends the session. *)
SessionSendRaises ==
  /\ gone /\ outq # <<>> /\ loop # "over"
  /\ outq[1].who = "loop" \/ outq[1].kind = "refusal"
  /\ EndSession(Tail(outq))
  /\ pc' = IF outq[1].kind = "refusal" THEN [pc EXCEPT ![outq[1].turn] = "over"] ELSE pc
  /\ UNCHANGED <<busy, cur, wire, leased, raised, pump>>

-----------------------------------------------------------------------------
(* A turn task. *)

(* open_turn: the lease, then the graph and the pump's producer. *)
Acquire(t) ==
  /\ pc[t] = "opening"
  /\ leased' = [leased EXCEPT ![t] = TRUE]
  /\ Goto(t, "building")
  /\ UNCHANGED <<client, gone, session, outq, wire, cancelled, raised, pump>>

Open(t) ==
  /\ pc[t] = "building"
  /\ run' = [run EXCEPT ![t] = "live"]
  /\ Goto(t, "streaming")
  /\ UNCHANGED <<client, gone, session, outq, wire, cancelled, leased, raised, made, queue>>

(* The flag is cleared before the last frame is queued.  Mutant: it is     *)
(* cleared with the cleanup.                                               *)
NotBusyLater(last) == UNCHANGED busy
NotBusy(last) == busy' = (busy /\ ~last)

(* A frame of a cancelled turn is not queued any more: the lock's acquire  *)
(* raises first.  Mutant: it is queued.                                    *)
SendsAnyway(t, kind, label) ==
  NotBusy(kind # "event") /\ Goto(t, label) /\ outq' = Append(outq, Frame("turn", t, kind))

Sends(t, kind, label) ==
  /\ NotBusy(kind # "event")
  /\ IF cancelled[t]
       THEN Goto(t, IF kind = "refusal" THEN "over" ELSE "closing") /\ UNCHANGED outq
       ELSE Goto(t, label) /\ outq' = Append(outq, Frame("turn", t, kind))

OpenFails(t) ==
  /\ pc[t] \in {"opening", "building"}
  /\ leased' = [leased EXCEPT ![t] = FALSE]
  /\ Sends(t, "refusal", "failing")
  /\ UNCHANGED <<client, gone, loop, cur, beat, wire, cancelled, raised, pump>>

Takes(t, item) ==
  /\ pc[t] = "streaming" /\ queue[t] # <<>> /\ queue[t][1] = item
  /\ queue' = [queue EXCEPT ![t] = Tail(@)]
  /\ UNCHANGED <<run, made>>

Event(t) ==
  /\ Takes(t, "chunk")
  /\ Sends(t, "event", "sending")
  /\ UNCHANGED <<client, gone, loop, cur, beat, wire, cancelled, leased, raised>>

(* A chunk without an event: neither text nor the name of a tool.  *)
Silent(t) ==
  /\ Takes(t, "chunk")
  /\ UNCHANGED <<client, gone, session, outq, wire, turn>>

LastEvent(t) ==
  /\ Takes(t, "end") \/ Takes(t, "error")
  /\ Sends(t, "end", "ending")
  /\ UNCHANGED <<client, gone, loop, cur, beat, wire, cancelled, leased, raised>>

(* The translation of an item raises: the exception is logged, nothing is  *)
(* sent and the flag stays.                                                *)
StreamRaises(t) ==
  /\ \E item \in {"chunk", "error", "end"} : Takes(t, item)
  /\ raised' = [raised EXCEPT ![t] = TRUE]
  /\ Goto(t, "closing")
  /\ UNCHANGED <<client, gone, session, outq, wire, cancelled, leased>>

Unopened == {"opening", "building", "failing"}

(* The cancellation arrives at an await; a frame just being sent may be    *)
(* out already.                                                            *)
Cancelled(t) ==
  /\ cancelled[t] /\ pc[t] \in Unopened \cup {"streaming", "sending", "ending"}
  /\ Goto(t, IF pc[t] \in Unopened THEN "over" ELSE "closing")
  /\ leased' = [leased EXCEPT ![t] = @ /\ pc[t] \notin Unopened]
  /\ outq' = Withdrawn(outq, "turn", t)
  /\ wire' \in {wire} \cup (IF outq # <<>> /\ From(outq[1], "turn", t)
                              THEN {Shown(outq[1])} ELSE {})
  /\ UNCHANGED <<client, gone, session, cancelled, raised, pump>>

(* Turn.aclose under a shield: the producer is cancelled and awaited, then *)
(* the lease is released.  Mutants: without the shield; the producer is    *)
(* awaited without being cancelled.  The pump goes with the turn.          *)
Unshielded(t) == ~cancelled[t]
Uncut(t) == run[t] # "live"
Shielded(t) == TRUE

StopRun(t) ==
  /\ pc[t] = "closing" /\ Shielded(t)
  /\ run' = [run EXCEPT ![t] = "over"]
  /\ Goto(t, "releasing")
  /\ UNCHANGED <<client, gone, session, outq, wire, cancelled, leased, raised, made, queue>>

Released(t) ==
  /\ pc[t] = "releasing"
  /\ leased' = [leased EXCEPT ![t] = FALSE]
  /\ queue' = [queue EXCEPT ![t] = <<>>]
  /\ Goto(t, "over")
  /\ UNCHANGED <<client, gone, session, outq, wire, cancelled, raised, run, made>>

-----------------------------------------------------------------------------
(* The producer: it waits while the queue is full. *)

Puts(t, item) ==
  /\ run[t] = "live" /\ Len(queue[t]) < MaxSize
  /\ queue' = [queue EXCEPT ![t] = Append(@, item)]
  /\ UNCHANGED <<client, gone, session, outq, wire, turn>>

Produce(t) ==
  /\ made[t] < MaxChunks /\ Puts(t, "chunk")
  /\ made' = [made EXCEPT ![t] = @ + 1]
  /\ UNCHANGED run

(* The error of a run is an item as well.  Mutant: it is lost. *)
RunEndsLost(t) ==
  /\ \/ Puts(t, "end")
     \/ run[t] = "live" /\ UNCHANGED <<client, gone, session, outq, wire, turn, queue>>
  /\ run' = [run EXCEPT ![t] = "over"] /\ UNCHANGED made

RunEnds(t) ==
  /\ Puts(t, "end") \/ Puts(t, "error")
  /\ run' = [run EXCEPT ![t] = "over"] /\ UNCHANGED made

-----------------------------------------------------------------------------
Client == Message \/ OtherFrame \/ Leaves
Loop ==
  \/ Accept \/ Refuse \/ Malformed \/ Ping \/ CancelIgnored \/ Cancel
  \/ CancelDone \/ Disconnected
Sending ==
  \/ TurnSent \/ LoopSent \/ Closed \/ BeatSent
  \/ TurnSendRaises \/ SessionSendRaises
TurnStep(t) ==
  \/ Acquire(t) \/ Open(t) \/ OpenFails(t) \/ Event(t) \/ Silent(t) \/ LastEvent(t)
  \/ StreamRaises(t) \/ Cancelled(t) \/ StopRun(t) \/ Released(t)
Producer(t) == Produce(t) \/ RunEnds(t)

Next ==
  \/ Client \/ Loop \/ Sending \/ Beat \/ Shutdown
  \/ \E t \in Turns : TurnStep(t) \/ Producer(t)

Spec == Init /\ [][Next]_vars

(* The event loop resumes what is ready, a run goes on while its queue has *)
(* room, and the client reads what it is sent or is found to be gone.      *)
Fairness ==
  /\ WF_vars(Loop) /\ WF_vars(Sending)
  /\ \A t \in Turns : WF_vars(TurnStep(t)) /\ WF_vars(Producer(t))

FairSpec == Spec /\ Fairness

-----------------------------------------------------------------------------
(* Properties. *)

TypeOK ==
  /\ inbox \in Seq({"message", "cancel", "ping", "bad"} \X (0 .. MaxTurns))
  /\ spoken \in 0 .. MaxTurns /\ others \in 0 .. MaxOther /\ polite \subseteq Turns
  /\ gone \in BOOLEAN /\ busy \in BOOLEAN /\ cur \in 0 .. MaxTurns
  /\ loop \in {"recv", "pong", "cancelling", "answering", "closing", "over"}
  /\ beat \in {"idle", "sending", "off"}
  /\ outq \in Seq([who : {"turn", "loop", "beat"}, turn : 0 .. MaxTurns,
                   kind : {"event", "end", "refusal", "close", "pong", "beat"}])
  /\ wire \in Seq(Turns \X {"event", "end"})
  /\ pc \in [Turns -> Unopened \cup
                {"idle", "refused", "streaming", "sending", "ending", "closing",
                 "releasing", "over"}]
  /\ cancelled \in [Turns -> BOOLEAN] /\ leased \in [Turns -> BOOLEAN]
  /\ raised \in [Turns -> BOOLEAN]
  /\ run \in [Turns -> {"none", "live", "over"}]
  /\ made \in [Turns -> 0 .. MaxChunks]
  /\ queue \in [Turns -> Seq({"chunk", "error", "end"})]

(* The client can tell the turns apart although frames do not name them:   *)
(* those of a turn come before those of the next, its terminal frame is    *)
(* its last and it has no second one, also when a cancel meets it.         *)
Conversation ==
  \A i, j \in DOMAIN wire :
    i < j => /\ wire[i][1] <= wire[j][1]
             /\ wire[i][2] = "end" => wire[i][1] < wire[j][1]

(* A client that waits for the terminal frame of a turn, the one that      *)
(* answers its cancel included, is never closed as busy.                   *)
PoliteServed == \A t \in Turns : pc[t] = "refused" => t \notin polite

(* The connection drives at most one run of the graph, whatever is         *)
(* cancelled or still being cleaned up.                                    *)
OneRun == \A t, u \in Turns : run[t] = "live" /\ run[u] = "live" => t = u

(* However the session ends, the leases of its turns are given back, those *)
(* taken while it was ending included.                                     *)
NoLeaseLeft == loop = "over" ~> [](\A t \in Turns : ~leased[t])

(* The loop always comes back to its frames, or ends: a cancel is answered *)
(* although the turn may wait for the lock, for the producer, and the      *)
(* producer for room in the queue.                                         *)
LoopReturns == loop # "recv" ~> loop \in {"recv", "over"}

(* A turn whose event stream does not raise gets its terminal frame, or    *)
(* the session is over.                                                    *)
Answered ==
  \A t \in Turns : pc[t] = "opening" ~> Ended(t) \/ raised[t] \/ loop = "over"
=============================================================================
