---------------------------- MODULE RequestsProofs ----------------------------
(***************************************************************************)
(* Proofs about Requests: what a client reads is the run in order, the     *)
(* span tells the truth, the lease outlives the run, and every request is  *)
(* a TracedRequest, for runs of any length.                                *)
(*                                                                         *)
(* The inductive invariant says which phases a kind of request has and     *)
(* what cannot be before each of them (Fresh, Begun), that the pump holds  *)
(* exactly the items not yet taken, in order (Pumped), what the frame in   *)
(* flight is (Framed), what the wire has (Wired), where an outcome comes   *)
(* from (Outcomes) and who may have given the lease back (Leases).         *)
(***************************************************************************)
EXTENDS Requests, SequenceTheorems, TLAPS

Items == [is : {"none", "raise", "start", "beat", "chunk", "error", "budget",
                "end", "done"},
          n : 0 .. MaxChunks]

Ats == {"idle", "acquire", "open", "prime", "json", "call", "answer", "report",
        "headers", "send", "next", "wait", "fence", "record", "stop", "settle",
        "after", "drain", "over"}

TypeOK ==
  /\ kind \in Kinds \cup {"none"} /\ at \in Ats
  /\ status \in {"none", "ok", "budget", "refused", "broken"}
  /\ span \in {"off", "open", "ended"} /\ outcome \in {"none", "ok", "failed"}
  /\ lease \in {"none", "held", "free"} /\ hold \in BOOLEAN /\ owed \in BOOLEAN
  /\ run \in {"none", "live", "unwinding", "stopped", "dropped", "completed",
              "failed"}
  /\ made \in 0 .. MaxChunks
  /\ queue \in Seq(Items) /\ head \in Items
  /\ frame \in Items /\ wire \in Seq(Items)
  /\ cut \in BOOLEAN /\ erred \in BOOLEAN

-----------------------------------------------------------------------------
(* The phases of a request and what they presuppose. *)

Ending == {"stop", "settle", "after", "drain"}
Reading == {"prime", "headers", "next", "wait"}

Phases ==
  /\ kind = "none" <=> at = "idle"
  /\ kind \in Turns => at \notin {"json", "call", "answer", "report"}
  /\ kind = "rpc" => at \notin {"open", "prime", "report", "next", "fence", "record"}
  /\ kind = "admin" => at \in {"acquire", "report", "over"}

(* Before the work begins there is no trace of it. *)
Fresh ==
  at \in {"idle", "acquire", "open", "json", "report"} =>
    /\ status = "none" /\ outcome = "none" /\ run = "none" /\ made = 0
    /\ queue = <<>> /\ head = Nothing /\ frame = Nothing /\ wire = <<>>
    /\ ~hold /\ ~owed /\ ~erred
    /\ lease = (IF at \in {"idle", "acquire"} THEN "none" ELSE "held")
    /\ span = (IF kind \in Turns THEN "open" ELSE "off")
    /\ at = "idle" => ~cut

(* While it goes on there is no answer but the one being streamed. *)
Begun ==
  /\ at \in {"prime", "call", "answer"} => status = "none" /\ outcome = "none"
  /\ at \in {"headers", "send", "next", "wait", "fence", "record"} => status = "ok"
  /\ at \notin {"idle", "acquire", "over"} => lease # "none"
  /\ status = "none" => at \in {"idle", "acquire", "open", "json", "report",
                                "prime", "call", "answer"}
  /\ status = "budget" => run = "failed" /\ wire = <<>> /\ made = 0
  /\ status = "ok" => lease # "none"
  /\ status = "refused" => at = "over"
  /\ frame = Broken => at \in {"stop", "settle", "over"}
  /\ kind \in {"none", "admin"} => run = "none" /\ span = "off"
  /\ kind = "rpc" /\ run = "live" => at \in {"call", "headers", "send", "wait"}
  /\ kind = "rpc" /\ at \in {"call", "headers", "send", "wait"} => run = "live"
  /\ kind = "rpc" /\ at \in {"headers", "send", "wait", "stop"} => span = "open"
  /\ at \in {"call", "answer"} => span # "ended"
  /\ kind = "rpc" => frame.is \in {"none", "raise", "chunk", "error"}
  /\ at = "answer" /\ ~erred => run = "completed"

-----------------------------------------------------------------------------
(* The pump, the frame in flight and the wire of a turn. *)

Over == run \in {"completed", "failed"}
Final(item) ==
  \/ run = "completed" /\ item = Item("end", 0)
  \/ run = "failed" /\ item \in {Item("error", 0), Item("budget", 0)}

Started == Len(wire) >= Lead
Taken == IF ~Started THEN 0
         ELSE Len(wire) - Lead + (IF frame.is = "chunk" THEN 1 ELSE 0)
Primed1 == IF head = Nothing THEN 0 ELSE 1

(* The n-th item of the run. *)
Is(item, n) == IF n <= made THEN item = Item("chunk", n) ELSE n = made + 1 /\ Final(item)

(* The pump, when the stream has taken t items. *)
Holds(t) ==
  /\ run \in {"live", "completed", "failed"}
  /\ t <= made
  /\ head # Nothing => Is(head, t + 1)
  /\ \A i \in 1 .. Len(queue) : Is(queue[i], t + Primed1 + i)
  /\ t + Primed1 + Len(queue) = made + (IF Over THEN 1 ELSE 0)

Pumped ==
  kind \in Turns /\ (at \in Reading \/ (at = "send" /\ ~Terminal(frame))) => Holds(Taken)

Framed ==
  kind \in Turns =>
    /\ at \in Reading \cup {"fence", "record"} => frame = Nothing
    /\ at \in {"prime", "headers"} => wire = <<>>
    /\ at = "prime" => head = Nothing
    /\ at \in {"next", "wait", "fence", "record"} => Started
    /\ at \in {"fence", "record"} => run = "completed" /\ Len(wire) = Lead + made
    /\ at = "send" =>
         \/ frame = Item("start", 0) /\ kind # "native" /\ wire = <<>>
         \/ frame = Item("beat", 0) /\ Started
         \/ Started /\ frame = Item("chunk", Len(wire) - Lead + 1)
         \/ frame \in {Item("done", 0), Item("error", 0)} /\ TellsEnd(frame)
            /\ Len(wire) = Lead + made

Wired ==
  kind \in Turns =>
    /\ \A i \in 1 .. Len(wire) : InOrder(i)
    /\ at \in Ending \cup {"over"} /\ status = "ok" /\ ~cut =>
         frame = Broken \/ (wire # <<>> /\ Terminal(wire[Len(wire)]))

-----------------------------------------------------------------------------
(* The span and the lease. *)

Outcomes ==
  /\ span = "off" => outcome = "none"
  /\ kind \in Turns /\ at \in Reading \cup {"send", "fence", "record"} => span = "open"
  /\ kind \in Turns => ~erred
  /\ outcome = "ok" => run = "completed" /\ ~erred /\ status = "ok"
  /\ outcome = "failed" => \/ erred \/ run = "failed"
                           \/ status \in {"budget", "refused"}
                           \/ frame = Broken
  /\ erred /\ span # "off" /\ at # "answer" => outcome = "failed"
  /\ kind \in Turns /\ (at = "record" \/ (at = "send" /\ Terminal(frame))) => outcome # "none"
  /\ at \in Ending /\ span # "off" => outcome # "none" \/ cut
  /\ span = "ended" => at \in Ending \cup {"over"} /\ (outcome # "none" \/ cut)

Leases ==
  /\ run = "live" => lease = "held"
  /\ hold => kind = "resume" /\ lease = "held" /\ run \in {"live", "completed", "failed"}
  /\ kind = "resume" => run \in {"none", "live", "completed", "failed"}
  /\ kind = "resume" /\ run = "live" => hold
  /\ kind # "resume" /\ at \in {"settle", "drain", "over"} => run # "live"

IInv == TypeOK /\ Phases /\ Fresh /\ Begun /\ Pumped /\ Framed /\ Wired /\ Outcomes /\ Leases

USE DEF traced, leased, pump, body, vars, Turns, Kinds, Terminal

(* The steps of Next, in the groups the proofs go by. *)
Arrives ==
  \/ \E k \in Turns : TurnUnauthorized(k) \/ TurnRefused(k) \/ TurnStarts(k)
  \/ RpcRefused \/ AdminRefused \/ RpcStarts
Opens == TurnLeased \/ TurnFails \/ TurnOpened
Primes == Primed \/ PrimedRefusal \/ PrimeTimesOut
Reads == Empty \/ Heartbeat \/ TakeChunk \/ TurnBreaks \/ TakeError \/ TakeEnd \/ Fenced \/ Recorded
Calls ==
  \/ RpcLeased \/ RpcGivesUp \/ RpcBreaks \/ NoHandler
  \/ Call \/ CallReturns \/ CallRaises \/ Answered \/ PageRead
Streams == Stream \/ Frame \/ ErrorFrame \/ StreamEnds \/ StreamRaises
Runs == Graph \/ Unwound \/ Finalized \/ Collected
Leaves == ClientLeaves \/ CutSend \/ CutAwait

LEMMA Steps ==
  ASSUME [Next]_vars
  PROVE  \/ Arrives \/ Opens \/ Primes \/ Reads \/ Calls \/ Streams
         \/ Streaming \/ Runs \/ Leaves \/ UNCHANGED vars
BY DEF Next, Turn, Rpc, Arrives, Opens, Primes, Reads, Calls, Streams, Runs, Leaves

-----------------------------------------------------------------------------
(* Types. *)

LEMMA ItemTyped ==
  /\ Nothing \in Items /\ Broken \in Items
  /\ \A is \in {"start", "beat", "done", "error", "budget", "end"} : Item(is, 0) \in Items
  /\ \A n \in 0 .. MaxChunks : Item("chunk", n) \in Items /\ Item("error", n) \in Items
BY ChunksAssumption DEF Items, Item, Nothing, Broken

LEMMA ConsumeTyped ==
  ASSUME TypeOK, Ready, Consume
  PROVE  Next1 \in Items /\ head' \in Items /\ queue' \in Seq(Items)
<1>1. CASE head # Nothing
  BY <1>1, ItemTyped DEF TypeOK, Next1, Consume
<1>2. CASE head = Nothing
  BY <1>2, HeadTailProperties DEF TypeOK, Ready, Next1, Consume
<1> QED BY <1>1, <1>2

LEMMA TypeNext ==
  ASSUME TypeOK, Phases, [Next]_vars
  PROVE  TypeOK'
<1> USE ItemTyped, ChunksAssumption DEF TypeOK, Ats
<1>1. CASE Arrives
  BY <1>1 DEF Arrives, TurnUnauthorized, TurnRefused, TurnStarts, RpcRefused, AdminRefused, RpcStarts, Refuse
<1>2. CASE Opens
  BY <1>2 DEF Opens, TurnLeased, TurnFails, TurnOpened, FailSpan, Release, Refuse, Outcome, EndSpan
<1>3. CASE Primes
  <2>1. CASE Primed \/ PrimedRefusal
    <3>1. Head(queue) \in Items /\ Tail(queue) \in Seq(Items)
      BY <2>1, HeadTailProperties DEF Primed, PrimedRefusal
    <3> QED BY <2>1, <3>1 DEF Primed, PrimedRefusal, Keep, FailSpan, Outcome, EndSpan
  <2>2. CASE PrimeTimesOut
    BY <2>2 DEF PrimeTimesOut
  <2> QED BY <1>3, <2>1, <2>2 DEF Primes
<1>4. CASE Reads
  <2>1. CASE TakeChunk \/ TurnBreaks \/ TakeError \/ TakeEnd
    <3>1. /\ Next1 \in Items \/ at \in {"headers", "record"}
          /\ head' \in Items /\ queue' \in Seq(Items)
      BY <2>1, ConsumeTyped DEF TakeChunk, TurnBreaks, TakeError, TakeEnd, Get
    <3>2. UNCHANGED <<kind, status, span, leased, run, made, wire, cut, erred>>
      BY <2>1 DEF TakeChunk, TurnBreaks, TakeError, TakeEnd
    <3>3. at' \in Ats /\ frame' \in Items /\ outcome' \in {"none", "ok", "failed"}
      BY <2>1, <3>1 DEF TakeChunk, TurnBreaks, TakeError, TakeEnd, Get, Outcome
    <3> QED BY <3>1, <3>2, <3>3
  <2>2. CASE Empty \/ Heartbeat \/ Fenced \/ Recorded
    BY <2>2 DEF Empty, Heartbeat, Fenced, Recorded, Outcome
  <2> QED BY <1>4, <2>1, <2>2 DEF Reads
<1>5. CASE Calls
  BY <1>5 DEF Calls, RpcLeased, RpcGivesUp, RpcBreaks, NoHandler, Call, CallReturns, CallRaises, Answered,
              PageRead, Release, Refuse, OpenSpan, FailSpan, Outcome, EndSpan, Finish
<1>6. CASE Streams
  <2>1. CASE Frame \/ ErrorFrame
    <3>1. made' \in 0 .. MaxChunks
      BY <2>1 DEF Frame, ErrorFrame
    <3> QED BY <2>1, <3>1 DEF Frame, ErrorFrame, Outcome
  <2>2. CASE Stream \/ StreamEnds \/ StreamRaises
    BY <2>2 DEF Stream, StreamEnds, StreamRaises, Outcome
  <2> QED BY <1>6, <2>1, <2>2 DEF Streams
<1>7. CASE Streaming
  <2>1. CASE Sent
    <3>1. Append(wire, frame) \in Seq(Items)
      BY AppendProperties
    <3> QED BY <2>1, <3>1 DEF Sent, FirstAwait
  <2>2. CASE SendHeaders \/ Stop \/ Settle \/ Backstop \/ Drained
    BY <2>2 DEF SendHeaders, Stop, Settle, Backstop, Drained, EndSpan, StopRun, RunDown, Release, FirstAwait
  <2> QED BY <1>7, <2>1, <2>2 DEF Streaming
<1>8. CASE Runs
  <2>1. CASE Graph
    <3>1. made' \in 0 .. MaxChunks
      BY <2>1 DEF Graph, Produce, RunCompletes, RunFails
    <3>2. PICK item \in Items : queue' = Append(queue, item)
      BY <2>1, <3>1 DEF Graph, Produce, RunCompletes, RunFails, Put
    <3>3. queue' \in Seq(Items)
      BY <3>2, AppendProperties
    <3> QED BY <2>1, <3>1, <3>3 DEF Graph, Produce, RunCompletes, RunFails
  <2>2. CASE Finalized
    <3>1. lease' \in {"none", "held", "free"} /\ hold' \in BOOLEAN
      BY <2>2 DEF Finalized
    <3>2. UNCHANGED <<kind, at, status, traced, owed, pump, body, cut, erred>>
      BY <2>2 DEF Finalized
    <3> QED BY <3>1, <3>2
  <2>3. CASE Unwound \/ Collected
    BY <2>3 DEF Unwound, Collected
  <2> QED BY <1>8, <2>1, <2>2, <2>3 DEF Runs
<1>9. CASE Leaves
  <2>1. CASE ClientLeaves
    BY <2>1 DEF ClientLeaves
  <2>2. CASE CutSend
    BY <2>2 DEF CutSend
  <2>3. CASE CutAwait
    BY <2>3 DEF CutAwait
  <2> QED BY <1>9, <2>1, <2>2, <2>3 DEF Leaves
<1> QED BY <1>1, <1>2, <1>3, <1>4, <1>5, <1>6, <1>7, <1>8, <1>9, Steps

-----------------------------------------------------------------------------
(* The phases and the lease, which do not depend on the pump. *)

LEMMA PhasesNext ==
  ASSUME TypeOK, Phases, Begun, Leases, [Next]_vars
  PROVE  Phases'
<1> USE DEF TypeOK, Ats, Phases, Begun, Leases
<1>1. CASE Arrives
  BY <1>1 DEF Arrives, TurnUnauthorized, TurnRefused, TurnStarts, RpcRefused, AdminRefused, RpcStarts, Refuse
<1>2. CASE Opens
  BY <1>2 DEF Opens, TurnLeased, TurnFails, TurnOpened, FailSpan, Release, Refuse, Outcome, EndSpan
<1>3. CASE Primes
  BY <1>3 DEF Primes, Primed, PrimedRefusal, PrimeTimesOut, Keep, FailSpan, Outcome, EndSpan
<1>4. CASE Reads
  BY <1>4 DEF Reads, Get, Empty, Heartbeat, TakeChunk, TurnBreaks, TakeError, TakeEnd, Fenced, Recorded, Outcome
<1>5. CASE Calls
  BY <1>5 DEF Calls, RpcLeased, RpcGivesUp, RpcBreaks, NoHandler, Call, CallReturns, CallRaises, Answered,
              PageRead, Release, Refuse, OpenSpan, FailSpan, Outcome, EndSpan, Finish
<1>6. CASE Streams
  BY <1>6 DEF Streams, Stream, Frame, ErrorFrame, StreamEnds, StreamRaises, Outcome
<1>7. CASE Streaming
  BY <1>7 DEF Streaming, SendHeaders, Sent, Stop, Settle, Backstop, Drained, EndSpan,
              StopRun, RunDown, Release, FirstAwait
<1>8. CASE Runs
  BY <1>8 DEF Runs, Graph, Produce, RunCompletes, RunFails, Unwound, Finalized, Collected
<1>9. CASE Leaves
  BY <1>9 DEF Leaves, ClientLeaves, CutSend, CutAwait
<1>10. CASE UNCHANGED vars
  BY <1>10
<1> QED BY <1>1, <1>2, <1>3, <1>4, <1>5, <1>6, <1>7, <1>8, <1>9, <1>10, Steps

LEMMA FreshNext ==
  ASSUME TypeOK, Phases, Fresh, [Next]_vars
  PROVE  Fresh'
<1> USE DEF TypeOK, Ats, Item, Nothing, Broken, Phases, Fresh
<1>1. CASE Arrives
  BY <1>1 DEF Arrives, TurnUnauthorized, TurnRefused, TurnStarts, RpcRefused, AdminRefused, RpcStarts, Refuse
<1>2. CASE Opens
  BY <1>2 DEF Opens, TurnLeased, TurnFails, TurnOpened, FailSpan, Release, Refuse, Outcome, EndSpan
<1>3. CASE Primes
  BY <1>3 DEF Primes, Primed, PrimedRefusal, PrimeTimesOut, Keep, FailSpan, Outcome, EndSpan
<1>4. CASE Reads
  BY <1>4 DEF Reads, Get, Empty, Heartbeat, TakeChunk, TurnBreaks, TakeError, TakeEnd, Fenced, Recorded, Outcome
<1>5. CASE Calls
  BY <1>5 DEF Calls, RpcLeased, RpcGivesUp, RpcBreaks, NoHandler, Call, CallReturns, CallRaises, Answered,
              PageRead, Release, Refuse, OpenSpan, FailSpan, Outcome, EndSpan, Finish
<1>6. CASE Streams
  BY <1>6 DEF Streams, Stream, Frame, ErrorFrame, StreamEnds, StreamRaises, Outcome
<1>7. CASE Streaming
  BY <1>7 DEF Streaming, SendHeaders, Sent, Stop, Settle, Backstop, Drained, EndSpan,
              StopRun, RunDown, Release, FirstAwait
<1>8. CASE Runs
  BY <1>8 DEF Runs, Graph, Produce, RunCompletes, RunFails, Unwound, Finalized, Collected
<1>9. CASE Leaves
  BY <1>9 DEF Leaves, ClientLeaves, CutSend, CutAwait
<1>10. CASE UNCHANGED vars
  BY <1>10
<1> QED BY <1>1, <1>2, <1>3, <1>4, <1>5, <1>6, <1>7, <1>8, <1>9, <1>10, Steps

LEMMA LeasesNext ==
  ASSUME TypeOK, Phases, Fresh, Begun, Leases, [Next]_vars
  PROVE  Leases'
<1> USE DEF TypeOK, Ats, Phases, Fresh, Begun, Leases
<1>1. CASE Arrives
  BY <1>1 DEF Arrives, TurnUnauthorized, TurnRefused, TurnStarts, RpcRefused, AdminRefused, RpcStarts, Refuse
<1>2. CASE Opens
  <2>1. CASE TurnFails
    BY <2>1 DEF TurnFails, FailSpan, Release, Refuse
  <2>2. CASE TurnLeased
    BY <2>2 DEF TurnLeased
  <2>3. CASE TurnOpened
    BY <2>3 DEF TurnOpened
  <2> QED BY <1>2, <2>1, <2>2, <2>3 DEF Opens
<1>3. CASE Primes
  BY <1>3 DEF Primes, Primed, PrimedRefusal, PrimeTimesOut, Keep, FailSpan, Outcome, EndSpan
<1>4. CASE Reads
  BY <1>4 DEF Reads, Get, Empty, Heartbeat, TakeChunk, TurnBreaks, TakeError, TakeEnd, Fenced, Recorded, Outcome
<1>5. CASE Calls
  BY <1>5 DEF Calls, RpcLeased, RpcGivesUp, RpcBreaks, NoHandler, Call, CallReturns, CallRaises, Answered,
              PageRead, Release, Refuse, OpenSpan, FailSpan, Outcome, EndSpan, Finish
<1>6. CASE Streams
  BY <1>6 DEF Streams, Stream, Frame, ErrorFrame, StreamEnds, StreamRaises, Outcome
<1>7. CASE Streaming
  BY <1>7 DEF Streaming, SendHeaders, Sent, Stop, Settle, Backstop, Drained, EndSpan,
              StopRun, RunDown, Release, FirstAwait
<1>8. CASE Runs
  BY <1>8 DEF Runs, Graph, Produce, RunCompletes, RunFails, Unwound, Finalized, Collected
<1>9. CASE Leaves
  BY <1>9 DEF Leaves, ClientLeaves, CutSend, CutAwait
<1>10. CASE UNCHANGED vars
  BY <1>10
<1> QED BY <1>1, <1>2, <1>3, <1>4, <1>5, <1>6, <1>7, <1>8, <1>9, <1>10, Steps

-----------------------------------------------------------------------------
(* The pump. *)

(* The item get returns is the next one of the run, and the rest follows. *)
LEMMA Consumed ==
  ASSUME TypeOK, NEW t \in Nat, Holds(t), Ready, Consume, UNCHANGED <<run, made>>
  PROVE  Is(Next1, t + 1) /\ (t + 1 <= made => Holds(t + 1)')
<1> USE DEF TypeOK
<1>1. CASE head # Nothing
  <2>1. Is(Next1, t + 1) /\ Primed1 = 1 /\ Primed1' = 0 /\ queue' = queue
    BY <1>1 DEF Next1, Consume, Holds, Primed1
  <2>2. \A i \in 1 .. Len(queue) : Is(queue[i], t + 1 + i)
    BY <2>1 DEF Holds
  <2>3. head' = Nothing
    BY <1>1 DEF Consume
  <2> QED BY <2>1, <2>2, <2>3 DEF Holds, Is, Final, Over, Nothing
<1>2. CASE head = Nothing
  <2>1. Next1 = queue[1] /\ queue' = Tail(queue) /\ head' = head /\ queue # <<>>
    BY <1>2 DEF Next1, Consume, Ready
  <2>2. /\ Len(queue) \in Nat /\ Len(queue) >= 1
        /\ Len(queue') = Len(queue) - 1
        /\ \A i \in 1 .. Len(queue') : queue'[i] = queue[i + 1]
    BY <2>1, HeadTailProperties, EmptySeq, LenProperties
  <2>3. Primed1 = 0 /\ Primed1' = 0
    BY <1>2, <2>1 DEF Primed1, Nothing
  <2>4. Is(Next1, t + 1)
    BY <2>1, <2>2, <2>3 DEF Holds
  <2>5. \A i \in 1 .. Len(queue') : Is(queue'[i], t + 1 + i)
    <3> TAKE i \in 1 .. Len(queue')
    <3>1. i + 1 \in 1 .. Len(queue) /\ t + Primed1 + (i + 1) = t + 1 + i
      BY <2>2, <2>3
    <3> QED BY <2>2, <3>1 DEF Holds
  <2>6. t + 1 + Primed1' + Len(queue') = made + (IF Over THEN 1 ELSE 0)
    BY <2>2, <2>3 DEF Holds
  <2> QED BY <1>2, <2>1, <2>3, <2>4, <2>5, <2>6 DEF Holds, Is, Final, Over, Nothing
<1> QED BY <1>1, <1>2

(* An item put behind the others is the last one so far. *)
LEMMA Produced ==
  ASSUME TypeOK, NEW t \in Nat, Holds(t), NEW item, queue' = Append(queue, item),
         run = "live", UNCHANGED head,
         \/ made' = made + 1 /\ run' = run /\ item = Item("chunk", made + 1)
         \/ made' = made /\ run' \in {"completed", "failed"} /\ Final(item)'
  PROVE  Holds(t)'
<1> USE DEF TypeOK
<1>1. /\ Len(queue) \in Nat /\ Len(queue') = Len(queue) + 1
      /\ \A i \in 1 .. Len(queue) : queue'[i] = queue[i]
      /\ queue'[Len(queue) + 1] = item
  BY LenProperties
<1>2. Primed1' = Primed1 /\ Primed1 \in {0, 1}
  BY DEF Primed1, Nothing
<1>3. ASSUME NEW x, NEW n \in Nat, Is(x, n) PROVE Is(x, n)'
  BY <1>3 DEF Is, Final
<1>4. t + Primed1 + Len(queue) = made
  BY DEF Holds, Over
<1>5. PICK last \in Nat : last = made + 1
  OBVIOUS
<1>9. Is(item, last)'
  BY <1>5 DEF Is
<1>6. \A i \in 1 .. Len(queue') : Is(queue[i], t + Primed1 + i)'
  <2> TAKE i \in 1 .. Len(queue')
  <2>1. CASE i \in 1 .. Len(queue)
    BY <1>1, <1>2, <1>3, <2>1 DEF Holds
  <2>2. CASE i = Len(queue) + 1
    <3>1. last = t + Primed1' + i /\ queue'[i] = item
      BY <1>1, <1>2, <1>4, <1>5, <2>2
    <3> QED BY <1>9, <3>1
  <2> QED BY <1>1, <2>1, <2>2
<1>7. (head # Nothing => Is(head, t + 1))'
  BY <1>3 DEF Holds, Nothing
<1>8. (t + Primed1 + Len(queue) = made + (IF Over THEN 1 ELSE 0))'
  BY <1>1, <1>2, <1>4 DEF Over
<1> QED BY <1>6, <1>7, <1>8 DEF Holds

(* What the stream of a turn takes. *)
LEMMA Taking ==
  ASSUME TypeOK, Pumped, Framed, Get, UNCHANGED <<run, made>>
  PROVE  \E t \in Nat :
           /\ Started /\ t = Taken /\ t = Len(wire) - Lead
           /\ Next1.is = "chunk" => Next1 = Item("chunk", t + 1) /\ Holds(t + 1)'
           /\ Next1.is = "end" => run = "completed" /\ t = made
           /\ Next1.is \in {"error", "budget"} => run = "failed" /\ t = made
<1>0. Started /\ frame = Nothing
  BY DEF Framed, Get, Reading
<1>1. Started /\ Taken = Len(wire) - Lead /\ Taken \in Nat
  <2>1. Len(wire) \in Nat /\ Lead \in {0, 1}
    BY LenProperties DEF TypeOK, Lead
  <2>2. frame.is # "chunk"
    BY <1>0 DEF Nothing, Item
  <2> QED BY <1>0, <2>1, <2>2 DEF Taken, Started
<1>2. Holds(Taken) /\ Ready /\ Consume
  BY DEF Pumped, Get, Reading
<1>3. PICK t \in Nat : t = Taken
  BY <1>1
<1>4. Is(Next1, t + 1) /\ (t + 1 <= made => Holds(t + 1)')
  BY <1>2, <1>3, Consumed
<1>5. Next1.is = "chunk" => Next1 = Item("chunk", t + 1) /\ t + 1 <= made
  BY <1>4 DEF Is, Final, Item
<1>6. /\ Next1.is = "end" => run = "completed" /\ t = made
      /\ Next1.is \in {"error", "budget"} => run = "failed" /\ t = made
  BY <1>4 DEF TypeOK, Is, Final, Item
<1> QED BY <1>1, <1>3, <1>4, <1>5, <1>6

(* A budget refusal is the first thing a turn hears of its run. *)
LEMMA Refusing ==
  ASSUME TypeOK, Pumped, Framed, PrimedRefusal, kind \in Turns
  PROVE  run = "failed" /\ made = 0 /\ wire = <<>>
<1>1. Holds(Taken) /\ wire = <<>> /\ head = Nothing /\ frame = Nothing /\ queue # <<>>
  BY DEF PrimedRefusal, Pumped, Framed, Reading
<1>2. Taken = 0 /\ Primed1 = 0
  <2>1. Len(wire) = 0 /\ frame.is # "chunk"
    BY <1>1, EmptySeq DEF Nothing, Item
  <2>2. Lead \in {0, 1}
    BY DEF Lead
  <2>3. Taken = 0
    BY <2>1, <2>2 DEF Taken, Started
  <2> QED BY <1>1, <2>3 DEF Primed1
<1>3. Is(queue[1], 1)
  BY <1>1, <1>2, EmptySeq, LenProperties DEF TypeOK, Holds
<1>4. queue[1].is = "budget"
  BY DEF PrimedRefusal, Refusal
<1> QED BY <1>1, <1>3, <1>4 DEF TypeOK, Is, Final, Item

-----------------------------------------------------------------------------
(* The rest of the phases and the outcomes. *)

LEMMA BegunNext ==
  ASSUME TypeOK, Phases, Fresh, Begun, Outcomes, Pumped, Framed, [Next]_vars
  PROVE  Begun'
<1> USE DEF TypeOK, Ats, Item, Nothing, Broken, Reading, Phases, Fresh, Begun, Outcomes, Framed
<1>1. CASE Arrives
  BY <1>1 DEF Arrives, TurnUnauthorized, TurnRefused, TurnStarts, RpcRefused, AdminRefused, RpcStarts, Refuse
<1>2. CASE Opens
  BY <1>2 DEF Opens, TurnLeased, TurnFails, TurnOpened, FailSpan, Release, Refuse, Outcome, EndSpan
<1>3. CASE Primes
  <2>1. CASE PrimedRefusal
    <3>1. run = "failed" /\ made = 0 /\ wire = <<>>
      BY <2>1, Refusing DEF PrimedRefusal
    <3> QED BY <2>1, <3>1 DEF PrimedRefusal, Keep, FailSpan, Outcome, EndSpan
  <2>2. CASE Primed \/ PrimeTimesOut
    BY <2>2 DEF Primed, PrimeTimesOut, Keep
  <2> QED BY <1>3, <2>1, <2>2 DEF Primes
<1>4. CASE Reads
  BY <1>4 DEF Reads, Get, Empty, Heartbeat, TakeChunk, TurnBreaks, TakeError, TakeEnd, Fenced, Recorded, Outcome
<1>5. CASE Calls
  BY <1>5 DEF Calls, RpcLeased, RpcGivesUp, RpcBreaks, NoHandler, Call, CallReturns, CallRaises, Answered,
              PageRead, Release, Refuse, OpenSpan, FailSpan, Outcome, EndSpan, Finish
<1>6. CASE Streams
  BY <1>6 DEF Streams, Stream, Frame, ErrorFrame, StreamEnds, StreamRaises, Outcome
<1>7. CASE Streaming
  BY <1>7 DEF Streaming, SendHeaders, Sent, Stop, Settle, Backstop, Drained, EndSpan,
              StopRun, RunDown, Release, FirstAwait
<1>8. CASE Runs
  BY <1>8 DEF Runs, Graph, Produce, RunCompletes, RunFails, Unwound, Finalized, Collected
<1>9. CASE Leaves
  BY <1>9 DEF Leaves, ClientLeaves, CutSend, CutAwait
<1>10. CASE UNCHANGED vars
  BY <1>10
<1> QED BY <1>1, <1>2, <1>3, <1>4, <1>5, <1>6, <1>7, <1>8, <1>9, <1>10, Steps

LEMMA OutcomesNext ==
  ASSUME TypeOK, Phases, Fresh, Begun, Outcomes, Pumped, Framed, [Next]_vars
  PROVE  Outcomes'
<1> USE DEF TypeOK, Ats, Ending, Reading, Item, Nothing, Broken, Phases, Fresh, Begun, Outcomes, Framed
<1>1. CASE Arrives
  BY <1>1 DEF Arrives, TurnUnauthorized, TurnRefused, TurnStarts, RpcRefused, AdminRefused, RpcStarts, Refuse
<1>2. CASE Opens
  BY <1>2 DEF Opens, TurnLeased, TurnFails, TurnOpened, FailSpan, Release, Refuse, Outcome, EndSpan
<1>3. CASE Primes
  BY <1>3 DEF Primes, Primed, PrimedRefusal, PrimeTimesOut, Keep, FailSpan, Outcome, EndSpan
<1>4. CASE Reads
  <2>1. CASE TakeError
    <3>1. run = "failed"
      BY <2>1, Taking DEF TakeError
    <3> QED BY <2>1, <3>1 DEF TakeError, Get, Outcome
  <2>2. CASE TakeEnd
    <3>1. run = "completed"
      BY <2>2, Taking DEF TakeEnd
    <3> QED BY <2>2, <3>1 DEF TakeEnd, Get, Outcome
  <2>3. CASE Empty \/ Heartbeat \/ TakeChunk \/ TurnBreaks \/ Fenced \/ Recorded
    BY <2>3 DEF Empty, Heartbeat, TakeChunk, TurnBreaks, Fenced, Recorded, Get, Outcome
  <2> QED BY <1>4, <2>1, <2>2, <2>3 DEF Reads
<1>5. CASE Calls
  BY <1>5 DEF Calls, RpcLeased, RpcGivesUp, RpcBreaks, NoHandler, Call, CallReturns, CallRaises, Answered,
              PageRead, Release, Refuse, OpenSpan, FailSpan, Outcome, EndSpan, Finish
<1>6. CASE Streams
  BY <1>6 DEF Streams, Stream, Frame, ErrorFrame, StreamEnds, StreamRaises, Outcome
<1>7. CASE Streaming
  BY <1>7 DEF Streaming, SendHeaders, Sent, Stop, Settle, Backstop, Drained, EndSpan,
              StopRun, RunDown, Release, FirstAwait
<1>8. CASE Runs
  BY <1>8 DEF Runs, Graph, Produce, RunCompletes, RunFails, Unwound, Finalized, Collected
<1>9. CASE Leaves
  BY <1>9 DEF Leaves, ClientLeaves, CutSend, CutAwait
<1>10. CASE UNCHANGED vars
  BY <1>10
<1> QED BY <1>1, <1>2, <1>3, <1>4, <1>5, <1>6, <1>7, <1>8, <1>9, <1>10, Steps

-----------------------------------------------------------------------------
(* What the pump holds, step by step. *)

LEMMA HoldsOn ==
  ASSUME Holds(Taken), UNCHANGED pump, Taken' = Taken
  PROVE  Holds(Taken)'
<1>1. PICK t : t = Taken
  OBVIOUS
<1>2. Holds(t)'
  BY <1>1 DEF Holds, Is, Final, Over, Primed1, Nothing
<1> QED BY <1>1, <1>2

LEMMA PumpedNext ==
  ASSUME TypeOK, Phases, Fresh, Begun, Pumped, Framed, [Next]_vars
  PROVE  Pumped'
<1> USE DEF Reading
<1>0. ASSUME ~(kind' \in Turns /\ (at' \in Reading \/ (at' = "send" /\ ~Terminal(frame'))))
      PROVE  Pumped'
  BY <1>0 DEF Pumped
<1>1. CASE Arrives
  BY <1>0, <1>1 DEF Arrives, TurnUnauthorized, TurnRefused, TurnStarts, RpcRefused, AdminRefused, RpcStarts, Refuse
<1>2. CASE Opens
  <2>1. CASE TurnOpened
    <3>1. /\ run' = "live" /\ made' = 0 /\ queue' = <<>> /\ head' = Nothing
          /\ wire' = <<>> /\ frame' = Nothing
      BY <2>1 DEF TurnOpened, Fresh
    <3>2. Taken' = 0 /\ Primed1' = 0 /\ Len(queue') = 0
      <4>1. Len(wire') = 0 /\ frame'.is # "chunk" /\ Lead' \in {0, 1} /\ Len(queue') = 0
        BY <3>1, EmptySeq DEF Nothing, Item, Lead
      <4>2. Taken' = 0
        <5>1. CASE Lead' = 0
          BY <4>1, <5>1 DEF Taken, Started
        <5>2. CASE Lead' = 1
          BY <4>1, <5>2 DEF Taken, Started
        <5> QED BY <4>1, <5>1, <5>2
      <4> QED BY <3>1, <4>1, <4>2 DEF Primed1, Nothing
    <3> QED BY <3>1, <3>2 DEF Pumped, Holds, Over, Nothing
  <2>2. CASE TurnLeased \/ TurnFails
    BY <1>0, <2>2 DEF TurnLeased, TurnFails, Refuse
  <2> QED BY <1>2, <2>1, <2>2 DEF Opens
<1>3. CASE Primes
  <2>0. at = "prime"
    BY <1>3 DEF Primes, Primed, PrimedRefusal, PrimeTimesOut
  <2>1. CASE Primed /\ kind \in Turns
    <3>1. /\ Holds(Taken) /\ Taken' = Taken /\ UNCHANGED <<run, made>>
          /\ queue # <<>> /\ head = Nothing /\ head' = Head(queue) /\ queue' = Tail(queue)
      BY <2>0, <2>1 DEF Primed, Keep, Pumped, Framed, Taken, Started, Lead
    <3>2. PICK t : t = Taken
      OBVIOUS
    <3>3. /\ Len(queue) \in Nat /\ Len(queue) >= 1 /\ Len(queue') = Len(queue) - 1
          /\ head' = queue[1]
          /\ \A i \in 1 .. Len(queue') : queue'[i] = queue[i + 1]
      BY <3>1, HeadTailProperties, EmptySeq, LenProperties DEF TypeOK
    <3>4. t = 0
      BY <2>0, <2>1, <3>2, EmptySeq DEF Framed, Taken, Started, Lead, Nothing, Item
    <3>5. Primed1 = 0
      BY <3>1 DEF Primed1
    <3>6. ASSUME NEW i \in 1 .. Len(queue) PROVE Is(queue[i], i)
      <4>1. t + Primed1 + i = i
        BY <3>3, <3>4, <3>5
      <4>2. Is(queue[i], t + Primed1 + i)
        BY <3>1, <3>2 DEF Holds
      <4> QED BY <4>1, <4>2
    <3>9. 1 \in 1 .. Len(queue) /\ \A i \in 1 .. Len(queue') : i + 1 \in 1 .. Len(queue)
      BY <3>3
    <3>10. Is(queue[1], 1) /\ \A i \in 1 .. Len(queue') : Is(queue'[i], i + 1)
      BY <3>3, <3>6, <3>9
    <3>11. t + Primed1 + Len(queue) = made + (IF Over THEN 1 ELSE 0) /\ t <= made
           /\ run \in {"live", "completed", "failed"}
      BY <3>1, <3>2 DEF Holds
    <3>7. Primed1' = 1
      <4>1. queue[1] # Nothing
        BY <3>10 DEF Is, Final, Nothing, Item
      <4> QED BY <3>3, <4>1 DEF Primed1, Nothing
    <3>12. \A x, n : Is(x, n) => Is(x, n)'
      BY <3>1 DEF Is, Final
    <3>13. \A i \in 1 .. Len(queue') : i + 1 = t + Primed1' + i
      BY <3>3, <3>4, <3>7
    <3>14. (t + Primed1 + Len(queue) = made + (IF Over THEN 1 ELSE 0))'
      <4>1. Len(queue) = made + (IF Over THEN 1 ELSE 0)
        BY <3>3, <3>4, <3>5, <3>11
      <4>2. t + Primed1' + Len(queue') = Len(queue)
        BY <3>3, <3>4, <3>7
      <4>3. Over' <=> Over
        BY <3>1 DEF Over
      <4> QED BY <3>1, <4>1, <4>2, <4>3
    <3>15. t + 1 = 1
      BY <3>4
    <3>8. Holds(t)'
      BY <3>1, <3>3, <3>10, <3>11, <3>12, <3>13, <3>14, <3>15 DEF Holds
    <3> QED BY <3>1, <3>2, <3>8 DEF Pumped
  <2>2. CASE PrimedRefusal
    BY <1>0, <2>2 DEF PrimedRefusal
  <2>3. CASE PrimeTimesOut /\ kind \in Turns
    BY <2>3, HoldsOn DEF PrimeTimesOut, Pumped, Taken, Started, Lead
  <2>4. CASE kind \notin Turns
    BY <2>0, <2>4 DEF Phases, TypeOK
  <2> QED BY <1>3, <2>1, <2>2, <2>3, <2>4 DEF Primes
<1>4. CASE Reads
  <2>1. CASE TakeChunk
    <3>1. PICK t \in Nat :
            /\ Started /\ t = Taken /\ t = Len(wire) - Lead
            /\ Next1 = Item("chunk", t + 1) /\ Holds(t + 1)'
      BY <2>1, Taking DEF TakeChunk
    <3>2. Taken' = t + 1
      BY <2>1, <3>1 DEF TakeChunk, Taken, Started, Lead, Item
    <3> QED BY <3>1, <3>2 DEF Pumped
  <2>2. CASE Empty \/ Heartbeat
    <3>2. CASE kind \in Turns
      <4>1. UNCHANGED <<kind, wire, pump>> /\ frame = Nothing /\ frame' \in {Nothing, Item("beat", 0)}
        BY <2>2, <3>2 DEF Empty, Heartbeat, Framed
      <4>3. frame.is # "chunk" /\ frame'.is # "chunk"
        BY <4>1 DEF Nothing, Item
      <4>2. Taken' = Taken
        BY <4>1, <4>3 DEF Taken, Started, Lead
      <4> QED BY <2>2, <3>2, <4>1, <4>2, HoldsOn DEF Empty, Heartbeat, Pumped
    <3>3. CASE kind \notin Turns
      BY <1>0, <2>2, <3>3 DEF Empty, Heartbeat
    <3> QED BY <3>2, <3>3
  <2>3. CASE TurnBreaks \/ TakeError \/ TakeEnd \/ Fenced \/ Recorded
    BY <1>0, <2>3 DEF TurnBreaks, TakeError, TakeEnd, Fenced, Recorded, Item, Get
  <2> QED BY <1>4, <2>1, <2>2, <2>3 DEF Reads
<1>5. CASE Calls
  BY <1>0, <1>5 DEF TypeOK, Phases, Calls, RpcLeased, RpcGivesUp, RpcBreaks, NoHandler, Call, CallReturns,
                    CallRaises, Answered, PageRead, Refuse
<1>6. CASE Streams
  BY <1>0, <1>6 DEF TypeOK, Phases, Streams, Stream, Frame, ErrorFrame, StreamEnds, StreamRaises
<1>7. CASE Streaming
  <2>1. CASE SendHeaders /\ kind \in Turns
    <3>1. Holds(Taken) /\ UNCHANGED pump
      BY <2>1 DEF SendHeaders, Pumped
    <3>2. /\ UNCHANGED <<kind, wire>> /\ frame = Nothing /\ frame' \in {Nothing, Item("start", 0)}
      BY <2>1 DEF SendHeaders, Framed
    <3>4. frame.is # "chunk" /\ frame'.is # "chunk"
      BY <3>2 DEF Nothing, Item
    <3>3. Taken' = Taken
      BY <3>2, <3>4 DEF Taken, Started, Lead
    <3> QED BY <2>1, <3>1, <3>3, HoldsOn DEF SendHeaders, Pumped
  <2>2. CASE Sent /\ kind \in Turns /\ ~Terminal(frame)
    <3>1. Holds(Taken) /\ UNCHANGED pump
      BY <2>2 DEF Sent, Pumped
    <3>2. Taken' = Taken
      <4>1. Lead \in {0, 1} /\ Lead' = Lead /\ frame'.is = "none" /\ Len(wire) \in Nat
        BY <2>2, LenProperties DEF Sent, Lead, Nothing, Item, TypeOK
      <4>2. CASE frame = Item("start", 0) /\ kind # "native" /\ wire = <<>>
        <5>1. Len(wire) = 0 /\ Len(wire') = 1 /\ Lead = 1 /\ frame.is = "start"
          BY <2>2, <4>2, LenProperties, EmptySeq DEF Sent, Lead, Item
        <5> QED BY <4>1, <5>1 DEF Taken, Started
      <4>3. CASE frame = Item("beat", 0) /\ Started
        <5>1. wire' = wire /\ frame.is = "beat"
          BY <2>2, <4>3 DEF Sent, Item
        <5> QED BY <4>1, <4>3, <5>1 DEF Taken, Started
      <4>4. CASE Started /\ frame = Item("chunk", Len(wire) - Lead + 1)
        <5>1. Len(wire') = Len(wire) + 1 /\ frame.is = "chunk"
          BY <2>2, <4>4, LenProperties DEF Sent, Item, TypeOK
        <5> QED BY <4>1, <4>4, <5>1 DEF Taken, Started
      <4> QED BY <2>2, <4>2, <4>3, <4>4 DEF Sent, Framed, Item
    <3> QED BY <3>1, <3>2, HoldsOn DEF Pumped
  <2>3. CASE Sent /\ kind \in Turns /\ Terminal(frame)
    BY <1>0, <2>3 DEF Sent
  <2>4. CASE (SendHeaders \/ Sent) /\ kind \notin Turns
    BY <1>0, <2>4 DEF SendHeaders, Sent
  <2>5. CASE Stop \/ Settle \/ Backstop \/ Drained
    BY <1>0, <2>5 DEF Stop, Settle, Backstop, Drained
  <2> QED BY <1>7, <2>1, <2>2, <2>3, <2>4, <2>5 DEF Streaming
<1>8. CASE Runs
  <2>1. CASE Graph
    <3>1. UNCHANGED <<kind, at, frame, wire, head>> /\ run = "live" /\ Taken' = Taken
      BY <2>1 DEF Graph, Produce, RunCompletes, RunFails, Taken, Started, Lead
    <3>2. CASE kind \in Turns /\ (at \in Reading \/ (at = "send" /\ ~Terminal(frame)))
      <4>1. Holds(Taken)
        BY <3>2 DEF Pumped
      <4>2. Taken \in Nat
        BY LenProperties DEF Taken, Started, Lead, TypeOK
      <4>3. PICK t \in Nat : t = Taken
        BY <4>2
      <4>4. PICK item :
              /\ queue' = Append(queue, item)
              /\ \/ made' = made + 1 /\ run' = run /\ item = Item("chunk", made + 1)
                 \/ made' = made /\ run' \in {"completed", "failed"} /\ Final(item)'
        BY <2>1 DEF Graph, Produce, RunCompletes, RunFails, Put, Final
      <4>5. Holds(t)'
        BY <3>1, <4>1, <4>3, <4>4, Produced
      <4> QED BY <3>1, <4>3, <4>5 DEF Pumped
    <3>3. CASE ~(kind \in Turns /\ (at \in Reading \/ (at = "send" /\ ~Terminal(frame))))
      BY <1>0, <3>1, <3>3
    <3> QED BY <3>2, <3>3
  <2>2. CASE Unwound \/ Collected
    BY <1>0, <2>2 DEF Unwound, Collected, Pumped, Holds
  <2>3. CASE Finalized
    BY <2>3, HoldsOn DEF Finalized, Pumped, Taken, Started, Lead
  <2> QED BY <1>8, <2>1, <2>2, <2>3 DEF Runs
<1>9. CASE Leaves
  <2>1. CASE ClientLeaves
    BY <2>1, HoldsOn DEF ClientLeaves, Pumped, Taken, Started, Lead
  <2>2. CASE CutSend \/ CutAwait
    BY <1>0, <2>2 DEF CutSend, CutAwait
  <2> QED BY <1>9, <2>1, <2>2 DEF Leaves
<1>10. CASE UNCHANGED vars
  BY <1>10, HoldsOn DEF Pumped, Taken, Started, Lead
<1> QED BY <1>1, <1>2, <1>3, <1>4, <1>5, <1>6, <1>7, <1>8, <1>9, <1>10, Steps

-----------------------------------------------------------------------------
(* The frame in flight. *)

LEMMA FramedNext ==
  ASSUME TypeOK, Phases, Fresh, Begun, Pumped, Framed, [Next]_vars
  PROVE  Framed'
<1> USE DEF Reading
<1>0. ASSUME kind' \notin Turns \/ at' \notin Reading \cup {"fence", "record", "send"}
      PROVE  Framed'
  BY <1>0 DEF Framed
<1>1. CASE Arrives
  BY <1>0, <1>1 DEF Arrives, TurnUnauthorized, TurnRefused, TurnStarts, RpcRefused, AdminRefused, RpcStarts, Refuse
<1>2. CASE Opens
  <2>1. CASE TurnOpened
    BY <2>1 DEF TurnOpened, Fresh, Framed
  <2>2. CASE TurnLeased \/ TurnFails
    BY <1>0, <2>2 DEF TurnLeased, TurnFails, Refuse
  <2> QED BY <1>2, <2>1, <2>2 DEF Opens
<1>3. CASE Primes
  BY <1>0, <1>3 DEF Primes, Primed, PrimedRefusal, PrimeTimesOut, Keep, Framed
<1>4. CASE Reads
  <2>1. CASE TakeChunk
    <3>1. Started /\ Next1 = Item("chunk", Len(wire) - Lead + 1)
      BY <2>1, Taking DEF TakeChunk
    <3> QED BY <2>1, <3>1 DEF TakeChunk, Framed, Started, Lead
  <2>2. CASE TakeError \/ TakeEnd
    <3>1. /\ Started /\ Len(wire) = Lead + made
          /\ TakeError => run = "failed"
          /\ TakeEnd => run = "completed"
      <4>1. Len(wire) \in Nat /\ Lead \in {0, 1}
        BY LenProperties DEF TypeOK, Lead
      <4>2. PICK t \in Nat :
              /\ Started /\ t = Len(wire) - Lead /\ t = made
              /\ TakeError => run = "failed"
              /\ TakeEnd => run = "completed"
        BY <2>2, Taking DEF TakeError, TakeEnd
      <4> QED BY <4>1, <4>2
    <3>2. CASE TakeError
      BY <3>1, <3>2 DEF TakeError, Framed, Started, Lead, TellsEnd, Item
    <3>3. CASE TakeEnd
      BY <3>1, <3>3 DEF TakeEnd, Framed, Started, Lead, Get
    <3> QED BY <2>2, <3>2, <3>3
  <2>3. CASE TurnBreaks
    BY <1>0, <2>3 DEF TurnBreaks
  <2>4. CASE Empty \/ Fenced
    BY <2>4 DEF Empty, Fenced, Framed, Started, Lead
  <2>5. CASE Heartbeat \/ Recorded
    BY <2>5 DEF Heartbeat, Recorded, Framed, Started, Lead, TellsEnd, Item
  <2> QED BY <1>4, <2>1, <2>2, <2>3, <2>4, <2>5 DEF Reads
<1>5. CASE Calls
  BY <1>0, <1>5 DEF TypeOK, Phases, Calls, RpcLeased, RpcGivesUp, RpcBreaks, NoHandler, Call, CallReturns,
                    CallRaises, Answered, PageRead, Refuse
<1>6. CASE Streams
  BY <1>0, <1>6 DEF TypeOK, Phases, Streams, Stream, Frame, ErrorFrame, StreamEnds, StreamRaises
<1>7. CASE Streaming
  <2>1. CASE SendHeaders /\ kind \in Turns
    <3>1. wire = <<>> /\ wire' = wire /\ kind' = kind
      BY <2>1 DEF SendHeaders, Framed
    <3>2. kind = "native" => Started'
      BY <3>1, EmptySeq DEF Started, Lead
    <3> QED BY <2>1, <3>1, <3>2 DEF SendHeaders, FirstAwait, Framed, Item
  <2>2. CASE Sent /\ kind \in Turns /\ ~Terminal(frame)
    <3>1. Started'
      <4>1. Len(wire) \in Nat /\ Lead \in {0, 1} /\ Lead' = Lead
        BY <2>2, LenProperties DEF TypeOK, Sent, Lead
      <4>2. Len(wire') = Len(wire) \/ Len(wire') = Len(wire) + 1
        BY <2>2, LenProperties DEF TypeOK, Sent
      <4>3. CASE Started
        BY <4>1, <4>2, <4>3 DEF Started
      <4>4. CASE frame.is = "start"
        <5>1. Len(wire') = Len(wire) + 1
          BY <2>2, <4>4, LenProperties DEF TypeOK, Sent
        <5> QED BY <4>1, <5>1 DEF Started
      <4> QED BY <2>2, <4>3, <4>4 DEF Sent, Framed, Item
    <3> QED BY <2>2, <3>1 DEF Sent, FirstAwait, Framed
  <2>3. CASE Sent /\ Terminal(frame)
    BY <1>0, <2>3 DEF Sent
  <2>4. CASE (SendHeaders \/ Sent) /\ kind \notin Turns
    BY <1>0, <2>4 DEF SendHeaders, Sent
  <2>5. CASE Stop \/ Settle \/ Backstop \/ Drained
    BY <1>0, <2>5 DEF Stop, Settle, Backstop, Drained
  <2> QED BY <1>7, <2>1, <2>2, <2>3, <2>4, <2>5 DEF Streaming
<1>8. CASE Runs
  <2>1. CASE Graph \/ Unwound \/ Collected
    <3>1. run \notin {"completed", "failed"} /\ UNCHANGED <<kind, at, frame, wire>>
          /\ (at = "prime" => UNCHANGED head)
      BY <2>1 DEF Graph, Produce, RunCompletes, RunFails, Unwound, Collected
    <3>2. ~TellsEnd(frame)
      BY <3>1 DEF TellsEnd
    <3> QED BY <3>1, <3>2 DEF Framed, Started, Lead
  <2>2. CASE Finalized
    BY <2>2 DEF Finalized, Framed, Started, Lead, TellsEnd
  <2> QED BY <1>8, <2>1, <2>2 DEF Runs
<1>9. CASE Leaves
  <2>1. CASE ClientLeaves
    BY <2>1 DEF ClientLeaves, Framed, Started, Lead, TellsEnd
  <2>2. CASE CutSend \/ CutAwait
    BY <1>0, <2>2 DEF CutSend, CutAwait
  <2> QED BY <1>9, <2>1, <2>2 DEF Leaves
<1>10. CASE UNCHANGED vars
  BY <1>10 DEF Framed, Started, Lead, TellsEnd
<1> QED BY <1>1, <1>2, <1>3, <1>4, <1>5, <1>6, <1>7, <1>8, <1>9, <1>10, Steps

-----------------------------------------------------------------------------
(* The wire. *)

(* A wire nothing is added to stays in order while the run goes on. *)
LEMMA WireSame ==
  ASSUME TypeOK, \A i \in 1 .. Len(wire) : InOrder(i), UNCHANGED <<kind, wire>>,
         \/ run' = run /\ made' = made
         \/ run \notin {"completed", "failed"} /\ made' \in {made, made + 1}
  PROVE  (\A i \in 1 .. Len(wire) : InOrder(i))'
<1> SUFFICES ASSUME NEW i \in 1 .. Len(wire) PROVE InOrder(i)'
  OBVIOUS
<1>1. InOrder(i) /\ Lead' = Lead /\ Lead \in {0, 1} /\ Len(wire) \in Nat
  BY LenProperties DEF TypeOK, Lead
<1>2. TellsEnd(wire[i]) => run' = run /\ made' = made
  BY DEF TellsEnd
<1>3. i - Lead <= made => i - Lead <= made'
  BY <1>1 DEF TypeOK
<1> QED BY <1>1, <1>2, <1>3 DEF InOrder, TellsEnd

LEMMA WireGrows ==
  ASSUME TypeOK, Pumped, Framed, Wired, Sent, kind \in Turns
  PROVE  (\A i \in 1 .. Len(wire) : InOrder(i))'
<1>1. Lead' = Lead /\ Lead \in {0, 1} /\ Len(wire) \in Nat /\ UNCHANGED <<kind, run, made>>
  BY LenProperties DEF TypeOK, Lead, Sent
<1>2. CASE frame.is = "beat"
  BY <1>2, WireSame DEF Sent, Wired
<1>3. CASE frame.is # "beat"
  <2>1. /\ Len(wire') = Len(wire) + 1 /\ wire'[Len(wire) + 1] = frame
        /\ \A i \in 1 .. Len(wire) : wire'[i] = wire[i]
    BY <1>3, LenProperties DEF TypeOK, Sent
  <2>2. Len(wire) <= Lead + made
    <3>1. CASE Terminal(frame)
      BY <1>1, <3>1 DEF TypeOK, Framed, Sent, Item
    <3>2. CASE ~Terminal(frame)
      <4>1. Taken <= made
        BY <3>2 DEF Pumped, Holds, Sent
      <4>2. frame.is = "chunk" \/ Len(wire) = 0
        BY <1>3, <3>2, EmptySeq DEF Framed, Sent, Item
      <4>3. CASE frame.is = "chunk" /\ Started
        BY <1>1, <4>1, <4>3 DEF TypeOK, Taken
      <4>4. CASE ~Started
        BY <1>1, <4>4 DEF TypeOK, Started
      <4>5. CASE Len(wire) = 0
        BY <1>1, <4>5 DEF TypeOK
      <4> QED BY <4>2, <4>3, <4>4, <4>5
    <3> QED BY <3>1, <3>2
  <2>3. ASSUME NEW i \in 1 .. Len(wire) PROVE InOrder(i)'
    <3>1. InOrder(i) /\ i - Lead # made + 1
      BY <1>1, <2>2 DEF TypeOK, Wired
    <3> QED BY <1>1, <2>1, <3>1 DEF InOrder
  <2>4. PICK last \in Nat : last = Len(wire) + 1
    BY <1>1
  <2>5. InOrder(last)'
    <3>1. CASE frame = Item("start", 0) /\ kind # "native" /\ wire = <<>>
      <4>1. Lead' = 1 /\ last = 1 /\ wire'[last].is = "start"
        BY <1>1, <2>1, <2>4, <3>1, EmptySeq DEF Lead, Item
      <4> QED BY <4>1 DEF InOrder
    <3>2. CASE Started /\ frame = Item("chunk", Len(wire) - Lead + 1)
      <4>1. Taken = Len(wire) - Lead + 1 /\ Taken <= made
        <5>1. frame.is = "chunk" /\ ~Terminal(frame)
          BY <3>2 DEF Item
        <5>2. Taken = Len(wire) - Lead + 1
          BY <3>2, <5>1 DEF Taken
        <5> QED BY <5>1, <5>2 DEF Pumped, Holds, Sent
      <4>2. last > Lead' /\ last - Lead' <= made' /\ wire'[last] = Item("chunk", last - Lead')
        <5>1. last > Lead /\ last - Lead = Len(wire) - Lead + 1
          BY <1>1, <2>4, <3>2 DEF Started
        <5> QED BY <1>1, <2>1, <2>4, <3>2, <4>1, <5>1
      <4> QED BY <4>2 DEF InOrder
    <3>3. CASE TellsEnd(frame) /\ Len(wire) = Lead + made
      <4>1. last = Len(wire') /\ last - Lead' = made' + 1
        BY <1>1, <2>1, <2>4, <3>3 DEF TypeOK
      <4>2. TellsEnd(wire[last])'
        BY <1>1, <2>1, <2>4, <3>3 DEF TellsEnd
      <4> QED BY <4>1, <4>2 DEF InOrder
    <3> QED BY <1>3, <3>1, <3>2, <3>3 DEF Framed, Sent, Item
  <2> QED BY <1>1, <2>1, <2>3, <2>4, <2>5
<1> QED BY <1>2, <1>3

LEMMA WiredNext ==
  ASSUME TypeOK, Phases, Fresh, Begun, Pumped, Framed, Wired, [Next]_vars
  PROVE  Wired'
<1> USE DEF Ending
<1>1. kind' \in Turns => (\A i \in 1 .. Len(wire) : InOrder(i))'
  <2> SUFFICES ASSUME kind' \in Turns PROVE (\A i \in 1 .. Len(wire) : InOrder(i))'
    OBVIOUS
  <2>1. CASE Arrives
    <3>1. wire' = <<>>
      BY <2>1 DEF Arrives, TurnUnauthorized, TurnRefused, TurnStarts, RpcRefused, AdminRefused, RpcStarts, Fresh
    <3>2. Len(wire') = 0
      BY <3>1, EmptySeq
    <3> QED BY <3>2
  <2>2. CASE Sent
    BY <2>2, WireGrows DEF Sent
  <2>3. CASE ~Arrives /\ ~Sent
    <3>1. UNCHANGED <<kind, wire>>
      BY <2>3, Steps DEF Arrives, Opens, TurnLeased, TurnFails, TurnOpened,
           Primes, Primed, PrimedRefusal, PrimeTimesOut, Keep,
           Reads, Empty, Heartbeat, TakeChunk, TurnBreaks, TakeError, TakeEnd, Fenced, Recorded,
           Calls, RpcLeased, RpcGivesUp, RpcBreaks, NoHandler, Call, CallReturns, CallRaises, Answered, PageRead,
           Streams, Stream, Frame, ErrorFrame, StreamEnds, StreamRaises,
           Streaming, SendHeaders, Stop, Settle, Backstop, Drained,
           Runs, Graph, Produce, RunCompletes, RunFails, Unwound, Finalized, Collected,
           Leaves, ClientLeaves, CutSend, CutAwait
    <3>2. \/ run' = run /\ made' = made
          \/ run \notin {"completed", "failed"} /\ made' \in {made, made + 1}
      <4>1. CASE Opens \/ Primes \/ Reads
        BY <4>1 DEF Opens, TurnLeased, TurnFails, TurnOpened, Fresh,
             Primes, Primed, PrimedRefusal, PrimeTimesOut, Keep,
             Reads, Empty, Heartbeat, TakeChunk, TurnBreaks, TakeError, TakeEnd, Fenced, Recorded
      <4>2. CASE Calls \/ Streams
        BY <3>1, <4>2 DEF TypeOK, Phases, Fresh, Begun, Calls, RpcLeased, RpcGivesUp, RpcBreaks, NoHandler,
             Call, CallReturns, CallRaises, Answered, PageRead,
             Streams, Stream, Frame, ErrorFrame, StreamEnds, StreamRaises
      <4>3. CASE Streaming \/ Runs \/ Leaves
        BY <3>1, <4>3 DEF Streaming, SendHeaders, Sent, Stop, Settle, Backstop, Drained, StopRun,
             Runs, Graph, Produce, RunCompletes, RunFails, Unwound, Finalized, Collected,
             Leaves, ClientLeaves, CutSend, CutAwait
      <4> QED BY <2>3, <4>1, <4>2, <4>3, Steps
    <3> QED BY <3>1, <3>2, WireSame DEF Wired
  <2> QED BY <2>1, <2>2, <2>3
<1>2. kind' \in Turns /\ at' \in Ending \cup {"over"} /\ status' = "ok" /\ ~cut' =>
        frame' = Broken \/ (wire' # <<>> /\ Terminal(wire[Len(wire)])')
  <2> SUFFICES ASSUME kind' \in Turns, at' \in Ending \cup {"over"}, status' = "ok", ~cut'
               PROVE  frame' = Broken \/ (wire' # <<>> /\ Terminal(wire[Len(wire)])')
    OBVIOUS
  <2>1. CASE Sent
    <3>1. Terminal(frame) /\ wire' = Append(wire, frame) /\ kind' = kind
      BY <2>1 DEF Sent, FirstAwait, Item
    <3>2. wire' # <<>> /\ wire'[Len(wire')] = frame
      BY <3>1, LenProperties, AppendProperties, EmptySeq DEF TypeOK
    <3> QED BY <3>1, <3>2
  <2>2. CASE at \in Ending \cup {"over"} /\ ~Sent
    <3>1. CASE Arrives \/ Opens \/ Primes \/ Reads
      BY <2>2, <3>1 DEF Arrives, TurnUnauthorized, TurnRefused, TurnStarts, RpcRefused,
           AdminRefused, RpcStarts, Opens, TurnLeased, TurnFails, TurnOpened,
           Primes, Primed, PrimedRefusal, PrimeTimesOut,
           Reads, Empty, Heartbeat, TakeChunk, TurnBreaks, TakeError, TakeEnd, Fenced, Recorded, Get
    <3>2. CASE Calls \/ Streams
      BY <2>2, <3>2 DEF Calls, RpcLeased, RpcGivesUp, RpcBreaks, NoHandler, Call, CallReturns, CallRaises,
           Answered, PageRead, Streams, Stream, Frame, ErrorFrame, StreamEnds, StreamRaises
    <3>3. CASE Streaming \/ Runs
      <4>1. UNCHANGED <<kind, status, frame, wire, cut>>
        BY <2>2, <3>3 DEF Streaming, SendHeaders, Stop, Settle, Backstop, Drained,
             Runs, Graph, Produce, RunCompletes, RunFails, Unwound, Finalized, Collected
      <4> QED BY <2>2, <4>1 DEF Wired
    <3>4. CASE Leaves \/ UNCHANGED vars
      BY <2>2, <3>4 DEF Leaves, ClientLeaves, CutSend, CutAwait, Wired
    <3> QED BY <3>1, <3>2, <3>3, <3>4, Steps
  <2>3. CASE at \notin Ending \cup {"over"} /\ ~Sent
    <3>1. CASE Arrives \/ Opens \/ Primes
      BY <2>3, <3>1 DEF Arrives, TurnUnauthorized, TurnRefused, TurnStarts, RpcRefused, AdminRefused,
           RpcStarts, Refuse, Opens, TurnLeased, TurnFails, TurnOpened, Primes, Primed, PrimedRefusal, PrimeTimesOut
    <3>2. CASE Reads
      BY <2>3, <3>2 DEF Reads, Empty, Heartbeat, TakeChunk, TurnBreaks, TakeError, TakeEnd, Fenced, Recorded, Get
    <3>3. CASE Calls \/ Streams
      BY <2>3, <3>3 DEF TypeOK, Phases, Calls, RpcLeased, RpcGivesUp, RpcBreaks, NoHandler, Call, CallReturns,
           CallRaises, Answered, PageRead, Refuse, Streams, Stream, Frame, ErrorFrame, StreamEnds, StreamRaises
    <3>4. CASE Streaming \/ Runs
      BY <2>3, <3>4 DEF Streaming, SendHeaders, FirstAwait, Stop, Settle, Backstop, Drained,
           Runs, Graph, Produce, RunCompletes, RunFails, Unwound, Finalized, Collected
    <3>5. CASE Leaves \/ UNCHANGED vars
      BY <2>3, <3>5 DEF Leaves, ClientLeaves, CutSend, CutAwait
    <3> QED BY <2>3, <3>1, <3>2, <3>3, <3>4, <3>5, Steps
  <2> QED BY <2>1, <2>2, <2>3
<1> QED BY <1>1, <1>2 DEF Wired

-----------------------------------------------------------------------------
LEMMA InitInv == Init => IInv
<1> SUFFICES ASSUME Init PROVE IInv
  OBVIOUS
<1> USE ChunksAssumption, ItemTyped, EmptySeq DEF Init
<1>1. TypeOK
  <2>1. <<>> \in Seq(Items) /\ 0 \in 0 .. MaxChunks
    OBVIOUS
  <2> QED BY <2>1 DEF TypeOK, Ats
<1>2. Phases /\ Fresh /\ Begun /\ Outcomes /\ Leases
  BY DEF Phases, Fresh, Begun, Outcomes, Leases, Ending, Reading, Nothing, Broken, Item
<1>3. Pumped /\ Framed /\ Wired
  BY DEF Pumped, Framed, Wired
<1> QED BY <1>1, <1>2, <1>3 DEF IInv

LEMMA NextInv == IInv /\ [Next]_vars => IInv'
BY TypeNext, PhasesNext, FreshNext, BegunNext, PumpedNext, FramedNext, WiredNext, OutcomesNext, LeasesNext DEF IInv

(* IInv holds throughout, whatever the request, the engine and the client do. *)
THEOREM Invariance == Spec => []IInv
BY InitInv, NextInv, PTL DEF Spec

(* The variables keep their types. *)
THEOREM TypesOK == Spec => []TypeOK
BY Invariance, PTL DEF IInv

LEMMA Wire == IInv => WireInOrder
<1> SUFFICES ASSUME IInv, kind \in Turns PROVE WireInOrder
  BY DEF WireInOrder
<1>1. \A i \in 1 .. Len(wire) : InOrder(i)
  BY DEF IInv, Wired
<1>2. status = "budget" => wire = <<>> /\ made = 0
  BY DEF IInv, Begun
<1>3. at = "over" /\ status = "ok" /\ ~cut =>
        frame = Broken \/ (wire # <<>> /\ Terminal(wire[Len(wire)]))
  BY DEF IInv, Wired
<1> QED BY <1>1, <1>2, <1>3 DEF WireInOrder

(* What the client of a turn reads is its run, in order and once, with the *)
(* end that run had (WireInOrder): ChunkPump and the two event streams,    *)
(* with their timers.                                                      *)
THEOREM OrderedWire == Spec => []WireInOrder
BY Invariance, Wire, PTL

LEMMA Truth == IInv => SpanTruth
BY DEF IInv, SpanTruth, TypeOK, Outcomes

(* An ended span says what became of its request (SpanTruth): TurnSpan and *)
(* all who complete, fail or end it.                                       *)
THEOREM TruthfulSpan == Spec => []SpanTruth
BY Invariance, Truth, PTL

LEMMA Spans == IInv => LeaseSpansRun
<1> SUFFICES ASSUME IInv, lease = "free", kind \in Turns PROVE LeaseSpansRun
  BY DEF LeaseSpansRun
<1> QED BY DEF IInv, TypeOK, Leases, LeaseSpansRun

(* A turn's runtime is given back when its run has ended or has been told  *)
(* to, a resume's only when it has ended (LeaseSpansRun): every release of *)
(* the lease, in whatever order they come.                                 *)
THEOREM LeaseOutlivesRun == Spec => []LeaseSpansRun
BY Invariance, Spans, PTL

-----------------------------------------------------------------------------
(* The refinement: an initial state is one of TracedRequest, a step is one *)
(* of its steps (TracedRequest!Next allows for a stutter).                 *)

LEMMA PromiseInit == Init => Promise!Init
BY DEF Init, Promise!Init

LEMMA PromiseNext ==
  ASSUME IInv, [Next]_vars
  PROVE  Promise!Next
<1> USE DEF IInv, TypeOK, Ats, Ending, Reading, Phases, Fresh, Begun, Outcomes, Leases, Broken, Nothing, Item,
        Promise!Next, Promise!SpanOpens, Promise!SpanEnds, Promise!LeaseTaken, Promise!LeaseFreed,
        Promise!LeaseFreedEarly, Promise!WorkStarts, Promise!WorkEnds, Promise!WorkDropped,
        Promise!DroppedCloses, Promise!Answers
<1>1. CASE Arrives
  BY <1>1 DEF Arrives, TurnUnauthorized, TurnRefused, TurnStarts, RpcRefused, AdminRefused, RpcStarts, Refuse
<1>2. CASE Opens
  BY <1>2 DEF Opens, TurnLeased, TurnFails, TurnOpened, FailSpan, Release, Refuse, Outcome, EndSpan
<1>3. CASE Primes
  BY <1>3 DEF Primes, Primed, PrimedRefusal, PrimeTimesOut, Keep, FailSpan, Outcome, EndSpan
<1>4. CASE Reads
  BY <1>4 DEF Reads, Get, Empty, Heartbeat, TakeChunk, TurnBreaks, TakeError, TakeEnd, Fenced, Recorded, Outcome
<1>5. CASE Calls
  BY <1>5 DEF Calls, RpcLeased, RpcGivesUp, RpcBreaks, NoHandler, Call, CallReturns, CallRaises, Answered,
              PageRead, Release, Refuse, OpenSpan, FailSpan, Outcome, EndSpan, Finish
<1>6. CASE Streams
  BY <1>6 DEF Streams, Stream, Frame, ErrorFrame, StreamEnds, StreamRaises, Outcome
<1>7. CASE Streaming
  <2>1. CASE SendHeaders \/ Sent
    BY <2>1 DEF SendHeaders, Sent
  <2>2. CASE Stop \/ Backstop
    BY <2>2 DEF Stop, Backstop, EndSpan, StopRun
  <2>3. CASE Settle \/ Drained
    BY <2>3 DEF Settle, Drained, RunDown, Release
  <2> QED BY <1>7, <2>1, <2>2, <2>3 DEF Streaming
<1>8. CASE Runs
  BY <1>8 DEF Runs, Graph, Produce, RunCompletes, RunFails, Unwound, Finalized, Collected
<1>9. CASE Leaves
  BY <1>9 DEF Leaves, ClientLeaves, CutSend, CutAwait
<1>10. CASE UNCHANGED vars
  BY <1>10
<1> QED BY <1>1, <1>2, <1>3, <1>4, <1>5, <1>6, <1>7, <1>8, <1>9, <1>10, Steps

(* Every kind of request is, step by step, what TracedRequest promises of  *)
(* a request (Promised), which lets the lease of a dropped A2A stream go   *)
(* before the stream is closed.                                            *)
THEOREM Refinement == Spec => Promised
<1>1. Init => Promise!Init
  BY PromiseInit
<1>2. IInv /\ [Next]_vars => [Promise!Next]_(Promise!vars)
  BY PromiseNext
<1> QED BY <1>1, <1>2, Invariance, PTL DEF Spec, Promised, Promise!Spec
===============================================================================
