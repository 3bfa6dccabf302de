--------------------------- MODULE WsSessionProofs ---------------------------
(***************************************************************************)
(* Proofs about WsSession, for conversations of any length, runs of any    *)
(* length and a pump of any size.                                          *)
(*                                                                         *)
(* The inductive invariant has four parts beside the types.  Senders: a    *)
(* frame at the send lock belongs to a task that is waiting there, which   *)
(* has no second one.  Stages: the turns are taken in the order of their   *)
(* numbers, one that may still produce events is the current one and the   *)
(* flag is set, and so it is while a graph runs.  Order: the frames on the *)
(* wire and those at the lock are one conversation, and while the flag is  *)
(* set or a cancel is under way the current turn has no terminal frame     *)
(* among them.  Manners: a polite message follows a terminal frame.        *)
(***************************************************************************)
EXTENDS WsSession, SequenceTheorems, TLAPS

Frames == [who : {"turn", "loop", "beat"}, turn : 0 .. MaxTurns,
           kind : {"event", "end", "refusal", "close", "pong", "beat"}]

(* Who sends a frame, and where it waits for the lock. *)
SentByTurn(f) ==
  /\ f.turn \in Turns
  /\ \/ f.kind = "event" /\ pc[f.turn] = "sending"
     \/ f.kind = "end" /\ pc[f.turn] = "ending"
     \/ f.kind = "refusal" /\ pc[f.turn] = "failing"
SentByLoop(f) ==
  \/ f.kind = "pong" /\ f.turn = 0 /\ loop = "pong"
  \/ f.kind = "close" /\ f.turn = 0 /\ loop = "closing"
  \/ f.kind = "end" /\ f.turn = cur /\ loop = "answering"
SentByBeat(f) == f.kind = "beat" /\ f.turn = 0 /\ beat = "sending"

SameSender(f, g) == f.who = g.who /\ (f.who = "turn" => f.turn = g.turn)

Senders ==
  /\ \A i \in DOMAIN outq :
       /\ outq[i].who = "turn" => SentByTurn(outq[i])
       /\ outq[i].who = "loop" => SentByLoop(outq[i])
       /\ outq[i].who = "beat" => SentByBeat(outq[i])
  /\ \A i, j \in DOMAIN outq : SameSender(outq[i], outq[j]) => i = j

Heard(i) == inbox[i][1] = "message"

Stage(t) ==
  /\ t > spoken => pc[t] = "idle"
  /\ t > cur => pc[t] \in {"idle", "refused"}
  /\ pc[t] \in {"opening", "building", "streaming", "sending"} => busy /\ cur = t
  /\ run[t] = "live" => busy /\ cur = t /\ pc[t] \in {"streaming", "sending", "closing"}
  /\ \A i \in DOMAIN queue[t] : queue[t][i] # "chunk" => run[t] = "over"
  /\ pc[t] \in {"idle", "opening", "building"} => queue[t] = <<>>

Stages ==
  /\ cur <= spoken
  /\ busy => cur \in Turns
  /\ loop = "cancelling" => cur \in Turns /\ cancelled[cur]
  /\ \A t \in Turns : Stage(t)
  /\ \A i \in DOMAIN inbox :
       Heard(i) => cur < inbox[i][2] /\ inbox[i][2] <= spoken /\ pc[inbox[i][2]] = "idle"
  /\ \A i, j \in DOMAIN inbox : i < j /\ Heard(i) /\ Heard(j) => inbox[i][2] < inbox[j][2]

(* The current turn has not ended for the client. *)
Unended == busy \/ loop = "cancelling"

Order ==
  /\ Conversation
  /\ \A i \in DOMAIN wire :
       wire[i][1] <= cur /\ (wire[i][2] = "end" /\ Unended => wire[i][1] < cur)
  /\ \A k \in DOMAIN outq : outq[k].turn # 0 =>
       /\ outq[k].turn <= cur
       /\ outq[k].kind # "event" /\ Unended => outq[k].turn < cur
       /\ \A i \in DOMAIN wire : /\ wire[i][1] <= outq[k].turn
                                 /\ wire[i][2] = "end" => wire[i][1] < outq[k].turn
  /\ \A k, l \in DOMAIN outq : k < l /\ outq[k].turn # 0 /\ outq[l].turn # 0 =>
       /\ outq[k].turn <= outq[l].turn
       /\ outq[k].kind # "event" => outq[k].turn < outq[l].turn

Manners ==
  \A t \in polite : /\ t <= spoken /\ pc[t] # "refused"
                    /\ t = 1 \/ Ended(t - 1)

IInv == TypeOK /\ Senders /\ Stages /\ Order /\ Manners

-----------------------------------------------------------------------------
(* Sequences: r is q without some of its elements, in their order. *)

Sub(r, q) ==
  \E h \in [1 .. Len(r) -> 1 .. Len(q)] :
    /\ \A i, j \in 1 .. Len(r) : i < j => h[i] < h[j]
    /\ \A i \in 1 .. Len(r) : r[i] = q[h[i]]

LEMMA SubSelf ==
  ASSUME NEW S, NEW q \in Seq(S)
  PROVE  Sub(q, q)
<1> DEFINE h == [i \in 1 .. Len(q) |-> i]
<1>1. h \in [1 .. Len(q) -> 1 .. Len(q)]
  OBVIOUS
<1>2. \A i, j \in 1 .. Len(q) : i < j => h[i] < h[j]
  OBVIOUS
<1>3. \A i \in 1 .. Len(q) : q[i] = q[h[i]]
  OBVIOUS
<1> QED BY <1>1, <1>2, <1>3 DEF Sub

LEMMA SubTail ==
  ASSUME NEW S, NEW q \in Seq(S), q # <<>>
  PROVE  Tail(q) \in Seq(S) /\ Sub(Tail(q), q)
<1>1. /\ Tail(q) \in Seq(S) /\ Len(Tail(q)) = Len(q) - 1 /\ Len(q) \in Nat
      /\ \A i \in 1 .. Len(Tail(q)) : Tail(q)[i] = q[i + 1]
  BY HeadTailProperties, LenProperties
<1> DEFINE h == [i \in 1 .. Len(Tail(q)) |-> i + 1]
<1>2. h \in [1 .. Len(Tail(q)) -> 1 .. Len(q)]
  BY <1>1
<1>3. \A i, j \in 1 .. Len(Tail(q)) : i < j => h[i] < h[j]
  BY <1>1
<1>4. \A i \in 1 .. Len(Tail(q)) : Tail(q)[i] = q[h[i]]
  BY <1>1
<1> QED BY <1>1, <1>2, <1>3, <1>4 DEF Sub

LEMMA SubTrans ==
  ASSUME NEW S, NEW p \in Seq(S), NEW q \in Seq(S), NEW r \in Seq(S), Sub(p, q), Sub(q, r)
  PROVE  Sub(p, r)
<1>1. PICK g \in [1 .. Len(p) -> 1 .. Len(q)] :
        /\ \A i, j \in 1 .. Len(p) : i < j => g[i] < g[j]
        /\ \A i \in 1 .. Len(p) : p[i] = q[g[i]]
  BY DEF Sub
<1>2. PICK h \in [1 .. Len(q) -> 1 .. Len(r)] :
        /\ \A i, j \in 1 .. Len(q) : i < j => h[i] < h[j]
        /\ \A i \in 1 .. Len(q) : q[i] = r[h[i]]
  BY DEF Sub
<1> DEFINE gh == [i \in 1 .. Len(p) |-> h[g[i]]]
<1>3. gh \in [1 .. Len(p) -> 1 .. Len(r)]
  BY <1>1, <1>2
<1>4. \A i, j \in 1 .. Len(p) : i < j => gh[i] < gh[j]
  BY <1>1, <1>2
<1>5. \A i \in 1 .. Len(p) : p[i] = r[gh[i]]
  BY <1>1, <1>2
<1> QED BY <1>3, <1>4, <1>5 DEF Sub

LEMMA RemoveAtIs ==
  ASSUME NEW S, NEW q \in Seq(S), NEW n \in 1 .. Len(q)
  PROVE  /\ RemoveAt(q, n) \in Seq(S) /\ Len(RemoveAt(q, n)) = Len(q) - 1
         /\ \A i \in 1 .. Len(q) - 1 : RemoveAt(q, n)[i] = q[IF i < n THEN i ELSE i + 1]
<1>0. Len(q) \in Nat /\ n \in Int /\ \A i \in 1 .. Len(q) : q[i] \in S
  BY LenProperties, ElementOfSeq
<1> DEFINE a == SubSeq(q, 1, n - 1)  b == SubSeq(q, n + 1, Len(q))
<1>1. /\ a \in Seq(S) /\ Len(a) = n - 1
      /\ \A i \in 1 .. n - 1 : a[i] = q[i]
  <2>1. \A i \in 1 .. n - 1 : q[i] \in S
    BY <1>0
  <2>2. /\ a \in Seq(S) /\ Len(a) = IF 1 <= n - 1 THEN n - 1 - 1 + 1 ELSE 0
        /\ \A i \in 1 .. n - 1 - 1 + 1 : a[i] = q[1 + i - 1]
    BY <1>0, <2>1, SubSeqProperties
  <2> QED BY <1>0, <2>2
<1>2. /\ b \in Seq(S) /\ Len(b) = Len(q) - n
      /\ \A i \in 1 .. Len(q) - n : b[i] = q[n + i]
  <2>1. \A i \in n + 1 .. Len(q) : q[i] \in S
    BY <1>0
  <2>2. /\ b \in Seq(S) /\ Len(b) = IF n + 1 <= Len(q) THEN Len(q) - (n + 1) + 1 ELSE 0
        /\ \A i \in 1 .. Len(q) - (n + 1) + 1 : b[i] = q[n + 1 + i - 1]
    BY <1>0, <2>1, SubSeqProperties
  <2> QED BY <1>0, <2>2
<1>3. /\ a \o b \in Seq(S) /\ Len(a \o b) = Len(a) + Len(b)
      /\ \A i \in 1 .. Len(a) + Len(b) : (a \o b)[i] = IF i <= Len(a) THEN a[i] ELSE b[i - Len(a)]
  BY <1>1, <1>2, ConcatProperties
<1>4. RemoveAt(q, n) = a \o b
  BY DEF RemoveAt
<1> HIDE DEF a, b
<1>5. Len(a) \in Int /\ Len(b) \in Int /\ Len(a) + Len(b) = Len(q) - 1
  BY <1>0, <1>1, <1>2
<1>6. ASSUME NEW i \in 1 .. Len(q) - 1
      PROVE  (a \o b)[i] = q[IF i < n THEN i ELSE i + 1]
  <2>1. CASE i < n
    <3>1. i \in 1 .. n - 1 /\ i <= Len(a) /\ i \in 1 .. Len(a) + Len(b)
      BY <1>0, <1>1, <1>5, <2>1
    <3>2. (a \o b)[i] = a[i] /\ a[i] = q[i]
      BY <1>1, <1>3, <3>1
    <3> QED BY <2>1, <3>2
  <2>2. CASE ~(i < n)
    <3>1. /\ ~(i <= Len(a)) /\ i \in 1 .. Len(a) + Len(b)
          /\ i - Len(a) \in 1 .. Len(q) - n /\ n + (i - Len(a)) = i + 1
      BY <1>0, <1>1, <1>5, <2>2
    <3>2. (a \o b)[i] = b[i - Len(a)]
      BY <1>3, <3>1
    <3>3. b[i - Len(a)] = q[n + (i - Len(a))]
      BY <1>2, <3>1
    <3> QED BY <2>2, <3>1, <3>2, <3>3
  <2> QED BY <2>1, <2>2
<1> QED BY <1>3, <1>4, <1>5, <1>6

LEMMA RemoveAtSub ==
  ASSUME NEW S, NEW q \in Seq(S), NEW n \in 1 .. Len(q)
  PROVE  /\ Sub(RemoveAt(q, n), q)
         /\ \A i \in 1 .. Len(RemoveAt(q, n)) : \E j \in 1 .. Len(q) : j # n /\ RemoveAt(q, n)[i] = q[j]
<1> DEFINE r == RemoveAt(q, n)
           h == [i \in 1 .. Len(r) |-> IF i < n THEN i ELSE i + 1]
<1>1. /\ Len(q) \in Nat /\ Len(r) = Len(q) - 1
      /\ \A i \in 1 .. Len(r) : r[i] = q[IF i < n THEN i ELSE i + 1]
  BY LenProperties, RemoveAtIs
<1> HIDE DEF r
<1>2. h \in [1 .. Len(r) -> 1 .. Len(q)] /\ \A i \in 1 .. Len(r) : h[i] # n
  BY <1>1
<1>3. \A i, j \in 1 .. Len(r) : i < j => h[i] < h[j]
  BY <1>1
<1>4. \A i \in 1 .. Len(r) : r[i] = q[h[i]]
  BY <1>1
<1> HIDE DEF h
<1>5. Sub(r, q)
  BY <1>2, <1>3, <1>4 DEF Sub
<1>6. \A i \in 1 .. Len(r) : \E j \in 1 .. Len(q) : j # n /\ r[i] = q[j]
  BY <1>2, <1>4
<1> QED BY <1>5, <1>6 DEF r

LEMMA WithdrawnIs ==
  ASSUME NEW S, NEW q \in Seq(S), NEW who, NEW t,
         \A i, j \in DOMAIN q : From(q[i], who, t) /\ From(q[j], who, t) => i = j
  PROVE  /\ Withdrawn(q, who, t) \in Seq(S) /\ Sub(Withdrawn(q, who, t), q)
         /\ \A i \in DOMAIN Withdrawn(q, who, t) : ~From(Withdrawn(q, who, t)[i], who, t)
<1>0. DOMAIN q = 1 .. Len(q)
  BY LenProperties
<1>1. CASE \E i \in DOMAIN q : From(q[i], who, t)
  <2>1. PICK n : n \in DOMAIN q /\ n = CHOOSE i \in DOMAIN q : From(q[i], who, t)
    BY <1>1
  <2>2. From(q[n], who, t)
    BY <1>1, <2>1
  <2>3. Withdrawn(q, who, t) = RemoveAt(q, n)
    BY <1>1, <2>1 DEF Withdrawn
  <2>4. /\ RemoveAt(q, n) \in Seq(S) /\ Sub(RemoveAt(q, n), q)
        /\ \A i \in 1 .. Len(RemoveAt(q, n)) : \E j \in 1 .. Len(q) : j # n /\ RemoveAt(q, n)[i] = q[j]
    <3>1. n \in 1 .. Len(q)
      BY <1>0, <2>1
    <3> QED BY <3>1, RemoveAtIs, RemoveAtSub
  <2>5. DOMAIN RemoveAt(q, n) = 1 .. Len(RemoveAt(q, n))
    BY <2>4, LenProperties
  <2>6. \A i \in DOMAIN RemoveAt(q, n) : ~From(RemoveAt(q, n)[i], who, t)
    BY <1>0, <2>1, <2>2, <2>4, <2>5
  <2> QED BY <2>3, <2>4, <2>6
<1>2. CASE ~\E i \in DOMAIN q : From(q[i], who, t)
  <2>1. Withdrawn(q, who, t) = q
    BY <1>2 DEF Withdrawn
  <2> QED BY <1>2, <2>1, SubSelf
<1> QED BY <1>1, <1>2

-----------------------------------------------------------------------------
(* The send lock. *)

USE DEF client, session, turn, pump, vars

LEMMA OutqIs == TypeOK => outq \in Seq(Frames) /\ DOMAIN outq = 1 .. Len(outq)
BY LenProperties DEF TypeOK, Frames

(* A frame that is withdrawn or sent leaves the others in their places. *)
LEMMA SubOne ==
  ASSUME TypeOK, Senders, NEW r \in Seq(Frames), Sub(r, outq)
  PROVE  /\ \A i, j \in DOMAIN r : SameSender(r[i], r[j]) => i = j
         /\ \A i \in DOMAIN r : \E k \in DOMAIN outq : r[i] = outq[k]
<1>0. /\ DOMAIN outq = 1 .. Len(outq) /\ Len(outq) \in Nat
      /\ DOMAIN r = 1 .. Len(r) /\ Len(r) \in Nat
  BY OutqIs, LenProperties
<1>1. PICK h \in [1 .. Len(r) -> 1 .. Len(outq)] :
        /\ \A i, j \in 1 .. Len(r) : i < j => h[i] < h[j]
        /\ \A i \in 1 .. Len(r) : r[i] = outq[h[i]]
  BY DEF Sub
<1>2. \A i, j \in 1 .. Len(r) : SameSender(r[i], r[j]) => h[i] = h[j]
  BY <1>0, <1>1 DEF Senders
<1>3. \A i, j \in 1 .. Len(r) : h[i] = h[j] => i = j
  BY <1>0, <1>1
<1> QED BY <1>0, <1>1, <1>2, <1>3

LEMMA HeadGone ==
  ASSUME TypeOK, Senders, outq # <<>>
  PROVE  /\ outq[1] \in Frames /\ 1 \in DOMAIN outq
         /\ Tail(outq) \in Seq(Frames) /\ Sub(Tail(outq), outq)
         /\ \A i \in DOMAIN Tail(outq) : ~SameSender(Tail(outq)[i], outq[1])
<1>0. outq \in Seq(Frames) /\ DOMAIN outq = 1 .. Len(outq) /\ Len(outq) \in Nat
  BY OutqIs, LenProperties
<1>1. /\ Tail(outq) \in Seq(Frames) /\ Len(Tail(outq)) = Len(outq) - 1
      /\ \A i \in 1 .. Len(Tail(outq)) : Tail(outq)[i] = outq[i + 1]
  BY <1>0, HeadTailProperties
<1>2. DOMAIN Tail(outq) = 1 .. Len(Tail(outq))
  BY <1>1, LenProperties
<1>3. 1 \in DOMAIN outq /\ outq[1] \in Frames
  BY <1>0, ElementOfSeq, EmptySeq
<1>4. ASSUME NEW i \in DOMAIN Tail(outq)
      PROVE  ~SameSender(Tail(outq)[i], outq[1])
  <2>1. i + 1 \in DOMAIN outq /\ Tail(outq)[i] = outq[i + 1] /\ i + 1 # 1
    BY <1>0, <1>1, <1>2
  <2> QED BY <1>3, <2>1 DEF Senders
<1> QED BY <1>0, <1>1, <1>3, <1>4, SubTail

LEMMA WithdrawnFrames ==
  ASSUME NEW q \in Seq(Frames), NEW t, NEW who,
         \A i, j \in DOMAIN q : SameSender(q[i], q[j]) => i = j
  PROVE  /\ Withdrawn(q, who, t) \in Seq(Frames) /\ Sub(Withdrawn(q, who, t), q)
         /\ \A i \in DOMAIN Withdrawn(q, who, t) : ~From(Withdrawn(q, who, t)[i], who, t)
<1>1. \A i, j \in DOMAIN q : From(q[i], who, t) /\ From(q[j], who, t) => i = j
  BY DEF From, SameSender
<1> QED BY <1>1, WithdrawnIs

(* The end of the session leaves only frames of turns at the lock. *)
LEMMA EndSessionIs ==
  ASSUME TypeOK, Senders, NEW rest \in Seq(Frames), Sub(rest, outq), EndSession(rest)
  PROVE  /\ outq' \in Seq(Frames) /\ Sub(outq', rest) /\ Sub(outq', outq)
         /\ \A i \in DOMAIN outq' : outq'[i].who = "turn"
<1> DEFINE one == Withdrawn(rest, "loop", 0)  two == Withdrawn(one, "beat", 0)
<1>1. outq' = two /\ outq \in Seq(Frames)
  BY OutqIs DEF EndSession
<1>2. \A i, j \in DOMAIN rest : SameSender(rest[i], rest[j]) => i = j
  BY SubOne
<1>3. /\ one \in Seq(Frames) /\ Sub(one, rest)
      /\ \A i \in DOMAIN one : ~From(one[i], "loop", 0)
  BY <1>2, WithdrawnFrames
<1> HIDE DEF one
<1>4. Sub(one, outq)
  BY <1>1, <1>3, SubTrans
<1>5. \A i, j \in DOMAIN one : SameSender(one[i], one[j]) => i = j
  BY <1>3, <1>4, SubOne
<1>6. /\ two \in Seq(Frames) /\ Sub(two, one)
      /\ \A i \in DOMAIN two : ~From(two[i], "beat", 0)
  BY <1>3, <1>5, WithdrawnFrames
<1> HIDE DEF two
<1>7. Sub(two, rest) /\ Sub(two, outq)
  BY <1>1, <1>3, <1>4, <1>6, SubTrans
<1>8. /\ DOMAIN two = 1 .. Len(two) /\ DOMAIN one = 1 .. Len(one)
      /\ \A i \in DOMAIN two : two[i] \in Frames
  BY <1>3, <1>6, LenProperties, ElementOfSeq
<1>9. \A i \in DOMAIN two : \E k \in DOMAIN one : two[i] = one[k]
  BY <1>6, <1>8 DEF Sub
<1>10. \A i \in DOMAIN two : two[i].who = "turn"
  BY <1>3, <1>6, <1>8, <1>9 DEF From, Frames
<1> QED BY <1>1, <1>6, <1>7, <1>10

LEMMA SendersLess ==
  ASSUME TypeOK, Senders, outq' \in Seq(Frames), Sub(outq', outq),
         \A i \in DOMAIN outq' :
           /\ outq'[i].who = "turn" => pc'[outq'[i].turn] = pc[outq'[i].turn]
           /\ outq'[i].who = "loop" => loop' = loop /\ cur' = cur
           /\ outq'[i].who = "beat" => beat' = beat
  PROVE  Senders'
<1>1. /\ \A i, j \in DOMAIN outq' : SameSender(outq'[i], outq'[j]) => i = j
      /\ \A i \in DOMAIN outq' : \E k \in DOMAIN outq : outq'[i] = outq[k]
  BY SubOne
<1>2. ASSUME NEW i \in DOMAIN outq'
      PROVE  /\ outq'[i].who = "turn" => SentByTurn(outq[i])'
             /\ outq'[i].who = "loop" => SentByLoop(outq[i])'
             /\ outq'[i].who = "beat" => SentByBeat(outq[i])'
  <2>1. PICK k \in DOMAIN outq : outq'[i] = outq[k]
    BY <1>1
  <2> QED BY <2>1 DEF Senders, SentByTurn, SentByLoop, SentByBeat
<1> QED BY <1>1, <1>2 DEF Senders, SameSender

LEMMA Appended ==
  ASSUME TypeOK, NEW f \in Frames, outq' = Append(outq, f)
  PROVE  /\ outq' \in Seq(Frames) /\ Len(outq) \in Nat
         /\ DOMAIN outq = 1 .. Len(outq) /\ DOMAIN outq' = 1 .. Len(outq) + 1
         /\ outq'[Len(outq) + 1] = f /\ \A i \in DOMAIN outq : outq'[i] = outq[i]
<1>1. outq \in Seq(Frames) /\ DOMAIN outq = 1 .. Len(outq) /\ Len(outq) \in Nat
  BY OutqIs, LenProperties
<1>2. /\ outq' \in Seq(Frames) /\ Len(outq') = Len(outq) + 1
      /\ outq'[Len(outq) + 1] = f /\ \A i \in 1 .. Len(outq) : outq'[i] = outq[i]
  BY <1>1, AppendProperties
<1>3. DOMAIN outq' = 1 .. Len(outq')
  BY <1>2, LenProperties
<1> QED BY <1>1, <1>2, <1>3

LEMMA SendersMore ==
  ASSUME TypeOK, Senders, NEW f \in Frames, outq' = Append(outq, f),
         \A i \in DOMAIN outq :
           /\ ~SameSender(outq[i], f)
           /\ outq[i].who = "turn" => pc'[outq[i].turn] = pc[outq[i].turn]
           /\ outq[i].who = "loop" => loop' = loop /\ cur' = cur
           /\ outq[i].who = "beat" => beat' = beat,
         f.who = "turn" => SentByTurn(f)',
         f.who = "loop" => SentByLoop(f)',
         f.who = "beat" => SentByBeat(f)'
  PROVE  Senders'
<1>1. /\ Len(outq) \in Nat
      /\ DOMAIN outq = 1 .. Len(outq) /\ DOMAIN outq' = 1 .. Len(outq) + 1
      /\ outq'[Len(outq) + 1] = f /\ \A i \in DOMAIN outq : outq'[i] = outq[i]
  BY Appended
<1>2. ASSUME NEW i \in DOMAIN outq'
      PROVE  /\ outq'[i].who = "turn" => SentByTurn(outq[i])'
             /\ outq'[i].who = "loop" => SentByLoop(outq[i])'
             /\ outq'[i].who = "beat" => SentByBeat(outq[i])'
  <2>1. CASE i \in DOMAIN outq
    BY <1>1, <2>1 DEF Senders, SentByTurn, SentByLoop, SentByBeat
  <2>2. CASE i = Len(outq) + 1
    BY <1>1, <2>2 DEF SentByTurn, SentByLoop, SentByBeat
  <2> QED BY <1>1, <2>1, <2>2
<1>3. ASSUME NEW i \in DOMAIN outq', NEW j \in DOMAIN outq', SameSender(outq'[i], outq'[j])
      PROVE  i = j
  <2>1. \A k \in DOMAIN outq : ~SameSender(f, outq[k]) /\ ~SameSender(outq[k], f)
    BY DEF SameSender
  <2>2. \A k, l \in DOMAIN outq : SameSender(outq[k], outq[l]) => k = l
    BY DEF Senders
  <2>3. i \in DOMAIN outq \/ i = Len(outq) + 1
    BY <1>1
  <2>4. j \in DOMAIN outq \/ j = Len(outq) + 1
    BY <1>1
  <2> QED BY <1>1, <1>3, <2>1, <2>2, <2>3, <2>4
<1> QED BY <1>2, <1>3 DEF Senders, SameSender

-----------------------------------------------------------------------------
(* Types. *)

Kinds == {"message", "cancel", "ping", "bad"}

LEMMA FirstFrame ==
  ASSUME TypeOK, inbox # <<>>
  PROVE  /\ 1 \in DOMAIN inbox /\ inbox[1] \in Kinds \X (0 .. MaxTurns)
         /\ DOMAIN inbox = 1 .. Len(inbox) /\ Len(inbox) \in Nat
         /\ Tail(inbox) \in Seq(Kinds \X (0 .. MaxTurns))
         /\ DOMAIN Tail(inbox) = 1 .. Len(inbox) - 1
         /\ \A i \in 1 .. Len(inbox) - 1 : Tail(inbox)[i] = inbox[i + 1]
<1>1. inbox \in Seq(Kinds \X (0 .. MaxTurns))
  BY DEF TypeOK, Kinds
<1>2. Len(inbox) \in Nat /\ DOMAIN inbox = 1 .. Len(inbox) /\ Len(inbox) # 0
  BY <1>1, LenProperties, EmptySeq
<1>3. 1 \in DOMAIN inbox /\ inbox[1] \in Kinds \X (0 .. MaxTurns)
  BY <1>1, <1>2, ElementOfSeq
<1>4. /\ Tail(inbox) \in Seq(Kinds \X (0 .. MaxTurns)) /\ Len(Tail(inbox)) = Len(inbox) - 1
      /\ \A i \in 1 .. Len(Tail(inbox)) : Tail(inbox)[i] = inbox[i + 1]
  BY <1>1, HeadTailProperties
<1>5. DOMAIN Tail(inbox) = 1 .. Len(inbox) - 1
  BY <1>4, LenProperties
<1> QED BY <1>2, <1>3, <1>4, <1>5

LEMMA FirstMessage ==
  ASSUME IInv, Receives("message")
  PROVE  /\ inbox[1][2] \in Turns /\ cur < inbox[1][2] /\ inbox[1][2] <= spoken
         /\ pc[inbox[1][2]] = "idle" /\ queue[inbox[1][2]] = <<>> /\ inbox # <<>>
<1>1. 1 \in DOMAIN inbox /\ inbox[1] \in Kinds \X (0 .. MaxTurns) /\ inbox # <<>>
  BY FirstFrame DEF IInv, Receives
<1>2. cur < inbox[1][2] /\ inbox[1][2] <= spoken /\ pc[inbox[1][2]] = "idle"
  BY <1>1 DEF IInv, Stages, Heard, Receives
<1>3. inbox[1][2] \in Turns
  BY <1>1, <1>2, WsAssumption DEF IInv, TypeOK, Turns
<1> QED BY <1>1, <1>2, <1>3 DEF IInv, Stages, Stage

LEMMA TypeInit == Init => TypeOK
<1> SUFFICES ASSUME Init PROVE TypeOK
  OBVIOUS
<1>1. inbox \in Seq({"message", "cancel", "ping", "bad"} \X (0 .. MaxTurns))
  BY DEF Init
<1>2. outq \in Seq([who : {"turn", "loop", "beat"}, turn : 0 .. MaxTurns,
                   kind : {"event", "end", "refusal", "close", "pong", "beat"}])
  BY DEF Init
<1>3. wire \in Seq(Turns \X {"event", "end"})
  BY DEF Init
<1>4. queue \in [Turns -> Seq({"chunk", "error", "end"})]
  BY DEF Init
<1>5. /\ spoken \in 0 .. MaxTurns /\ others \in 0 .. MaxOther /\ cur \in 0 .. MaxTurns
      /\ made \in [Turns -> 0 .. MaxChunks]
  BY WsAssumption DEF Init
<1>6. pc \in [Turns -> Unopened \cup
                {"idle", "refused", "streaming", "sending", "ending", "closing",
                 "releasing", "over"}]
  BY DEF Init
<1> QED BY <1>1, <1>2, <1>3, <1>4, <1>5, <1>6 DEF Init, TypeOK

LEMMA SendsTypes ==
  ASSUME TypeOK, NEW t \in Turns, NEW kind \in {"event", "end", "refusal"},
         NEW label \in {"sending", "ending", "failing"}, Sends(t, kind, label)
  PROVE  /\ outq' \in Seq(Frames) /\ busy' \in BOOLEAN
         /\ pc' \in [Turns -> Unopened \cup
                {"idle", "refused", "streaming", "sending", "ending", "closing",
                 "releasing", "over"}]
<1>1. Frame("turn", t, kind) \in Frames
  BY DEF Frame, Frames, Turns
<1>2. outq \in Seq(Frames)
  BY OutqIs
<1>3. outq' \in Seq(Frames)
  BY <1>1, <1>2, AppendProperties DEF Sends
<1>4. busy' \in BOOLEAN
  BY DEF TypeOK, Sends, NotBusy
<1>5. pc' \in [Turns -> Unopened \cup
                {"idle", "refused", "streaming", "sending", "ending", "closing",
                 "releasing", "over"}]
  BY DEF TypeOK, Sends, Goto, Unopened
<1> QED BY <1>3, <1>4, <1>5

LEMMA TakesTypes ==
  ASSUME TypeOK, NEW t \in Turns, NEW item, Takes(t, item)
  PROVE  /\ queue' \in [Turns -> Seq({"chunk", "error", "end"})]
         /\ pc[t] = "streaming" /\ UNCHANGED <<run, made>>
BY HeadTailProperties DEF TypeOK, Takes

LEMMA PutsTypes ==
  ASSUME TypeOK, NEW t \in Turns, NEW item \in {"chunk", "error", "end"}, Puts(t, item)
  PROVE  /\ queue' \in [Turns -> Seq({"chunk", "error", "end"})]
         /\ UNCHANGED <<client, gone, session, outq, wire, turn>>
BY AppendProperties DEF TypeOK, Puts

LEMMA ShownTypes ==
  ASSUME TypeOK, NEW f \in Frames
  PROVE  Shown(f) \in Seq(Turns \X {"event", "end"})
<1>1. CASE f.turn = 0 \/ gone
  BY <1>1 DEF Shown, TypeOK
<1>2. CASE ~(f.turn = 0 \/ gone)
  <2>1. <<f.turn, IF f.kind = "event" THEN "event" ELSE "end">> \in Turns \X {"event", "end"}
    BY <1>2, WsAssumption DEF Frames, Turns
  <2> QED BY <1>2, <2>1, AppendProperties DEF Shown, TypeOK
<1> QED BY <1>1, <1>2

LEMMA TypeNext == IInv /\ [Next]_vars => TypeOK'
<1> SUFFICES ASSUME IInv, [Next]_vars PROVE TypeOK'
  OBVIOUS
<1> USE WsAssumption
<1>0. TypeOK /\ Senders /\ outq \in Seq(Frames)
  BY OutqIs DEF IInv
<1>1. CASE Message
  <2>1. <<"message", spoken + 1>> \in {"message", "cancel", "ping", "bad"} \X (0 .. MaxTurns)
    BY <1>0, <1>1 DEF TypeOK, Message
  <2>2. inbox' \in Seq({"message", "cancel", "ping", "bad"} \X (0 .. MaxTurns))
    BY <1>0, <1>1, <2>1, AppendProperties DEF TypeOK, Message
  <2>3. spoken' \in 0 .. MaxTurns /\ polite' \subseteq Turns
    BY <1>0, <1>1 DEF TypeOK, Message, Turns
  <2> QED BY <1>0, <1>1, <2>2, <2>3 DEF TypeOK, Message
<1>2. CASE OtherFrame
  <2>1. inbox' \in Seq({"message", "cancel", "ping", "bad"} \X (0 .. MaxTurns))
    BY <1>0, <1>2, AppendProperties DEF TypeOK, OtherFrame
  <2>2. others' \in 0 .. MaxOther
    BY <1>0, <1>2 DEF TypeOK, OtherFrame
  <2> QED BY <1>0, <1>2, <2>1, <2>2 DEF TypeOK, OtherFrame
<1>3. CASE Leaves
  BY <1>0, <1>3 DEF TypeOK, Leaves
<1>4. ASSUME NEW kind, Receive(kind)
      PROVE  /\ inbox' \in Seq({"message", "cancel", "ping", "bad"} \X (0 .. MaxTurns))
             /\ UNCHANGED <<spoken, others, polite>>
  BY <1>0, <1>4, FirstFrame DEF Receive, Receives, Kinds
<1>5. CASE Accept
  <2>1. inbox[1][2] \in Turns
    BY <1>5, FirstMessage DEF Accept, Receive
  <2>2. cur' \in 0 .. MaxTurns /\ cur' = inbox[1][2] /\ pc' = [pc EXCEPT ![inbox[1][2]] = "opening"]
    BY <1>5, <2>1 DEF Accept, Goto, Turns
  <2> QED BY <1>0, <1>4, <1>5, <2>1, <2>2 DEF Accept, TypeOK, Unopened
<1>6. ASSUME NEW f \in Frames, outq' = Append(outq, f)
      PROVE  outq' \in Seq(Frames)
  BY <1>0, <1>6, AppendProperties
<1>7. CASE Refuse \/ Malformed
  <2>1. CASE Refuse
    <3>1. inbox[1][2] \in Turns
      BY <2>1, FirstMessage DEF Refuse, Receive
    <3>2. Frame("loop", 0, "close") \in Frames
      BY DEF Frames, Frame
    <3> QED BY <1>0, <1>4, <1>6, <2>1, <3>1, <3>2 DEF Refuse, Close, Goto, TypeOK, Frames
  <2>2. CASE Malformed
    <3>1. Frame("loop", 0, "close") \in Frames
      BY DEF Frames, Frame
    <3> QED BY <1>0, <1>4, <1>6, <2>2, <3>1 DEF Malformed, Close, TypeOK, Frames
  <2> QED BY <1>7, <2>1, <2>2
<1>8. CASE Ping
  <2>1. Frame("loop", 0, "pong") \in Frames
    BY DEF Frames, Frame
  <2> QED BY <1>0, <1>4, <1>6, <1>8, <2>1 DEF Ping, TypeOK, Frames
<1>9. CASE CancelIgnored \/ Cancel
  BY <1>0, <1>4, <1>9 DEF CancelIgnored, Cancel, TypeOK
<1>10. CASE CancelDone
  <2>1. Frame("loop", cur, "end") \in Frames
    BY <1>0 DEF Frames, Frame, TypeOK
  <2>2. outq' \in Seq(Frames)
    BY <1>0, <1>10, <2>1, AppendProperties DEF CancelDone
  <2> QED BY <1>0, <1>10, <2>2 DEF CancelDone, TypeOK, Frames
<1>11. ASSUME NEW rest \in Seq(Frames), Sub(rest, outq), EndSession(rest),
              UNCHANGED <<busy, cur, wire, leased, raised, pump>>,
              pc' \in [Turns -> Unopened \cup
                {"idle", "refused", "streaming", "sending", "ending", "closing",
                 "releasing", "over"}]
       PROVE  TypeOK'
  <2>1. outq' \in Seq(Frames)
    BY <1>0, <1>11, EndSessionIs
  <2>2. inbox' \in Seq({"message", "cancel", "ping", "bad"} \X (0 .. MaxTurns))
    BY <1>11 DEF EndSession
  <2>3. cancelled' \in [Turns -> BOOLEAN]
    BY <1>0, <1>11 DEF EndSession, TypeOK
  <2> QED BY <1>0, <1>11, <2>1, <2>2, <2>3 DEF EndSession, TypeOK, Frames
<1>12. CASE Disconnected \/ Shutdown
  BY <1>0, <1>11, <1>12, SubSelf DEF Disconnected, Shutdown, TypeOK
<1>13. ASSUME outq # <<>>
       PROVE  /\ outq[1] \in Frames /\ 1 \in DOMAIN outq
              /\ Tail(outq) \in Seq(Frames) /\ Sub(Tail(outq), outq)
              /\ outq[1].who = "turn" => SentByTurn(outq[1])
  BY <1>0, <1>13, HeadGone DEF Senders
<1>14. CASE Closed \/ SessionSendRaises
  <2>1. UNCHANGED <<busy, cur, wire, leased, raised, pump>> /\ outq # <<>> /\ EndSession(Tail(outq))
    BY <1>14 DEF Closed, SessionSendRaises
  <2>2. pc' \in [Turns -> Unopened \cup
                {"idle", "refused", "streaming", "sending", "ending", "closing",
                 "releasing", "over"}]
    BY <1>0, <1>14 DEF TypeOK, Closed, SessionSendRaises
  <2> QED BY <1>11, <1>13, <2>1, <2>2
<1>15. CASE Beat
  <2>1. Frame("beat", 0, "beat") \in Frames
    BY DEF Frames, Frame
  <2> QED BY <1>0, <1>6, <1>15, <2>1 DEF Beat, TypeOK, Frames
<1>16. CASE TurnSent
  <2>1. outq' \in Seq(Frames) /\ wire' \in Seq(Turns \X {"event", "end"})
    BY <1>0, <1>13, <1>16, ShownTypes DEF TurnSent
  <2>2. outq[1].kind \in {"event", "end", "refusal"}
    BY <1>13, <1>16 DEF TurnSent, SentByTurn
  <2>3. pc' \in [Turns -> Unopened \cup
                {"idle", "refused", "streaming", "sending", "ending", "closing",
                 "releasing", "over"}]
    BY <1>0, <1>16, <2>2 DEF TurnSent, Goto, TypeOK
  <2> QED BY <1>0, <1>16, <2>1, <2>3 DEF TurnSent, TypeOK, Frames
<1>17. CASE LoopSent
  <2>1. outq' \in Seq(Frames) /\ wire' \in Seq(Turns \X {"event", "end"})
    BY <1>0, <1>13, <1>17, ShownTypes DEF LoopSent
  <2> QED BY <1>0, <1>17, <2>1 DEF LoopSent, TypeOK, Frames
<1>18. CASE BeatSent \/ TurnSendRaises
  <2>1. outq' \in Seq(Frames)
    BY <1>0, <1>13, <1>18 DEF BeatSent, TurnSendRaises
  <2> QED BY <1>0, <1>18, <2>1 DEF BeatSent, TurnSendRaises, Goto, TypeOK, Frames
<1>19. ASSUME NEW t \in Turns, Acquire(t) \/ Open(t)
       PROVE  TypeOK'
  BY <1>0, <1>19 DEF Acquire, Open, Goto, TypeOK, Unopened
<1>20. ASSUME NEW t \in Turns, OpenFails(t)
       PROVE  TypeOK'
  BY <1>0, <1>20, SendsTypes DEF OpenFails, TypeOK, Frames
<1>21. ASSUME NEW t \in Turns, Event(t) \/ LastEvent(t)
       PROVE  TypeOK'
  <2>1. /\ queue' \in [Turns -> Seq({"chunk", "error", "end"})]
        /\ UNCHANGED <<run, made>>
    BY <1>0, <1>21, TakesTypes DEF Event, LastEvent
  <2> QED BY <1>0, <1>21, <2>1, SendsTypes DEF Event, LastEvent, TypeOK, Frames
<1>22. ASSUME NEW t \in Turns, Silent(t) \/ StreamRaises(t)
       PROVE  TypeOK'
  <2>1. /\ queue' \in [Turns -> Seq({"chunk", "error", "end"})]
        /\ UNCHANGED <<run, made>>
    BY <1>0, <1>22, TakesTypes DEF Silent, StreamRaises
  <2> QED BY <1>0, <1>22, <2>1 DEF Silent, StreamRaises, Goto, TypeOK
<1>23. ASSUME NEW t \in Turns, Cancelled(t)
       PROVE  TypeOK'
  <2>1. outq' \in Seq(Frames)
    BY <1>0, <1>23, WithdrawnFrames DEF Cancelled, Senders
  <2>2. wire' \in Seq(Turns \X {"event", "end"})
    BY <1>0, <1>13, <1>23, ShownTypes DEF Cancelled, TypeOK
  <2> QED BY <1>0, <1>23, <2>1, <2>2 DEF Cancelled, Goto, TypeOK, Frames
<1>24. ASSUME NEW t \in Turns, StopRun(t) \/ Released(t)
       PROVE  TypeOK'
  <2>1. queue' \in [Turns -> Seq({"chunk", "error", "end"})]
    <3>1. <<>> \in Seq({"chunk", "error", "end"})
      OBVIOUS
    <3> QED BY <1>0, <1>24, <3>1 DEF StopRun, Released, TypeOK
  <2> QED BY <1>0, <1>24, <2>1 DEF StopRun, Released, Goto, TypeOK
<1>25. ASSUME NEW t \in Turns, Producer(t)
       PROVE  TypeOK'
  <2>1. /\ queue' \in [Turns -> Seq({"chunk", "error", "end"})]
        /\ UNCHANGED <<client, gone, session, outq, wire, turn>>
    BY <1>0, <1>25, PutsTypes DEF Producer, Produce, RunEnds
  <2>2. run' \in [Turns -> {"none", "live", "over"}]
    BY <1>0, <1>25 DEF Producer, Produce, RunEnds, TypeOK
  <2>3. made' \in [Turns -> 0 .. MaxChunks]
    <3>1. CASE Produce(t)
      BY <1>0, <3>1 DEF Produce, TypeOK
    <3>2. CASE RunEnds(t)
      BY <1>0, <3>2 DEF RunEnds, TypeOK
    <3> QED BY <1>25, <3>1, <3>2 DEF Producer
  <2> QED BY <1>0, <2>1, <2>2, <2>3 DEF TypeOK
<1>26. CASE UNCHANGED vars
  BY <1>0, <1>26 DEF TypeOK
<1> QED
  BY <1>1, <1>2, <1>3, <1>5, <1>7, <1>8, <1>9, <1>10, <1>12, <1>14, <1>15, <1>16, <1>17,
     <1>18, <1>19, <1>20, <1>21, <1>22, <1>23, <1>24, <1>25, <1>26
     DEF Next, Client, Loop, Sending, TurnStep

-----------------------------------------------------------------------------
(* Senders. *)

LEMMA SendersNext == IInv /\ [Next]_vars => Senders'
<1> SUFFICES ASSUME IInv, [Next]_vars PROVE Senders'
  OBVIOUS
<1>0. TypeOK /\ Senders /\ Stages /\ outq \in Seq(Frames) /\ Sub(outq, outq)
  BY OutqIs, SubSelf DEF IInv
<1>1. ASSUME NEW i \in DOMAIN outq
      PROVE  /\ outq[i].who = "turn" => /\ outq[i].turn \in Turns
                                        /\ pc[outq[i].turn] \in {"sending", "ending", "failing"}
             /\ outq[i].who = "loop" => /\ loop \in {"pong", "closing", "answering"}
                                        /\ outq[i].kind # "refusal"
             /\ outq[i].who = "beat" => beat = "sending" /\ outq[i].kind # "refusal"
             /\ outq[i] \in Frames
  BY <1>0, <1>1, ElementOfSeq, OutqIs DEF Senders, SentByTurn, SentByLoop, SentByBeat
<1>2. ASSUME outq' = outq,
             \A i \in DOMAIN outq :
               /\ outq[i].who = "turn" => pc'[outq[i].turn] = pc[outq[i].turn]
               /\ outq[i].who = "loop" => loop' = loop /\ cur' = cur
               /\ outq[i].who = "beat" => beat' = beat
      PROVE  Senders'
  BY <1>0, <1>2, SendersLess
<1>3. CASE \/ Message \/ OtherFrame \/ Leaves \/ CancelIgnored \/ Cancel \/ UNCHANGED vars
  BY <1>1, <1>2, <1>3 DEF Message, OtherFrame, Leaves, CancelIgnored, Cancel, Receive, Receives
<1>4. CASE Accept
  <2>1. inbox[1][2] \in Turns /\ pc[inbox[1][2]] = "idle"
    BY <1>4, FirstMessage DEF Accept, Receive
  <2>2. /\ outq' = outq /\ loop = "recv" /\ beat' = beat
        /\ pc' = [pc EXCEPT ![inbox[1][2]] = "opening"]
    BY <1>4 DEF Accept, Receive, Receives, Goto
  <2>3. \A t \in Turns : t # inbox[1][2] => pc'[t] = pc[t]
    BY <1>0, <2>2 DEF TypeOK
  <2> QED BY <1>1, <1>2, <2>1, <2>2, <2>3
<1>5. ASSUME NEW t \in Turns, outq' = outq, UNCHANGED <<loop, cur, beat>>,
             pc[t] \notin {"sending", "ending", "failing"},
             \A u \in Turns : u # t => pc'[u] = pc[u]
      PROVE  Senders'
  BY <1>1, <1>2, <1>5
<1>6. ASSUME NEW t \in Turns,
             \/ Acquire(t) \/ Open(t) \/ Silent(t) \/ StreamRaises(t) \/ StopRun(t)
             \/ Released(t) \/ Producer(t)
      PROVE  Senders'
  <2>1. CASE \/ Acquire(t) \/ Open(t) \/ StreamRaises(t) \/ StopRun(t) \/ Released(t)
    <3>1. outq' = outq /\ UNCHANGED <<loop, cur, beat>> /\ pc[t] \notin {"sending", "ending", "failing"}
      BY <2>1 DEF Acquire, Open, StreamRaises, StopRun, Released, Takes
    <3>2. \A u \in Turns : u # t => pc'[u] = pc[u]
      BY <1>0, <2>1 DEF Acquire, Open, StreamRaises, StopRun, Released, Goto, TypeOK
    <3> QED BY <1>5, <3>1, <3>2
  <2>2. CASE Silent(t) \/ Producer(t)
    <3>1. UNCHANGED <<outq, session, pc>>
      BY <2>2 DEF Silent, Producer, Produce, RunEnds, Puts
    <3> QED BY <1>2, <3>1
  <2> QED BY <1>6, <2>1, <2>2
<1>7. CASE Refuse \/ Malformed \/ Ping
  <2>0. PICK kind \in {"pong", "close"} :
          /\ outq' = Append(outq, Frame("loop", 0, kind))
          /\ loop' = IF kind = "pong" THEN "pong" ELSE "closing"
    <3>1. CASE Ping
      BY <3>1 DEF Ping
    <3>2. CASE Refuse \/ Malformed
      BY <3>2 DEF Refuse, Malformed, Close
    <3> QED BY <1>7, <3>1, <3>2
  <2>1. PICK f : f = Frame("loop", 0, kind)
    OBVIOUS
  <2>2. /\ f \in Frames /\ f.who = "loop" /\ f.turn = 0 /\ f.kind = kind
        /\ outq' = Append(outq, f) /\ loop = "recv" /\ UNCHANGED <<cur, beat>>
    <3>1. f \in Frames /\ f.who = "loop" /\ f.turn = 0 /\ f.kind = kind
      BY <2>1, WsAssumption DEF Frame, Frames
    <3>2. loop = "recv" /\ UNCHANGED <<cur, beat>>
      BY <1>7 DEF Refuse, Malformed, Ping, Close, Receive, Receives
    <3> QED BY <2>0, <2>1, <3>1, <3>2
  <2>6. SentByLoop(f)'
    BY <2>0, <2>2 DEF SentByLoop
  <2>3. \A u \in Turns : pc[u] # "idle" => pc'[u] = pc[u]
    <3>1. CASE Refuse
      <4>1. inbox[1][2] \in Turns /\ pc[inbox[1][2]] = "idle" /\ pc' = [pc EXCEPT ![inbox[1][2]] = "refused"]
        BY <3>1, FirstMessage DEF Refuse, Receive, Goto
      <4> QED BY <1>0, <4>1 DEF TypeOK
    <3>2. CASE Malformed \/ Ping
      BY <3>2 DEF Malformed, Ping
    <3> QED BY <1>7, <3>1, <3>2
  <2>4. \A i \in DOMAIN outq : outq[i].who # "loop"
    BY <1>1, <2>2
  <2>5. \A i \in DOMAIN outq : ~SameSender(outq[i], f)
    BY <2>2, <2>4 DEF SameSender
  <2>7. \A i \in DOMAIN outq : outq[i].who = "turn" => pc'[outq[i].turn] = pc[outq[i].turn]
    BY <1>1, <2>3
  <2> QED BY <1>0, <2>2, <2>4, <2>5, <2>6, <2>7, SendersMore
<1>8. CASE CancelDone \/ Beat
  <2>1. CASE CancelDone
    <3>1. PICK g : g = Frame("loop", cur, "end")
      OBVIOUS
    <3>2. g \in Frames /\ g.who = "loop" /\ g.kind = "end" /\ g.turn = cur
      BY <1>0, <3>1 DEF Frame, Frames, TypeOK
    <3>3. /\ outq' = Append(outq, g) /\ loop = "cancelling" /\ loop' = "answering"
          /\ UNCHANGED <<pc, cur, beat>>
      BY <2>1, <3>1 DEF CancelDone
    <3>4. SentByLoop(g)'
      BY <3>2, <3>3 DEF SentByLoop
    <3>5. \A i \in DOMAIN outq : outq[i].who # "loop" /\ ~SameSender(outq[i], g)
      BY <1>1, <3>2, <3>3 DEF SameSender
    <3> QED BY <1>0, <3>2, <3>3, <3>4, <3>5, SendersMore
  <2>2. CASE Beat
    <3>1. PICK g : g = Frame("beat", 0, "beat")
      OBVIOUS
    <3>2. g \in Frames /\ g.who = "beat" /\ g.kind = "beat" /\ g.turn = 0
      BY <3>1, WsAssumption DEF Frame, Frames
    <3>3. /\ outq' = Append(outq, g) /\ beat = "idle" /\ beat' = "sending"
          /\ UNCHANGED <<pc, cur, loop>>
      BY <2>2, <3>1 DEF Beat
    <3>4. SentByBeat(g)'
      BY <3>2, <3>3 DEF SentByBeat
    <3>5. \A i \in DOMAIN outq : outq[i].who # "beat" /\ ~SameSender(outq[i], g)
      BY <1>1, <3>2, <3>3 DEF SameSender
    <3> QED BY <1>0, <3>2, <3>3, <3>4, <3>5, SendersMore
  <2> QED BY <1>8, <2>1, <2>2
<1>9. ASSUME NEW t \in Turns, NEW kind, NEW label, Sends(t, kind, label),
             UNCHANGED <<loop, cur, beat>>, pc[t] \notin {"sending", "ending", "failing"},
             \/ kind = "event" /\ label = "sending"
             \/ kind = "end" /\ label = "ending"
             \/ kind = "refusal" /\ label = "failing"
      PROVE  Senders'
  <2>1. \A u \in Turns : u # t => pc'[u] = pc[u]
    BY <1>0, <1>9 DEF Sends, Goto, TypeOK
  <2>2. CASE cancelled[t]
    BY <1>5, <1>9, <2>1, <2>2 DEF Sends
  <2>3. CASE ~cancelled[t]
    <3>1. PICK g : g = Frame("turn", t, kind)
      OBVIOUS
    <3>2. g \in Frames /\ g.who = "turn" /\ g.kind = kind /\ g.turn = t
      BY <1>9, <3>1 DEF Frame, Frames, Turns
    <3>3. outq' = Append(outq, g) /\ pc'[t] = label
      BY <1>0, <1>9, <2>3, <3>1 DEF Sends, Goto, TypeOK
    <3>4. SentByTurn(g)'
      BY <1>9, <3>2, <3>3 DEF SentByTurn
    <3>5. \A i \in DOMAIN outq : ~SameSender(outq[i], g)
      BY <1>1, <1>9, <3>2 DEF SameSender
    <3>6. \A i \in DOMAIN outq : outq[i].who = "turn" => pc'[outq[i].turn] = pc[outq[i].turn]
      BY <1>1, <1>9, <2>1
    <3> QED BY <1>0, <1>9, <3>2, <3>3, <3>4, <3>5, <3>6, SendersMore
  <2> QED BY <2>2, <2>3
<1>10. ASSUME NEW t \in Turns, OpenFails(t) \/ Event(t) \/ LastEvent(t)
       PROVE  Senders'
  <2>1. CASE OpenFails(t)
    BY <1>9, <2>1 DEF OpenFails
  <2>2. CASE Event(t)
    BY <1>9, <2>2 DEF Event, Takes
  <2>3. CASE LastEvent(t)
    BY <1>9, <2>3 DEF LastEvent, Takes
  <2> QED BY <1>10, <2>1, <2>2, <2>3
<1>11. CASE Disconnected \/ Shutdown
  <2>1. EndSession(outq) /\ pc' = pc
    BY <1>11 DEF Disconnected, Shutdown
  <2>2. /\ outq' \in Seq(Frames) /\ Sub(outq', outq)
        /\ \A i \in DOMAIN outq' : outq'[i].who = "turn"
    BY <1>0, <2>1, EndSessionIs
  <2> QED BY <1>0, <2>1, <2>2, SendersLess
<1>12. ASSUME outq # <<>>, NEW r \in Seq(Frames), Sub(r, Tail(outq))
       PROVE  /\ Sub(r, outq)
              /\ \A i \in DOMAIN r : ~SameSender(r[i], outq[1])
                                     /\ (r[i].who = "turn" => r[i].turn \in Turns)
  <2>1. /\ Tail(outq) \in Seq(Frames) /\ Sub(Tail(outq), outq)
        /\ \A i \in DOMAIN Tail(outq) : ~SameSender(Tail(outq)[i], outq[1])
    BY <1>0, <1>12, HeadGone
  <2>2. Sub(r, outq)
    BY <1>0, <1>12, <2>1, SubTrans
  <2>3. DOMAIN r = 1 .. Len(r) /\ DOMAIN Tail(outq) = 1 .. Len(Tail(outq))
    BY <2>1, LenProperties
  <2>4. \A i \in DOMAIN r : \E k \in DOMAIN Tail(outq) : r[i] = Tail(outq)[k]
    BY <1>12, <2>3 DEF Sub
  <2>5. \A i \in DOMAIN r : \E k \in DOMAIN outq : r[i] = outq[k]
    BY <1>0, <2>2, SubOne
  <2> QED BY <1>1, <2>1, <2>2, <2>4, <2>5
<1>13. outq # <<>> => /\ 1 \in DOMAIN outq /\ Tail(outq) \in Seq(Frames)
                      /\ Sub(Tail(outq), Tail(outq)) /\ Sub(Tail(outq), outq)
  BY <1>0, HeadGone, SubSelf
<1>14. CASE Closed \/ SessionSendRaises
  <2>1. outq # <<>> /\ EndSession(Tail(outq))
    BY <1>14 DEF Closed, SessionSendRaises
  <2>2. /\ outq' \in Seq(Frames) /\ Sub(outq', Tail(outq)) /\ Sub(outq', outq)
        /\ \A i \in DOMAIN outq' : outq'[i].who = "turn"
    BY <1>0, <1>13, <2>1, EndSessionIs
  <2>3. \/ pc' = pc
        \/ outq[1].kind = "refusal" /\ pc' = [pc EXCEPT ![outq[1].turn] = "over"]
    BY <1>14 DEF Closed, SessionSendRaises
  <2>4. \A i \in DOMAIN outq' : pc'[outq'[i].turn] = pc[outq'[i].turn]
    <3>1. CASE pc' = pc
      BY <3>1
    <3>2. CASE outq[1].kind = "refusal" /\ pc' = [pc EXCEPT ![outq[1].turn] = "over"]
      <4>1. outq[1].who = "turn"
        BY <1>1, <1>13, <2>1, <3>2 DEF Frames
      <4>2. \A i \in DOMAIN outq' : outq'[i].turn # outq[1].turn /\ outq'[i].turn \in Turns
        BY <1>12, <2>1, <2>2, <4>1 DEF SameSender
      <4> QED BY <1>0, <3>2, <4>2 DEF TypeOK
    <3> QED BY <2>3, <3>1, <3>2
  <2> QED BY <1>0, <2>2, <2>4, SendersLess
<1>15. CASE TurnSent \/ TurnSendRaises
  <2>1. /\ outq # <<>> /\ outq[1].who = "turn" /\ outq' = Tail(outq)
        /\ UNCHANGED session
    BY <1>15 DEF TurnSent, TurnSendRaises
  <2>2. \A u \in Turns : u # outq[1].turn => pc'[u] = pc[u]
    BY <1>0, <1>15 DEF TurnSent, TurnSendRaises, Goto, TypeOK
  <2>3. \A i \in DOMAIN outq' : outq'[i].who = "turn" => pc'[outq'[i].turn] = pc[outq'[i].turn]
    BY <1>12, <1>13, <2>1, <2>2 DEF SameSender
  <2> QED BY <1>0, <1>13, <2>1, <2>3, SendersLess
<1>16. CASE LoopSent \/ BeatSent
  <2>1. /\ outq # <<>> /\ outq' = Tail(outq) /\ UNCHANGED <<pc, cur>>
        /\ \/ outq[1].who = "loop" /\ beat' = beat
           \/ outq[1].who = "beat" /\ loop' = loop
    BY <1>16 DEF LoopSent, BeatSent
  <2>2. \A i \in DOMAIN outq' : ~SameSender(outq'[i], outq[1])
    BY <1>12, <1>13, <2>1
  <2> QED BY <1>0, <1>13, <2>1, <2>2, SendersLess DEF SameSender
<1>17. ASSUME NEW t \in Turns, Cancelled(t)
       PROVE  Senders'
  <2>1. outq' = Withdrawn(outq, "turn", t) /\ UNCHANGED session
    BY <1>17 DEF Cancelled
  <2>2. /\ outq' \in Seq(Frames) /\ Sub(outq', outq)
        /\ \A i \in DOMAIN outq' : ~From(outq'[i], "turn", t)
    BY <1>0, <2>1, WithdrawnFrames DEF Senders
  <2>3. \A u \in Turns : u # t => pc'[u] = pc[u]
    BY <1>0, <1>17 DEF Cancelled, Goto, TypeOK
  <2>4. \A i \in DOMAIN outq' : \E k \in DOMAIN outq : outq'[i] = outq[k]
    BY <1>0, <2>2, SubOne
  <2>5. \A i \in DOMAIN outq' : outq'[i].who = "turn" => outq'[i].turn # t /\ outq'[i].turn \in Turns
    BY <1>1, <2>2, <2>4 DEF From
  <2> QED BY <1>0, <2>1, <2>2, <2>3, <2>5, SendersLess
<1> QED
  BY <1>3, <1>4, <1>6, <1>7, <1>8, <1>10, <1>11, <1>14, <1>15, <1>16, <1>17
     DEF Next, Client, Loop, Sending, TurnStep

-----------------------------------------------------------------------------
(* Stages. *)

LEMMA TakesQueue ==
  ASSUME TypeOK, NEW t \in Turns, NEW item, Takes(t, item)
  PROVE  /\ 1 \in DOMAIN queue[t] /\ queue[t][1] = item /\ pc[t] = "streaming"
         /\ UNCHANGED <<run, made>>
         /\ \A i \in DOMAIN queue'[t] : \E j \in DOMAIN queue[t] : queue'[t][i] = queue[t][j]
         /\ \A u \in Turns : u # t => queue'[u] = queue[u]
<1>1. PICK q : q = queue[t]
  OBVIOUS
<1>2. /\ q \in Seq({"chunk", "error", "end"}) /\ q # <<>> /\ q[1] = item
      /\ queue'[t] = Tail(q) /\ pc[t] = "streaming" /\ UNCHANGED <<run, made>>
      /\ \A u \in Turns : u # t => queue'[u] = queue[u]
  BY <1>1 DEF Takes, TypeOK
<1>3. /\ Tail(q) \in Seq({"chunk", "error", "end"}) /\ Len(Tail(q)) = Len(q) - 1
      /\ \A i \in 1 .. Len(Tail(q)) : Tail(q)[i] = q[i + 1]
  BY <1>2, HeadTailProperties
<1>4. /\ DOMAIN q = 1 .. Len(q) /\ Len(q) \in Nat /\ Len(q) # 0
      /\ DOMAIN Tail(q) = 1 .. Len(q) - 1
  BY <1>2, <1>3, LenProperties, EmptySeq
<1>5. \A i \in DOMAIN Tail(q) : i + 1 \in DOMAIN q /\ Tail(q)[i] = q[i + 1]
  BY <1>3, <1>4
<1>6. 1 \in DOMAIN q
  BY <1>4
<1> QED BY <1>1, <1>2, <1>5, <1>6

LEMMA PutsQueue ==
  ASSUME TypeOK, NEW t \in Turns, NEW item \in {"chunk", "error", "end"}, Puts(t, item)
  PROVE  /\ run[t] = "live"
         /\ \A i \in DOMAIN queue'[t] :
              queue'[t][i] = item \/ \E j \in DOMAIN queue[t] : queue'[t][i] = queue[t][j]
         /\ \A u \in Turns : u # t => queue'[u] = queue[u]
<1>1. PICK q : q = queue[t]
  OBVIOUS
<1>2. /\ q \in Seq({"chunk", "error", "end"}) /\ queue'[t] = Append(q, item)
      /\ run[t] = "live" /\ \A u \in Turns : u # t => queue'[u] = queue[u]
  BY <1>1 DEF Puts, TypeOK
<1>3. /\ Append(q, item) \in Seq({"chunk", "error", "end"})
      /\ Len(Append(q, item)) = Len(q) + 1 /\ Append(q, item)[Len(q) + 1] = item
      /\ \A i \in 1 .. Len(q) : Append(q, item)[i] = q[i]
  BY <1>2, AppendProperties
<1>4. /\ DOMAIN q = 1 .. Len(q) /\ Len(q) \in Nat
      /\ DOMAIN Append(q, item) = 1 .. Len(q) + 1
  BY <1>2, <1>3, LenProperties
<1>5. \A i \in DOMAIN Append(q, item) : i = Len(q) + 1 \/ i \in DOMAIN q
  BY <1>4
<1>6. \A i \in DOMAIN Append(q, item) :
        Append(q, item)[i] = item \/ \E j \in DOMAIN q : Append(q, item)[i] = q[j]
  BY <1>3, <1>4, <1>5
<1> QED BY <1>1, <1>2, <1>6

(* Where the inbox and the flag are left alone it is enough to look at the *)
(* turn that moves.                                                        *)
LEMMA StageMoved ==
  ASSUME IInv, NEW t \in Turns,
         UNCHANGED <<inbox, spoken, cur>>, busy' => busy, loop' = loop, cancelled' = cancelled,
         busy' # busy => cur = t,
         \A u \in Turns : u # t => /\ pc'[u] = pc[u] /\ run'[u] = run[u]
                                   /\ queue'[u] = queue[u],
         pc[t] # "idle", pc'[t] # "idle", Stage(t)'
  PROVE  Stages'
<1>1. \A u \in Turns : Stage(u)'
  <2> SUFFICES ASSUME NEW u \in Turns PROVE Stage(u)'
    OBVIOUS
  <2>1. CASE u = t
    BY <2>1
  <2>2. CASE u # t
    BY <2>2 DEF IInv, Stages, Stage
  <2> QED BY <2>1, <2>2
<1>2. /\ (cur <= spoken)' /\ (busy => cur \in Turns)'
      /\ (loop = "cancelling" => cur \in Turns /\ cancelled[cur])'
  BY DEF IInv, Stages
<1>3. ASSUME NEW i \in DOMAIN inbox, Heard(i)
      PROVE  pc'[inbox[i][2]] = "idle"
  <2>1. pc[inbox[i][2]] = "idle" /\ cur < inbox[i][2] /\ inbox[i][2] <= spoken
    BY <1>3 DEF IInv, Stages
  <2>2. inbox \in Seq(Kinds \X (0 .. MaxTurns))
    BY DEF IInv, TypeOK, Kinds
  <2>3. inbox[i] \in Kinds \X (0 .. MaxTurns)
    BY <2>2, ElementOfSeq, LenProperties
  <2>4. inbox[i][2] \in Turns
    BY <2>1, <2>3, WsAssumption DEF IInv, TypeOK, Turns
  <2> QED BY <2>1, <2>4
<1> QED BY <1>1, <1>2, <1>3 DEF IInv, Stages, Heard

LEMMA SendsStage ==
  ASSUME TypeOK, Stages, NEW t \in Turns, NEW kind, NEW label, Sends(t, kind, label),
         \/ kind = "event" /\ label = "sending" /\ pc[t] = "streaming"
         \/ kind = "end" /\ label = "ending" /\ pc[t] = "streaming"
         \/ kind = "refusal" /\ label = "failing" /\ pc[t] \in {"opening", "building"}
  PROVE  /\ busy /\ cur = t /\ (busy' <=> kind = "event") /\ busy' \in BOOLEAN
         /\ pc'[t] \in (CASE kind = "event" -> {"sending", "closing"}
                          [] kind = "end" -> {"ending", "closing"}
                          [] kind = "refusal" -> {"failing", "over"})
         /\ \A u \in Turns : u # t => pc'[u] = pc[u]
<1>1. busy /\ cur = t
  BY DEF Stages, Stage
<1>2. (busy' <=> kind = "event") /\ busy' \in BOOLEAN
  BY <1>1 DEF Sends, NotBusy, TypeOK
<1>3. \A u \in Turns : u # t => pc'[u] = pc[u]
  BY DEF Sends, Goto, TypeOK
<1>4. pc'[t] = IF cancelled[t] THEN (IF kind = "refusal" THEN "over" ELSE "closing") ELSE label
  BY DEF Sends, Goto, TypeOK
<1> QED BY <1>1, <1>2, <1>3, <1>4

LEMMA StagesNext == IInv /\ [Next]_vars => Stages'
<1> SUFFICES ASSUME IInv, [Next]_vars PROVE Stages'
  OBVIOUS
<1>0. TypeOK /\ Senders /\ Stages /\ spoken \in Nat /\ cur \in Nat
  BY DEF IInv, TypeOK
<1>1. ASSUME NEW i \in DOMAIN inbox, Heard(i)
      PROVE  /\ inbox[i][2] \in Turns /\ cur < inbox[i][2] /\ inbox[i][2] <= spoken
             /\ pc[inbox[i][2]] = "idle"
  <2>1. inbox \in Seq(Kinds \X (0 .. MaxTurns))
    BY DEF IInv, TypeOK, Kinds
  <2>2. inbox[i] \in Kinds \X (0 .. MaxTurns)
    BY <2>1, ElementOfSeq, LenProperties
  <2>3. cur < inbox[i][2] /\ inbox[i][2] <= spoken /\ pc[inbox[i][2]] = "idle"
    BY <1>0, <1>1 DEF Stages
  <2> QED BY <1>0, <2>2, <2>3, WsAssumption DEF Turns
<1>2. CASE Message
  <2>1. PICK t : t = spoken + 1
    OBVIOUS
  <2>2. t \in Turns /\ t > spoken /\ pc[t] = "idle" /\ t > cur /\ <<"message", t>> \in Kinds \X (0 .. MaxTurns)
    BY <1>0, <1>2, <2>1, WsAssumption DEF Message, Stages, Stage, Turns, Kinds
  <2>3. /\ inbox \in Seq(Kinds \X (0 .. MaxTurns)) /\ inbox' = Append(inbox, <<"message", t>>)
    BY <1>0, <1>2, <2>1 DEF Message, TypeOK, Kinds
  <2>4. /\ DOMAIN inbox = 1 .. Len(inbox) /\ Len(inbox) \in Nat /\ Len(inbox') = Len(inbox) + 1
        /\ inbox' \in Seq(Kinds \X (0 .. MaxTurns))
        /\ inbox'[Len(inbox) + 1] = <<"message", t>> /\ \A i \in 1 .. Len(inbox) : inbox'[i] = inbox[i]
    BY <2>2, <2>3, AppendProperties, LenProperties
  <2>5. DOMAIN inbox' = 1 .. Len(inbox) + 1
    BY <2>4, LenProperties
  <2>6. \A u \in Turns : Stage(u)'
    BY <1>0, <1>2, <2>1, <2>2 DEF Message, Stages, Stage, Turns
  <2>7. ASSUME NEW i \in DOMAIN inbox', Heard(i)'
        PROVE  /\ cur < inbox'[i][2] /\ inbox'[i][2] <= t /\ pc[inbox'[i][2]] = "idle"
               /\ inbox'[i][2] = t <=> i = Len(inbox) + 1
    <3>1. CASE i = Len(inbox) + 1
      BY <1>0, <2>1, <2>2, <2>4, <3>1 DEF Turns
    <3>2. CASE i # Len(inbox) + 1
      <4>1. i \in DOMAIN inbox /\ inbox'[i] = inbox[i]
        BY <2>4, <2>5, <3>2
      <4>2. Heard(i)
        BY <2>7, <4>1 DEF Heard
      <4>3. inbox[i][2] \in Turns /\ cur < inbox[i][2] /\ inbox[i][2] <= spoken /\ pc[inbox[i][2]] = "idle"
        BY <1>1, <4>1, <4>2
      <4> QED BY <1>0, <2>1, <3>2, <4>1, <4>3 DEF Turns
    <3> QED BY <3>1, <3>2
  <2>8. ASSUME NEW i \in DOMAIN inbox', NEW j \in DOMAIN inbox', i < j, Heard(i)', Heard(j)'
        PROVE  inbox'[i][2] < inbox'[j][2]
    <3>1. i \in DOMAIN inbox /\ inbox'[i] = inbox[i] /\ Heard(i)
      BY <2>4, <2>5, <2>8 DEF Heard
    <3>2. inbox[i][2] \in Turns /\ inbox[i][2] <= spoken
      BY <1>1, <3>1
    <3>3. CASE j = Len(inbox) + 1
      BY <1>0, <2>1, <2>4, <3>1, <3>2, <3>3 DEF Turns
    <3>4. CASE j # Len(inbox) + 1
      <4>1. j \in DOMAIN inbox /\ inbox'[j] = inbox[j]
        BY <2>4, <2>5, <3>4
      <4>2. Heard(j)
        BY <2>8, <4>1 DEF Heard
      <4> QED BY <1>0, <2>8, <3>1, <4>1, <4>2 DEF Stages
    <3> QED BY <3>3, <3>4
  <2>9. spoken' = t /\ UNCHANGED <<cur, busy, loop, cancelled, pc>>
    BY <1>2, <2>1 DEF Message
  <2>10. cur <= t
    BY <1>0, <2>1 DEF Stages
  <2> QED BY <1>0, <2>6, <2>7, <2>8, <2>9, <2>10 DEF Stages
<1>3. CASE OtherFrame
  <2>1. PICK f \in {"cancel", "ping", "bad"} : inbox' = Append(inbox, <<f, 0>>)
    BY <1>3 DEF OtherFrame
  <2>2. inbox \in Seq(Kinds \X (0 .. MaxTurns)) /\ <<f, 0>> \in Kinds \X (0 .. MaxTurns)
    BY <1>0, WsAssumption DEF TypeOK, Kinds
  <2>3. /\ DOMAIN inbox = 1 .. Len(inbox) /\ Len(inbox) \in Nat /\ Len(inbox') = Len(inbox) + 1
        /\ inbox' \in Seq(Kinds \X (0 .. MaxTurns))
        /\ inbox'[Len(inbox) + 1] = <<f, 0>> /\ \A i \in 1 .. Len(inbox) : inbox'[i] = inbox[i]
    BY <2>1, <2>2, AppendProperties, LenProperties
  <2>4. DOMAIN inbox' = 1 .. Len(inbox) + 1
    BY <2>3, LenProperties
  <2>5. ASSUME NEW i \in DOMAIN inbox', Heard(i)'
        PROVE  i \in DOMAIN inbox /\ inbox'[i] = inbox[i] /\ Heard(i)
    BY <2>3, <2>4, <2>5 DEF Heard
  <2> QED BY <1>0, <1>3, <2>5 DEF OtherFrame, Stages, Stage
<1>4. CASE Leaves \/ UNCHANGED vars
  BY <1>0, <1>4 DEF Leaves, Stages, Stage, Heard
<1>5. ASSUME inbox # <<>>, inbox' = Tail(inbox)
      PROVE  /\ \A i \in DOMAIN inbox' : Heard(i)' => /\ i + 1 \in DOMAIN inbox /\ inbox'[i] = inbox[i + 1]
                                                      /\ Heard(i + 1)
             /\ \A i, j \in DOMAIN inbox' : i < j => i + 1 < j + 1
             /\ \A i \in DOMAIN inbox' : 1 < i + 1
  <2>1. \A i \in DOMAIN inbox' : i \in Nat /\ i + 1 \in DOMAIN inbox /\ inbox'[i] = inbox[i + 1] /\ i >= 1
    <3>1. /\ DOMAIN inbox = 1 .. Len(inbox) /\ Len(inbox) \in Nat
          /\ DOMAIN inbox' = 1 .. Len(inbox) - 1
          /\ \A i \in 1 .. Len(inbox) - 1 : inbox'[i] = inbox[i + 1]
      BY <1>0, <1>5, FirstFrame
    <3> QED BY <3>1
  <2> QED BY <2>1 DEF Heard
<1>7. ASSUME inbox # <<>>, inbox' = Tail(inbox), UNCHANGED <<spoken, cur>>,
             \A u \in Turns : pc[u] = "idle" /\ (inbox[1][1] = "message" => u > inbox[1][2])
                                => pc'[u] = "idle"
      PROVE  /\ \A i \in DOMAIN inbox' :
                  Heard(i)' => /\ cur' < inbox'[i][2] /\ inbox'[i][2] <= spoken'
                               /\ pc'[inbox'[i][2]] = "idle"
             /\ \A i, j \in DOMAIN inbox' :
                  i < j /\ Heard(i)' /\ Heard(j)' => inbox'[i][2] < inbox'[j][2]
  <2>1. 1 \in DOMAIN inbox
    BY <1>0, <1>7, FirstFrame
  <2>2. ASSUME NEW i \in DOMAIN inbox', Heard(i)'
        PROVE  /\ cur < inbox'[i][2] /\ inbox'[i][2] <= spoken /\ pc'[inbox'[i][2]] = "idle"
    <3>1. i + 1 \in DOMAIN inbox /\ inbox'[i] = inbox[i + 1] /\ Heard(i + 1) /\ 1 < i + 1
      BY <1>5, <1>7, <2>2
    <3>2. /\ inbox[i + 1][2] \in Turns /\ cur < inbox[i + 1][2] /\ inbox[i + 1][2] <= spoken
          /\ pc[inbox[i + 1][2]] = "idle"
      BY <1>1, <3>1
    <3>3. inbox[1][1] = "message" => inbox[i + 1][2] > inbox[1][2]
      <4>1. ASSUME inbox[1][1] = "message" PROVE inbox[1][2] < inbox[i + 1][2]
        BY <1>0, <2>1, <3>1, <4>1 DEF Stages, Heard
      <4>2. inbox[1][1] = "message" => inbox[1][2] \in Turns
        BY <1>1, <2>1 DEF Heard
      <4> QED BY <3>2, <4>1, <4>2 DEF Turns
    <3> QED BY <1>7, <3>1, <3>2, <3>3
  <2>3. ASSUME NEW i \in DOMAIN inbox', NEW j \in DOMAIN inbox', i < j, Heard(i)', Heard(j)'
        PROVE  inbox'[i][2] < inbox'[j][2]
    BY <1>0, <1>5, <1>7, <2>3 DEF Stages
  <2> QED BY <1>7, <2>2, <2>3
<1>8. CASE Accept
  <2>1. PICK t : t = inbox[1][2]
    OBVIOUS
  <2>2. /\ t \in Turns /\ cur < t /\ t <= spoken /\ pc[t] = "idle" /\ queue[t] = <<>> /\ inbox # <<>>
    BY <1>8, <2>1, FirstMessage DEF Accept, Receive
  <2>3. /\ ~busy /\ busy' /\ cur' = t /\ loop = "recv" /\ inbox' = Tail(inbox) /\ inbox[1][1] = "message"
        /\ pc'[t] = "opening" /\ \A u \in Turns : u # t => pc'[u] = pc[u]
        /\ UNCHANGED <<spoken, loop, cancelled, run, queue>>
    BY <1>0, <1>8, <2>1, <2>2 DEF Accept, Receive, Receives, Goto, TypeOK
  <2>4. \A u \in Turns : Stage(u)'
    BY <1>0, <2>2, <2>3 DEF Stages, Stage, Turns
  <2>5. ASSUME NEW i \in DOMAIN inbox', Heard(i)'
        PROVE  /\ t < inbox'[i][2] /\ inbox'[i][2] <= spoken /\ pc'[inbox'[i][2]] = "idle"
    <3>1. i + 1 \in DOMAIN inbox /\ inbox'[i] = inbox[i + 1] /\ Heard(i + 1) /\ 1 < i + 1
      BY <1>5, <2>2, <2>3, <2>5
    <3>2. /\ inbox[i + 1][2] \in Turns /\ inbox[i + 1][2] <= spoken /\ pc[inbox[i + 1][2]] = "idle"
      BY <1>1, <3>1
    <3>3. 1 \in DOMAIN inbox /\ Heard(1)
      BY <1>0, <2>2, <2>3, FirstFrame DEF Heard
    <3>4. t < inbox[i + 1][2]
      BY <1>0, <2>1, <3>1, <3>3 DEF Stages
    <3> QED BY <2>2, <2>3, <3>1, <3>2, <3>4 DEF Turns
  <2>6. ASSUME NEW i \in DOMAIN inbox', NEW j \in DOMAIN inbox', i < j, Heard(i)', Heard(j)'
        PROVE  inbox'[i][2] < inbox'[j][2]
    BY <1>0, <1>5, <2>2, <2>3, <2>6 DEF Stages
  <2> QED BY <1>0, <2>2, <2>3, <2>4, <2>5, <2>6 DEF Stages
<1>9. CASE Refuse
  <2>1. PICK t : t = inbox[1][2]
    OBVIOUS
  <2>2. /\ t \in Turns /\ cur < t /\ t <= spoken /\ pc[t] = "idle" /\ inbox # <<>>
    BY <1>9, <2>1, FirstMessage DEF Refuse, Receive
  <2>3. /\ loop' = "closing" /\ inbox' = Tail(inbox) /\ inbox[1][1] = "message"
        /\ pc'[t] = "refused" /\ \A u \in Turns : u # t => pc'[u] = pc[u]
        /\ UNCHANGED <<spoken, busy, cur, cancelled, run, queue>>
    BY <1>0, <1>9, <2>1, <2>2 DEF Refuse, Close, Receive, Receives, Goto, TypeOK
  <2>4. \A u \in Turns : Stage(u)'
    BY <1>0, <2>2, <2>3 DEF Stages, Stage, Turns
  <2>5. \A u \in Turns : pc[u] = "idle" /\ (inbox[1][1] = "message" => u > inbox[1][2]) => pc'[u] = "idle"
    BY <2>1, <2>2, <2>3 DEF Turns
  <2>6. /\ (cur <= spoken)' /\ (busy => cur \in Turns)' /\ loop' # "cancelling"
    BY <1>0, <2>3 DEF Stages
  <2> QED BY <1>7, <2>2, <2>3, <2>4, <2>5, <2>6 DEF Stages
<1>10. CASE Malformed \/ Ping \/ CancelIgnored \/ Cancel
  <2>1. /\ inbox # <<>> /\ inbox' = Tail(inbox) /\ UNCHANGED <<spoken, busy, cur, pc, run, queue>>
        /\ \/ loop' # "cancelling"
           \/ busy /\ cancelled' = [cancelled EXCEPT ![cur] = TRUE]
    <3>1. CASE Malformed
      BY <3>1 DEF Malformed, Close, Receive, Receives
    <3>2. CASE Ping
      BY <3>2 DEF Ping, Receive, Receives
    <3>3. CASE CancelIgnored
      BY <3>3 DEF CancelIgnored, Receive, Receives
    <3>4. CASE Cancel
      BY <3>4 DEF Cancel, Receive, Receives
    <3> QED BY <1>10, <3>1, <3>2, <3>3, <3>4
  <2>2. \A u \in Turns : Stage(u)'
    BY <1>0, <2>1 DEF Stages, Stage
  <2>3. (cur <= spoken)' /\ (busy => cur \in Turns)' /\ (loop = "cancelling" => cur \in Turns /\ cancelled[cur])'
    BY <1>0, <2>1 DEF Stages, TypeOK
  <2> QED BY <1>7, <2>1, <2>2, <2>3 DEF Stages
<1>11. CASE CancelDone
  <2>1. /\ cur \in Turns /\ pc[cur] = "over" /\ busy' = FALSE /\ loop' = "answering"
        /\ UNCHANGED <<inbox, spoken, cur, pc, run, queue, cancelled>>
    BY <1>0, <1>11 DEF CancelDone, Stopped, Stages
  <2>2. \A u \in Turns : Stage(u)'
    BY <1>0, <2>1 DEF Stages, Stage
  <2> QED BY <1>0, <2>1, <2>2 DEF Stages, Heard
<1>12. CASE Disconnected \/ Shutdown \/ Closed \/ SessionSendRaises
  <2>1. /\ inbox' = <<>> /\ loop' = "over" /\ UNCHANGED <<spoken, busy, cur, run, queue>>
        /\ \/ pc' = pc
           \/ /\ outq[1].kind = "refusal" /\ pc' = [pc EXCEPT ![outq[1].turn] = "over"]
              /\ outq # <<>>
    BY <1>12 DEF Disconnected, Shutdown, Closed, SessionSendRaises, EndSession
  <2>2. \A u \in Turns : Stage(u)'
    <3>1. CASE pc' = pc
      BY <1>0, <2>1, <3>1 DEF Stages, Stage
    <3>2. CASE outq[1].kind = "refusal" /\ pc' = [pc EXCEPT ![outq[1].turn] = "over"] /\ outq # <<>>
      <4>1. 1 \in DOMAIN outq /\ outq[1] \in Frames
        BY <1>0, <3>2, HeadGone
      <4>2. PICK t : t = outq[1].turn
        OBVIOUS
      <4>3. t \in Turns /\ pc[t] = "failing"
        BY <1>0, <3>2, <4>1, <4>2 DEF Senders, SentByTurn, SentByLoop, SentByBeat, Frames
      <4>4. pc'[t] = "over" /\ \A u \in Turns : u # t => pc'[u] = pc[u]
        BY <1>0, <3>2, <4>2, <4>3 DEF TypeOK
      <4> QED BY <1>0, <2>1, <4>3, <4>4 DEF Stages, Stage
    <3> QED BY <2>1, <3>1, <3>2
  <2>3. DOMAIN inbox' = {}
    BY <2>1
  <2> QED BY <1>0, <2>1, <2>2, <2>3 DEF Stages
<1>13. CASE Beat \/ LoopSent \/ BeatSent
  <2>1. /\ UNCHANGED <<inbox, spoken, busy, cur, cancelled, pc, run, queue>>
        /\ loop' = loop \/ loop' = "recv"
    BY <1>13 DEF Beat, LoopSent, BeatSent
  <2> QED BY <1>0, <2>1 DEF Stages, Stage, Heard
<1>14. CASE TurnSent \/ TurnSendRaises
  <2>1. /\ outq # <<>> /\ outq[1].who = "turn"
        /\ UNCHANGED <<inbox, spoken, cur, busy, loop, cancelled, run, queue>>
    BY <1>14 DEF TurnSent, TurnSendRaises
  <2>2. PICK t : t = outq[1].turn
    OBVIOUS
  <2>3. t \in Turns /\ SentByTurn(outq[1])
    BY <1>0, <2>1, <2>2, HeadGone DEF Senders, SentByTurn
  <2>4. /\ \A u \in Turns : u # t => pc'[u] = pc[u]
        /\ \/ pc[t] = "sending" /\ pc'[t] \in {"streaming", "closing"}
           \/ pc[t] = "ending" /\ pc'[t] = "closing"
           \/ pc[t] = "failing" /\ pc'[t] = "over"
    BY <1>0, <1>14, <2>2, <2>3 DEF TurnSent, TurnSendRaises, SentByTurn, Goto, TypeOK
  <2>5. Stage(t)'
    BY <1>0, <2>1, <2>3, <2>4 DEF Stages, Stage, Turns
  <2> QED BY <2>1, <2>3, <2>4, <2>5, StageMoved
<1>15. ASSUME NEW t \in Turns, OpenFails(t)
       PROVE  Stages'
  <2>1. /\ busy /\ cur = t /\ (busy' <=> FALSE) /\ busy' \in BOOLEAN
        /\ pc'[t] \in {"failing", "over"} /\ \A u \in Turns : u # t => pc'[u] = pc[u]
    BY <1>0, <1>15, SendsStage DEF OpenFails
  <2>2. pc[t] \in {"opening", "building"} /\ UNCHANGED <<inbox, spoken, cur, loop, cancelled, run, queue>>
    BY <1>15 DEF OpenFails
  <2>3. Stage(t)'
    BY <1>0, <2>1, <2>2 DEF Stages, Stage, Turns
  <2> QED BY <2>1, <2>2, <2>3, StageMoved
<1>16. ASSUME NEW t \in Turns, Event(t) \/ LastEvent(t)
       PROVE  Stages'
  <2>1. PICK kind \in {"event", "end"}, item \in {"chunk", "error", "end"} :
          /\ Takes(t, item) /\ Sends(t, kind, IF kind = "event" THEN "sending" ELSE "ending")
          /\ kind = "end" <=> item # "chunk"
    BY <1>16 DEF Event, LastEvent
  <2>2. /\ 1 \in DOMAIN queue[t] /\ queue[t][1] = item /\ pc[t] = "streaming" /\ run' = run
        /\ \A i \in DOMAIN queue'[t] : \E j \in DOMAIN queue[t] : queue'[t][i] = queue[t][j]
        /\ \A u \in Turns : u # t => queue'[u] = queue[u]
    BY <1>0, <2>1, TakesQueue
  <2>3. /\ busy /\ cur = t /\ (busy' <=> kind = "event") /\ busy' \in BOOLEAN
        /\ pc'[t] \in (CASE kind = "event" -> {"sending", "closing"}
                         [] kind = "end" -> {"ending", "closing"}
                         [] kind = "refusal" -> {"failing", "over"})
        /\ \A u \in Turns : u # t => pc'[u] = pc[u]
    BY <1>0, <2>1, <2>2, SendsStage
  <2>4. UNCHANGED <<inbox, spoken, cur, loop, cancelled>>
    BY <1>16 DEF Event, LastEvent
  <2>5. Stage(t)'
    <3>1. CASE kind = "event"
      BY <1>0, <2>2, <2>3, <2>4, <3>1 DEF Stages, Stage, Turns
    <3>2. CASE kind = "end"
      <4>1. run[t] = "over"
        BY <1>0, <2>1, <2>2, <3>2 DEF Stages, Stage
      <4>2. pc'[t] \in {"ending", "closing"}
        BY <2>3, <3>2
      <4> QED BY <1>0, <2>2, <2>3, <2>4, <4>1, <4>2 DEF Stages, Stage, Turns
    <3> QED BY <3>1, <3>2
  <2>6. pc'[t] # "idle"
    BY <2>3
  <2> QED BY <2>2, <2>3, <2>4, <2>5, <2>6, StageMoved
<1>17. ASSUME NEW t \in Turns, Silent(t) \/ StreamRaises(t)
       PROVE  Stages'
  <2>1. PICK item \in {"chunk", "error", "end"} : Takes(t, item)
    BY <1>17 DEF Silent, StreamRaises
  <2>2. /\ pc[t] = "streaming" /\ run' = run
        /\ \A i \in DOMAIN queue'[t] : \E j \in DOMAIN queue[t] : queue'[t][i] = queue[t][j]
        /\ \A u \in Turns : u # t => queue'[u] = queue[u]
    BY <1>0, <2>1, TakesQueue
  <2>3. /\ UNCHANGED <<inbox, spoken, busy, cur, loop, cancelled>>
        /\ pc'[t] \in {"streaming", "closing"} /\ \A u \in Turns : u # t => pc'[u] = pc[u]
    BY <1>0, <1>17, <2>2 DEF Silent, StreamRaises, Goto, TypeOK
  <2>4. Stage(t)'
    BY <1>0, <2>2, <2>3 DEF Stages, Stage, Turns
  <2> QED BY <2>2, <2>3, <2>4, StageMoved
<1>18. ASSUME NEW t \in Turns, Acquire(t) \/ Open(t) \/ StopRun(t) \/ Cancelled(t)
       PROVE  Stages'
  <2>1. /\ UNCHANGED <<inbox, spoken, busy, cur, loop, cancelled, queue>>
        /\ \A u \in Turns : u # t => pc'[u] = pc[u] /\ run'[u] = run[u]
        /\ \/ pc[t] = "opening" /\ pc'[t] = "building" /\ run' = run
           \/ pc[t] = "building" /\ pc'[t] = "streaming"
           \/ pc[t] = "closing" /\ pc'[t] = "releasing" /\ run'[t] = "over"
           \/ /\ run' = run
              /\ \/ pc[t] \in Unopened /\ pc'[t] = "over"
                 \/ pc[t] \in {"streaming", "sending", "ending"} /\ pc'[t] = "closing"
    BY <1>0, <1>18 DEF Acquire, Open, StopRun, Cancelled, Goto, TypeOK, Unopened
  <2>2. Stage(t)'
    BY <1>0, <2>1 DEF Stages, Stage, Turns, Unopened
  <2> QED BY <2>1, <2>2, StageMoved DEF Unopened
<1>19. ASSUME NEW t \in Turns, Released(t)
       PROVE  Stages'
  <2>1. /\ UNCHANGED <<inbox, spoken, busy, cur, loop, cancelled, run>>
        /\ \A u \in Turns : u # t => pc'[u] = pc[u] /\ queue'[u] = queue[u]
        /\ pc[t] = "releasing" /\ pc'[t] = "over" /\ queue'[t] = <<>>
    BY <1>0, <1>19 DEF Released, Goto, TypeOK
  <2>2. Stage(t)'
    BY <1>0, <2>1 DEF Stages, Stage, Turns
  <2> QED BY <2>1, <2>2, StageMoved
<1>20. ASSUME NEW t \in Turns, Producer(t)
       PROVE  Stages'
  <2>1. PICK item \in {"chunk", "error", "end"} :
          /\ Puts(t, item)
          /\ \/ item = "chunk" /\ run' = run
             \/ run' = [run EXCEPT ![t] = "over"]
    BY <1>20 DEF Producer, Produce, RunEnds
  <2>2. /\ run[t] = "live" /\ UNCHANGED <<client, session, turn>>
        /\ \A i \in DOMAIN queue'[t] :
             queue'[t][i] = item \/ \E j \in DOMAIN queue[t] : queue'[t][i] = queue[t][j]
        /\ \A u \in Turns : u # t => queue'[u] = queue[u]
    BY <1>0, <2>1, PutsQueue DEF Puts
  <2>3. pc[t] \in {"streaming", "sending", "closing"} /\ \A u \in Turns : u # t => run'[u] = run[u]
    BY <1>0, <2>1, <2>2 DEF Stages, Stage, TypeOK
  <2>4. (item = "chunk" /\ run'[t] = run[t]) \/ run'[t] = "over"
    BY <1>0, <2>1 DEF TypeOK
  <2>5. Stage(t)'
    BY <1>0, <2>2, <2>3, <2>4 DEF Stages, Stage, Turns
  <2> QED BY <2>2, <2>3, <2>5, StageMoved
<1> QED
  BY <1>2, <1>3, <1>4, <1>8, <1>9, <1>10, <1>11, <1>12, <1>13, <1>14, <1>15, <1>16, <1>17,
     <1>18, <1>19, <1>20
     DEF Next, Client, Loop, Sending, TurnStep

-----------------------------------------------------------------------------
(* Order. *)

LEMMA OrderTypes ==
  TypeOK => /\ \A i \in DOMAIN wire : wire[i][1] \in Nat
            /\ \A k \in DOMAIN outq : outq[k].turn \in Nat /\ outq[k] \in Frames
            /\ cur \in Nat
<1> SUFFICES ASSUME TypeOK
             PROVE  /\ \A i \in DOMAIN wire : wire[i][1] \in Nat
                    /\ \A k \in DOMAIN outq : outq[k].turn \in Nat /\ outq[k] \in Frames
                    /\ cur \in Nat
  OBVIOUS
<1>1. \A k \in DOMAIN outq : outq[k] \in Frames
  BY OutqIs, ElementOfSeq
<1>2. \A i \in DOMAIN wire : wire[i] \in Turns \X {"event", "end"}
  BY ElementOfSeq, LenProperties DEF TypeOK
<1> QED BY <1>1, <1>2, WsAssumption DEF Frames, Turns, TypeOK

(* Frames that leave the lock, or a turn that begins, disturb nothing. *)
LEMMA OrderLess ==
  ASSUME TypeOK, TypeOK', Order, wire' = wire, Sub(outq', outq),
         (cur' = cur /\ (Unended' => Unended)) \/ cur < cur'
  PROVE  Order'
<1>0. /\ \A i \in DOMAIN wire : wire[i][1] \in Nat
      /\ \A k \in DOMAIN outq : outq[k].turn \in Nat
      /\ cur \in Nat /\ cur' \in Nat
      /\ DOMAIN outq = 1 .. Len(outq)
  <2>1. cur' \in Nat
    BY DEF TypeOK
  <2> QED BY <2>1, OrderTypes, OutqIs
<1>1. DOMAIN outq' = 1 .. Len(outq') /\ outq' \in Seq(Frames)
  BY LenProperties DEF TypeOK, Frames
<1>2. PICK h \in [1 .. Len(outq') -> 1 .. Len(outq)] :
        /\ \A i, j \in 1 .. Len(outq') : i < j => h[i] < h[j]
        /\ \A i \in 1 .. Len(outq') : outq'[i] = outq[h[i]]
  BY DEF Sub
<1>3. \A k \in DOMAIN outq' : h[k] \in DOMAIN outq /\ outq'[k] = outq[h[k]]
  BY <1>0, <1>1, <1>2
<1>4. \A k, l \in DOMAIN outq' : k < l => h[k] < h[l]
  BY <1>1, <1>2
<1>5. Conversation'
  BY DEF Order, Conversation
<1>6. \A i \in DOMAIN wire' :
        wire'[i][1] <= cur' /\ (wire'[i][2] = "end" /\ Unended' => wire'[i][1] < cur')
  BY <1>0 DEF Order
<1>7. ASSUME NEW k \in DOMAIN outq', outq'[k].turn # 0
      PROVE  /\ outq'[k].turn <= cur'
             /\ outq'[k].kind # "event" /\ Unended' => outq'[k].turn < cur'
             /\ \A i \in DOMAIN wire' : /\ wire'[i][1] <= outq'[k].turn
                                        /\ wire'[i][2] = "end" => wire'[i][1] < outq'[k].turn
  BY <1>0, <1>3, <1>7 DEF Order
<1>8. ASSUME NEW k \in DOMAIN outq', NEW l \in DOMAIN outq', k < l,
             outq'[k].turn # 0, outq'[l].turn # 0
      PROVE  /\ outq'[k].turn <= outq'[l].turn
             /\ outq'[k].kind # "event" => outq'[k].turn < outq'[l].turn
  BY <1>3, <1>4, <1>8 DEF Order
<1> QED BY <1>5, <1>6, <1>7, <1>8 DEF Order

(* A frame joins the senders: no part of a turn, or of the current one,    *)
(* whose terminal frame clears the flag.                                   *)
LEMMA OrderMore ==
  ASSUME TypeOK, Order, wire' = wire, cur' = cur, Unended' => Unended,
         NEW f \in Frames, outq' = Append(outq, f),
         f.turn # 0 => f.turn = cur /\ Unended /\ (f.kind = "event" \/ ~Unended')
  PROVE  Order'
<1>0. /\ \A i \in DOMAIN wire : wire[i][1] \in Nat
      /\ \A k \in DOMAIN outq : outq[k].turn \in Nat
      /\ cur \in Nat
  BY OrderTypes
<1>1. /\ Len(outq) \in Nat
      /\ DOMAIN outq = 1 .. Len(outq) /\ DOMAIN outq' = 1 .. Len(outq) + 1
      /\ outq'[Len(outq) + 1] = f /\ \A i \in DOMAIN outq : outq'[i] = outq[i]
  BY Appended
<1>2. \A k \in DOMAIN outq' : k \in DOMAIN outq \/ k = Len(outq) + 1
  BY <1>1
<1>3. \A k, l \in DOMAIN outq' : k < l => k \in DOMAIN outq
  BY <1>1
<1>4. Conversation'
  BY DEF Order, Conversation
<1>5. \A i \in DOMAIN wire' :
        wire'[i][1] <= cur' /\ (wire'[i][2] = "end" /\ Unended' => wire'[i][1] < cur')
  BY <1>0 DEF Order
<1>6. ASSUME NEW k \in DOMAIN outq', outq'[k].turn # 0
      PROVE  /\ outq'[k].turn <= cur'
             /\ outq'[k].kind # "event" /\ Unended' => outq'[k].turn < cur'
             /\ \A i \in DOMAIN wire' : /\ wire'[i][1] <= outq'[k].turn
                                        /\ wire'[i][2] = "end" => wire'[i][1] < outq'[k].turn
  <2>1. CASE k \in DOMAIN outq
    BY <1>1, <1>6, <2>1 DEF Order
  <2>2. CASE k = Len(outq) + 1
    BY <1>0, <1>1, <1>6, <2>2 DEF Order
  <2> QED BY <1>2, <2>1, <2>2
<1>7. ASSUME NEW k \in DOMAIN outq', NEW l \in DOMAIN outq', k < l,
             outq'[k].turn # 0, outq'[l].turn # 0
      PROVE  /\ outq'[k].turn <= outq'[l].turn
             /\ outq'[k].kind # "event" => outq'[k].turn < outq'[l].turn
  <2>1. k \in DOMAIN outq /\ outq'[k] = outq[k]
    BY <1>1, <1>3, <1>7
  <2>2. CASE l \in DOMAIN outq
    BY <1>1, <1>7, <2>1, <2>2 DEF Order
  <2>3. CASE l = Len(outq) + 1
    BY <1>0, <1>1, <1>7, <2>1, <2>3 DEF Order
  <2> QED BY <1>2, <2>2, <2>3
<1> QED BY <1>4, <1>5, <1>6, <1>7 DEF Order

LEMMA WireAppended ==
  ASSUME TypeOK, NEW e \in Turns \X {"event", "end"}, wire' = Append(wire, e)
  PROVE  /\ DOMAIN wire = 1 .. Len(wire) /\ DOMAIN wire' = 1 .. Len(wire) + 1
         /\ Len(wire) \in Nat /\ wire'[Len(wire) + 1] = e
         /\ \A i \in DOMAIN wire : wire'[i] = wire[i]
<1>1. /\ wire \in Seq(Turns \X {"event", "end"})
      /\ DOMAIN wire = 1 .. Len(wire) /\ Len(wire) \in Nat
  BY LenProperties DEF TypeOK
<1>2. /\ wire' \in Seq(Turns \X {"event", "end"}) /\ Len(wire') = Len(wire) + 1
      /\ wire'[Len(wire) + 1] = e /\ \A i \in 1 .. Len(wire) : wire'[i] = wire[i]
  BY <1>1, AppendProperties
<1>3. DOMAIN wire' = 1 .. Len(wire')
  BY <1>2, LenProperties
<1> QED BY <1>1, <1>2, <1>3

(* The first frame is sent. *)
LEMMA OrderSent ==
  ASSUME TypeOK, TypeOK', Order, outq # <<>>, wire' = Shown(outq[1]), Sub(outq', Tail(outq)),
         Senders, cur' = cur, Unended' => Unended
  PROVE  Order'
<1>1. /\ outq \in Seq(Frames) /\ outq' \in Seq(Frames) /\ Tail(outq) \in Seq(Frames)
      /\ 1 \in DOMAIN outq /\ Sub(Tail(outq), outq) /\ outq[1] \in Frames
  BY OutqIs, HeadGone DEF TypeOK, Frames
<1>2. CASE outq[1].turn = 0 \/ gone
  <2>1. Sub(outq', outq)
    BY <1>1, SubTrans
  <2> QED BY <1>2, <2>1, OrderLess DEF Shown
<1>3. CASE ~(outq[1].turn = 0 \/ gone)
  <2>1. PICK f : f = outq[1]
    OBVIOUS
  <2>2. PICK e : e = <<f.turn, IF f.kind = "event" THEN "event" ELSE "end">>
    OBVIOUS
  <2>3. /\ e \in Turns \X {"event", "end"} /\ e[1] = f.turn /\ (e[2] = "end" <=> f.kind # "event")
        /\ f.turn # 0 /\ f.turn \in Nat
    BY <1>1, <1>3, <2>1, <2>2, WsAssumption DEF Frames, Turns
  <2>4. wire' = Append(wire, e)
    BY <1>3, <2>1, <2>2 DEF Shown
  <2>5. /\ DOMAIN wire = 1 .. Len(wire) /\ DOMAIN wire' = 1 .. Len(wire) + 1
        /\ Len(wire) \in Nat /\ wire'[Len(wire) + 1] = e
        /\ \A i \in DOMAIN wire : wire'[i] = wire[i]
    BY <2>3, <2>4, WireAppended
  <2>6. /\ \A i \in DOMAIN wire : wire[i][1] \in Nat
        /\ \A k \in DOMAIN outq : outq[k].turn \in Nat
        /\ cur \in Nat
    BY OrderTypes
  <2>7. PICK h \in [1 .. Len(outq') -> 1 .. Len(Tail(outq))] :
          /\ \A i, j \in 1 .. Len(outq') : i < j => h[i] < h[j]
          /\ \A i \in 1 .. Len(outq') : outq'[i] = Tail(outq)[h[i]]
    BY DEF Sub
  <2>8. /\ DOMAIN outq' = 1 .. Len(outq') /\ DOMAIN outq = 1 .. Len(outq) /\ Len(outq) \in Nat
        /\ Len(Tail(outq)) = Len(outq) - 1
        /\ \A i \in 1 .. Len(Tail(outq)) : Tail(outq)[i] = outq[i + 1]
    BY <1>1, OutqIs, LenProperties, HeadTailProperties
  <2>9. \A k \in DOMAIN outq' : /\ h[k] + 1 \in DOMAIN outq /\ outq'[k] = outq[h[k] + 1]
                                /\ 1 < h[k] + 1
    BY <2>7, <2>8
  <2>10. \A k, l \in DOMAIN outq' : k < l => h[k] + 1 < h[l] + 1
    BY <2>7, <2>8
  <2>11. \A i \in DOMAIN wire' : i \in DOMAIN wire \/ i = Len(wire) + 1
    BY <2>5
  <2>12. \A i, j \in DOMAIN wire' : i < j => i \in DOMAIN wire
    BY <2>5
  <2>13. /\ f.turn <= cur /\ (f.kind # "event" /\ Unended => f.turn < cur)
         /\ \A i \in DOMAIN wire : /\ wire[i][1] <= f.turn
                                   /\ wire[i][2] = "end" => wire[i][1] < f.turn
    BY <1>1, <2>1, <2>3 DEF Order
  <2>14. ASSUME NEW i \in DOMAIN wire', NEW j \in DOMAIN wire', i < j
         PROVE  /\ wire'[i][1] <= wire'[j][1]
                /\ wire'[i][2] = "end" => wire'[i][1] < wire'[j][1]
    <3>1. i \in DOMAIN wire /\ wire'[i] = wire[i]
      BY <2>5, <2>12, <2>14
    <3>2. CASE j \in DOMAIN wire
      BY <2>5, <2>14, <3>1, <3>2 DEF Order, Conversation
    <3>3. CASE j = Len(wire) + 1
      BY <2>3, <2>5, <2>13, <3>1, <3>3
    <3> QED BY <2>11, <3>2, <3>3
  <2>15. ASSUME NEW i \in DOMAIN wire'
         PROVE  wire'[i][1] <= cur' /\ (wire'[i][2] = "end" /\ Unended' => wire'[i][1] < cur')
    <3>1. CASE i \in DOMAIN wire
      BY <2>5, <3>1 DEF Order
    <3>2. CASE i = Len(wire) + 1
      BY <2>3, <2>5, <2>13, <3>2
    <3> QED BY <2>11, <3>1, <3>2
  <2>16. ASSUME NEW k \in DOMAIN outq', outq'[k].turn # 0
         PROVE  /\ outq'[k].turn <= cur'
                /\ outq'[k].kind # "event" /\ Unended' => outq'[k].turn < cur'
                /\ \A i \in DOMAIN wire' : /\ wire'[i][1] <= outq'[k].turn
                                           /\ wire'[i][2] = "end" => wire'[i][1] < outq'[k].turn
    <3>1. PICK m \in DOMAIN outq : outq'[k] = outq[m] /\ 1 < m
      BY <2>9
    <3>2. /\ outq[m].turn <= cur /\ (outq[m].kind # "event" /\ Unended => outq[m].turn < cur)
          /\ \A i \in DOMAIN wire : /\ wire[i][1] <= outq[m].turn
                                    /\ wire[i][2] = "end" => wire[i][1] < outq[m].turn
          /\ f.turn <= outq[m].turn /\ (f.kind # "event" => f.turn < outq[m].turn)
      BY <1>1, <2>1, <2>3, <2>16, <3>1 DEF Order
    <3>3. ASSUME NEW i \in DOMAIN wire'
          PROVE  /\ wire'[i][1] <= outq[m].turn
                 /\ wire'[i][2] = "end" => wire'[i][1] < outq[m].turn
      <4>1. CASE i \in DOMAIN wire
        BY <2>5, <3>2, <4>1
      <4>2. CASE i = Len(wire) + 1
        BY <2>3, <2>5, <3>2, <4>2
      <4> QED BY <2>11, <4>1, <4>2
    <3> QED BY <3>1, <3>2, <3>3
  <2>17. ASSUME NEW k \in DOMAIN outq', NEW l \in DOMAIN outq', k < l,
                outq'[k].turn # 0, outq'[l].turn # 0
         PROVE  /\ outq'[k].turn <= outq'[l].turn
                /\ outq'[k].kind # "event" => outq'[k].turn < outq'[l].turn
    BY <2>9, <2>10, <2>17 DEF Order
  <2> QED BY <2>14, <2>15, <2>16, <2>17 DEF Order, Conversation
<1> QED BY <1>2, <1>3

LEMMA OrderNext == IInv /\ Senders' /\ TypeOK' /\ [Next]_vars => Order'
<1> SUFFICES ASSUME IInv, Senders', TypeOK', [Next]_vars PROVE Order'
  OBVIOUS
<1>0. /\ TypeOK /\ Senders /\ Stages /\ Order
      /\ outq \in Seq(Frames) /\ Sub(outq, outq) /\ outq' \in Seq(Frames)
  BY OutqIs, SubSelf DEF IInv, TypeOK, Frames
<1>1. ASSUME outq' = outq, wire' = wire, cur' = cur, Unended' => Unended
      PROVE  Order'
  BY <1>0, <1>1, OrderLess
<1>2. CASE \/ Message \/ OtherFrame \/ Leaves \/ CancelIgnored \/ Cancel \/ UNCHANGED vars
  BY <1>1, <1>2 DEF Message, OtherFrame, Leaves, CancelIgnored, Cancel, Receive, Receives, Unended
<1>3. CASE Accept
  <2>1. cur < cur' /\ outq' = outq /\ wire' = wire
    BY <1>3, FirstMessage DEF Accept, Receive
  <2> QED BY <1>0, <2>1, OrderLess
<1>4. CASE Refuse \/ Malformed \/ Ping \/ Beat
  <2>1. PICK f \in Frames : f.turn = 0 /\ outq' = Append(outq, f)
    <3>1. \A who \in {"loop", "beat"} : \A kind \in {"close", "pong", "beat"} :
            Frame(who, 0, kind) \in Frames /\ Frame(who, 0, kind).turn = 0
      BY WsAssumption DEF Frame, Frames
    <3> QED BY <1>4, <3>1 DEF Refuse, Malformed, Ping, Beat, Close
  <2>2. wire' = wire /\ cur' = cur /\ (Unended' => Unended)
    BY <1>4 DEF Refuse, Malformed, Ping, Beat, Close, Unended
  <2> QED BY <1>0, <2>1, <2>2, OrderMore
<1>5. CASE CancelDone
  <2>1. PICK f : f = Frame("loop", cur, "end")
    OBVIOUS
  <2>2. f \in Frames /\ f.turn = cur
    BY <1>0, <2>1 DEF Frame, Frames, TypeOK
  <2>3. outq' = Append(outq, f) /\ wire' = wire /\ cur' = cur /\ ~Unended' /\ Unended
    BY <1>5, <2>1 DEF CancelDone, Unended
  <2> QED BY <1>0, <2>2, <2>3, OrderMore
<1>6. CASE Disconnected \/ Shutdown \/ Closed \/ SessionSendRaises
  <2>1. PICK rest \in Seq(Frames) : Sub(rest, outq) /\ EndSession(rest)
    <3>1. outq # <<>> => Tail(outq) \in Seq(Frames) /\ Sub(Tail(outq), outq)
      BY <1>0, HeadGone
    <3> QED BY <1>0, <1>6, <3>1 DEF Disconnected, Shutdown, Closed, SessionSendRaises
  <2>2. Sub(outq', outq)
    BY <1>0, <2>1, EndSessionIs
  <2>3. wire' = wire /\ cur' = cur /\ (Unended' => Unended)
    BY <1>6 DEF Disconnected, Shutdown, Closed, SessionSendRaises, EndSession, Unended
  <2> QED BY <1>0, <2>2, <2>3, OrderLess
<1>7. CASE BeatSent \/ TurnSendRaises
  <2>1. outq # <<>> /\ outq' = Tail(outq) /\ wire' = wire /\ cur' = cur /\ (Unended' => Unended)
    BY <1>7 DEF BeatSent, TurnSendRaises, Unended
  <2> QED BY <1>0, <2>1, HeadGone, OrderLess
<1>8. CASE TurnSent \/ LoopSent
  <2>1. /\ outq # <<>> /\ outq' = Tail(outq) /\ wire' = Shown(outq[1]) /\ cur' = cur
        /\ (Unended' => Unended)
    BY <1>8 DEF TurnSent, LoopSent, Unended
  <2>2. Sub(outq', Tail(outq))
    BY <1>0, <2>1, SubSelf
  <2> QED BY <1>0, <2>1, <2>2, OrderSent
<1>9. ASSUME NEW t \in Turns, NEW kind, NEW label, Sends(t, kind, label),
             wire' = wire, cur' = cur, loop' = loop,
             \/ kind = "event" /\ label = "sending" /\ pc[t] = "streaming"
             \/ kind = "end" /\ label = "ending" /\ pc[t] = "streaming"
             \/ kind = "refusal" /\ label = "failing" /\ pc[t] \in {"opening", "building"}
      PROVE  Order'
  <2>1. busy /\ cur = t /\ (busy' <=> kind = "event") /\ busy' \in BOOLEAN
    BY <1>0, <1>9, SendsStage
  <2>2. CASE cancelled[t]
    <3>1. outq' = outq /\ (Unended' => Unended)
      BY <1>9, <2>1, <2>2 DEF Sends, Unended
    <3> QED BY <1>1, <1>9, <3>1
  <2>3. CASE ~cancelled[t]
    <3>1. PICK f : f = Frame("turn", t, kind)
      OBVIOUS
    <3>2. f \in Frames /\ f.turn = cur /\ f.kind = kind
      BY <1>9, <2>1, <3>1 DEF Frame, Frames, Turns
    <3>3. outq' = Append(outq, f)
      BY <1>9, <2>3, <3>1 DEF Sends
    <3>4. Unended /\ (kind = "event" \/ ~Unended')
      BY <1>0, <1>9, <2>1, <2>3 DEF Unended, Stages
    <3> QED BY <1>0, <1>9, <3>2, <3>3, <3>4, OrderMore
  <2> QED BY <2>2, <2>3
<1>10. ASSUME NEW t \in Turns, OpenFails(t) \/ Event(t) \/ LastEvent(t)
       PROVE  Order'
  <2>1. CASE OpenFails(t)
    BY <1>9, <2>1 DEF OpenFails
  <2>2. CASE Event(t)
    BY <1>9, <2>2 DEF Event, Takes
  <2>3. CASE LastEvent(t)
    BY <1>9, <2>3 DEF LastEvent, Takes
  <2> QED BY <1>10, <2>1, <2>2, <2>3
<1>11. ASSUME NEW t \in Turns,
              \/ Acquire(t) \/ Open(t) \/ Silent(t) \/ StreamRaises(t) \/ StopRun(t)
              \/ Released(t) \/ Producer(t)
       PROVE  Order'
  <2>1. UNCHANGED <<outq, wire, cur, busy, loop>>
    BY <1>11 DEF Acquire, Open, Silent, StreamRaises, StopRun, Released, Producer, Produce,
                 RunEnds, Puts
  <2> QED BY <1>1, <2>1 DEF Unended
<1>12. ASSUME NEW t \in Turns, Cancelled(t)
       PROVE  Order'
  <2>1. /\ outq' = Withdrawn(outq, "turn", t) /\ UNCHANGED session
        /\ \/ wire' = wire
           \/ outq # <<>> /\ From(outq[1], "turn", t) /\ wire' = Shown(outq[1])
    BY <1>12 DEF Cancelled
  <2>2. Sub(outq', outq) /\ \A i \in DOMAIN outq' : ~From(outq'[i], "turn", t)
    BY <1>0, <2>1, WithdrawnFrames DEF Senders
  <2>3. CASE wire' = wire
    BY <1>0, <2>1, <2>2, <2>3, OrderLess DEF Unended
  <2>4. CASE outq # <<>> /\ From(outq[1], "turn", t) /\ wire' = Shown(outq[1])
    <3>1. PICK h \in [1 .. Len(outq') -> 1 .. Len(outq)] :
            /\ \A i, j \in 1 .. Len(outq') : i < j => h[i] < h[j]
            /\ \A i \in 1 .. Len(outq') : outq'[i] = outq[h[i]]
      BY <2>2 DEF Sub
    <3>2. /\ Len(Tail(outq)) = Len(outq) - 1 /\ Len(outq) \in Nat
          /\ \A i \in 1 .. Len(Tail(outq)) : Tail(outq)[i] = outq[i + 1]
          /\ DOMAIN outq' = 1 .. Len(outq')
      BY <1>0, <2>4, HeadTailProperties, LenProperties
    <3> DEFINE g == [i \in 1 .. Len(outq') |-> h[i] - 1]
    <3>3. \A i \in 1 .. Len(outq') : h[i] # 1
      BY <2>2, <2>4, <3>1, <3>2
    <3>4. g \in [1 .. Len(outq') -> 1 .. Len(Tail(outq))]
      BY <3>1, <3>2, <3>3
    <3>5. \A i, j \in 1 .. Len(outq') : i < j => g[i] < g[j]
      BY <3>1
    <3>6. ASSUME NEW i \in 1 .. Len(outq')
          PROVE  outq'[i] = Tail(outq)[g[i]]
      <4>1. g[i] \in 1 .. Len(Tail(outq)) /\ g[i] + 1 = h[i]
        BY <3>1, <3>4
      <4> HIDE DEF g
      <4> QED BY <3>1, <3>2, <4>1
    <3> HIDE DEF g
    <3>7. Sub(outq', Tail(outq))
      BY <3>4, <3>5, <3>6 DEF Sub
    <3>8. cur' = cur /\ (Unended' => Unended)
      BY <2>1 DEF Unended
    <3> QED BY <1>0, <2>4, <3>7, <3>8, OrderSent
  <2> QED BY <2>1, <2>3, <2>4
<1> QED
  BY <1>2, <1>3, <1>4, <1>5, <1>6, <1>7, <1>8, <1>10, <1>11, <1>12
     DEF Next, Client, Loop, Sending, TurnStep

-----------------------------------------------------------------------------
(* Manners. *)

LEMMA WireGrows ==
  IInv /\ TypeOK' /\ [Next]_vars => \A t \in Turns : Ended(t) => Ended(t)'
<1> SUFFICES ASSUME IInv, TypeOK', [Next]_vars, NEW t \in Turns, Ended(t) PROVE Ended(t)'
  OBVIOUS
<1>1. PICK i \in DOMAIN wire : wire[i] = <<t, "end">>
  BY DEF Ended
<1>2. ASSUME outq # <<>>, wire' = Shown(outq[1])
      PROVE  i \in DOMAIN wire' /\ wire'[i] = wire[i]
  <2>1. CASE outq[1].turn = 0 \/ gone
    BY <1>2, <2>1 DEF Shown
  <2>2. CASE ~(outq[1].turn = 0 \/ gone)
    <3>1. PICK e : e = <<outq[1].turn, IF outq[1].kind = "event" THEN "event" ELSE "end">>
      OBVIOUS
    <3>2. outq[1] \in Frames
      BY <1>2, HeadGone DEF IInv
    <3>3. e \in Turns \X {"event", "end"}
      BY <2>2, <3>1, <3>2, WsAssumption DEF Frames, Turns
    <3>4. wire' = Append(wire, e)
      BY <1>2, <2>2, <3>1 DEF Shown
    <3>5. /\ DOMAIN wire = 1 .. Len(wire) /\ DOMAIN wire' = 1 .. Len(wire) + 1
          /\ Len(wire) \in Nat /\ \A j \in DOMAIN wire : wire'[j] = wire[j]
      BY <3>3, <3>4, WireAppended DEF IInv
    <3> QED BY <3>5
  <2> QED BY <2>1, <2>2
<1>3. wire' = wire \/ (outq # <<>> /\ wire' = Shown(outq[1]))
  <2>1. CASE Client \/ Beat \/ Shutdown \/ Disconnected \/ UNCHANGED vars
    BY <2>1 DEF Client, Message, OtherFrame, Leaves, Disconnected, Beat, Shutdown
  <2>2. CASE Loop /\ ~Disconnected
    <3>1. Accept \/ CancelIgnored \/ Cancel \/ CancelDone => wire' = wire
      BY DEF Accept, CancelIgnored, Cancel, CancelDone
    <3>2. Refuse \/ Malformed \/ Ping => wire' = wire
      BY DEF Refuse, Malformed, Close, Ping
    <3> QED BY <2>2, <3>1, <3>2 DEF Loop
  <2>3. CASE Sending
    <3>1. TurnSent \/ LoopSent => outq # <<>> /\ wire' = Shown(outq[1])
      BY DEF TurnSent, LoopSent
    <3>2. Closed \/ BeatSent \/ TurnSendRaises \/ SessionSendRaises => wire' = wire
      BY DEF Closed, BeatSent, TurnSendRaises, SessionSendRaises
    <3> QED BY <2>3, <3>1, <3>2 DEF Sending
  <2>4. ASSUME NEW u \in Turns, TurnStep(u) \/ Producer(u)
        PROVE  wire' = wire \/ (outq # <<>> /\ wire' = Shown(outq[1]))
    <3>1. Cancelled(u) => wire' = wire \/ (outq # <<>> /\ wire' = Shown(outq[1]))
      BY DEF Cancelled
    <3>2. Acquire(u) \/ Open(u) \/ OpenFails(u) \/ Event(u) \/ Silent(u) \/ LastEvent(u)
            \/ StreamRaises(u) => wire' = wire
      BY DEF Acquire, Open, OpenFails, Event, Silent, LastEvent, StreamRaises
    <3>3. StopRun(u) \/ Released(u) \/ Producer(u) => wire' = wire
      BY DEF StopRun, Released, Producer, Produce, RunEnds, Puts
    <3> QED BY <2>4, <3>1, <3>2, <3>3 DEF TurnStep
  <2> QED BY <2>1, <2>2, <2>3, <2>4 DEF Next
<1>4. i \in DOMAIN wire' /\ wire'[i] = wire[i]
  BY <1>1, <1>2, <1>3
<1> QED BY <1>1, <1>4 DEF Ended

LEMMA MannersNext == IInv /\ TypeOK' /\ Stages' /\ [Next]_vars => Manners'
<1> SUFFICES ASSUME IInv, TypeOK', Stages', [Next]_vars PROVE Manners'
  OBVIOUS
<1>0. TypeOK /\ Stages /\ Order /\ Manners /\ spoken \in Nat /\ cur \in Nat
  <2>1. TypeOK /\ Stages /\ Order /\ Manners
    BY DEF IInv
  <2>2. spoken \in Nat /\ cur \in Nat
    BY <2>1 DEF TypeOK
  <2> QED BY <2>1, <2>2
<1>1. \A t \in Turns : Ended(t) => Ended(t)'
  BY WireGrows
<1>2. ASSUME NEW t \in polite
      PROVE  t \in Turns /\ (t = 1 \/ (t - 1 \in Turns /\ Ended(t - 1)'))
  <2>1. t \in Turns /\ (t = 1 \/ Ended(t - 1))
    BY <1>0, <1>2 DEF Manners, TypeOK
  <2>2. t = 1 \/ t - 1 \in Turns
    BY <2>1, WsAssumption DEF Turns
  <2> QED BY <1>1, <2>1, <2>2 DEF Ended
<1>3. CASE Message
  <2>1. PICK u : u = spoken + 1
    OBVIOUS
  <2>2. u \in Turns /\ u > spoken /\ pc[u] = "idle"
    BY <1>0, <1>3, <2>1, WsAssumption DEF Message, Stages, Stage, Turns
  <2>3. /\ UNCHANGED <<pc, wire>> /\ spoken' = u
        /\ polite' = IF spoken = 0 \/ Ended(spoken) THEN polite \cup {u} ELSE polite
    BY <1>3, <2>1 DEF Message
  <2>4. ASSUME NEW t \in polite'
        PROVE  t <= u /\ pc[t] # "refused" /\ (t = 1 \/ Ended(t - 1))
    <3>1. CASE t \in polite
      BY <1>0, <2>1, <3>1 DEF Manners, TypeOK, Turns
    <3>2. CASE t = u /\ (spoken = 0 \/ Ended(spoken))
      <4>1. u - 1 = spoken /\ (spoken = 0 => u = 1)
        BY <1>0, <2>1
      <4> QED BY <2>2, <3>2, <4>1 DEF Turns
    <3> QED BY <2>3, <2>4, <3>1, <3>2
  <2> QED BY <2>3, <2>4 DEF Manners, Ended
<1>4. CASE Refuse
  <2>1. PICK u : u = inbox[1][2]
    OBVIOUS
  <2>2. u \in Turns /\ cur < u /\ u <= spoken /\ busy /\ cur \in Turns
    BY <1>0, <1>4, <2>1, FirstMessage DEF Refuse, Receive, Stages
  <2>3. /\ UNCHANGED <<polite, spoken, wire>> /\ \A t \in Turns : t # u => pc'[t] = pc[t]
    BY <1>0, <1>4, <2>1, <2>2 DEF Refuse, Close, Receive, Goto, TypeOK
  <2>4. u \notin polite
    <3> SUFFICES ASSUME u \in polite PROVE FALSE
      OBVIOUS
    <3>1. u # 1
      BY <2>2 DEF Turns
    <3>2. PICK i \in DOMAIN wire : wire[i] = <<u - 1, "end">>
      BY <1>0, <3>1 DEF Manners, Ended
    <3>3. wire[i][1] < cur
      BY <1>0, <2>2, <3>2 DEF Order, Unended
    <3> QED BY <1>0, <2>2, <3>2, <3>3 DEF Turns
  <2> QED BY <1>0, <1>2, <2>3, <2>4 DEF Manners
<1>5. ASSUME polite' = polite, spoken' = spoken,
             \A t \in Turns : pc'[t] = "refused" => pc[t] = "refused"
      PROVE  Manners'
  BY <1>0, <1>2, <1>5 DEF Manners
<1>6. CASE OtherFrame \/ Leaves \/ Beat \/ Shutdown \/ UNCHANGED vars
  BY <1>5, <1>6 DEF OtherFrame, Leaves, Beat, Shutdown, EndSession
<1>7. CASE Accept
  <2>1. inbox[1][2] \in Turns
    BY <1>7, FirstMessage DEF Accept, Receive
  <2>2. \A t \in Turns : pc'[t] = "refused" => pc[t] = "refused"
    BY <1>0, <1>7, <2>1 DEF Accept, Goto, TypeOK
  <2> QED BY <1>5, <1>7, <2>2 DEF Accept, Receive
<1>8. CASE Malformed \/ Ping \/ CancelIgnored \/ Cancel \/ CancelDone \/ Disconnected
  BY <1>5, <1>8 DEF Malformed, Close, Ping, CancelIgnored, Cancel, CancelDone, Disconnected,
                    EndSession, Receive
<1>9. CASE Sending
  <2>1. outq # <<>> => /\ 1 \in DOMAIN outq
                       /\ outq[1].who = "turn" => outq[1].kind \in {"event", "end", "refusal"}
    BY <1>0, HeadGone DEF IInv, Senders, SentByTurn
  <2>2. \A t \in Turns : pc'[t] = "refused" => pc[t] = "refused"
    <3>1. CASE LoopSent \/ Closed \/ BeatSent \/ TurnSendRaises \/ SessionSendRaises
      BY <1>0, <3>1 DEF LoopSent, Closed, BeatSent, TurnSendRaises, SessionSendRaises, Goto, TypeOK
    <3>2. CASE TurnSent
      BY <1>0, <2>1, <3>2 DEF TurnSent, Goto, TypeOK
    <3> QED BY <1>9, <3>1, <3>2 DEF Sending
  <2>3. polite' = polite /\ spoken' = spoken
    BY <1>9 DEF Sending, LoopSent, Closed, BeatSent, TurnSendRaises, SessionSendRaises, TurnSent,
                EndSession
  <2> QED BY <1>5, <2>2, <2>3
<1>10. ASSUME NEW u \in Turns, TurnStep(u) \/ Producer(u)
       PROVE  Manners'
  <2>1. polite' = polite /\ spoken' = spoken
    BY <1>10 DEF TurnStep, Acquire, Open, OpenFails, Event, Silent, LastEvent, StreamRaises,
                Cancelled, StopRun, Released, Producer, Produce, RunEnds, Puts
  <2>2. CASE Acquire(u) \/ Open(u) \/ StreamRaises(u) \/ Cancelled(u) \/ StopRun(u) \/ Released(u)
    <3>1. \A t \in Turns : pc'[t] = "refused" => pc[t] = "refused"
      BY <1>0, <2>2 DEF Acquire, Open, StreamRaises, Cancelled, StopRun, Released, Goto, TypeOK
    <3> QED BY <1>5, <2>1, <3>1
  <2>3. CASE OpenFails(u) \/ Event(u) \/ LastEvent(u)
    <3>1. ASSUME NEW kind, NEW label \in {"sending", "ending", "failing"}, Sends(u, kind, label)
          PROVE  \A t \in Turns : pc'[t] = "refused" => pc[t] = "refused"
      BY <1>0, <3>1 DEF Sends, Goto, TypeOK
    <3>2. \A t \in Turns : pc'[t] = "refused" => pc[t] = "refused"
      BY <2>3, <3>1 DEF OpenFails, Event, LastEvent
    <3> QED BY <1>5, <2>1, <3>2
  <2>4. CASE Silent(u) \/ Producer(u)
    <3>1. pc' = pc
      BY <2>4 DEF Silent, Producer, Produce, RunEnds, Puts
    <3> QED BY <1>5, <2>1, <3>1
  <2> QED BY <1>10, <2>2, <2>3, <2>4 DEF TurnStep
<1> QED
  BY <1>3, <1>4, <1>6, <1>7, <1>8, <1>9, <1>10 DEF Next, Client, Loop

-----------------------------------------------------------------------------

LEMMA IInvInit == Init => IInv
<1> SUFFICES ASSUME Init PROVE IInv
  OBVIOUS
<1>1. TypeOK
  BY TypeInit
<1>2. DOMAIN outq = {} /\ DOMAIN wire = {} /\ DOMAIN inbox = {}
  BY DEF Init
<1>3. Senders /\ Order /\ Manners
  BY <1>2 DEF Init, Senders, Order, Conversation, Manners
<1>4. Stages
  <2>1. \A t \in Turns : Stage(t)
    BY DEF Init, Stage
  <2> QED BY <1>2, <2>1 DEF Init, Stages
<1> QED BY <1>1, <1>3, <1>4 DEF IInv

(* The invariant holds in every state of every connection. *)
THEOREM Invariance == Spec => []IInv
<1>1. IInv /\ [Next]_vars => IInv'
  <2> SUFFICES ASSUME IInv, [Next]_vars PROVE IInv'
    OBVIOUS
  <2>1. TypeOK' /\ Senders' /\ Stages'
    BY TypeNext, SendersNext, StagesNext
  <2> QED BY <2>1, OrderNext, MannersNext DEF IInv
<1> QED BY <1>1, IInvInit, PTL DEF Spec

(* The session's variables have their types: what _Session and its tasks   *)
(* keep, the frames at the send lock and the queue of the pump.            *)
THEOREM TypesOK == Spec => []TypeOK
BY Invariance, PTL DEF IInv

(* The frames of a turn come before those of the next, and its terminal    *)
(* frame is its last, whoever sends it: the turn or the loop that answers  *)
(* a cancel.                                                               *)
THEOREM OneConversation == Spec => []Conversation
<1>1. IInv => Conversation
  BY DEF IInv, Order
<1> QED BY <1>1, Invariance, PTL

(* A client that waits for the terminal frame is never closed as busy: the *)
(* flag is cleared before the frame is queued.                             *)
THEOREM PoliteAreServed == Spec => []PoliteServed
<1>1. IInv => PoliteServed
  BY DEF IInv, Manners, PoliteServed
<1> QED BY <1>1, Invariance, PTL

(* A connection drives at most one run of the graph: a turn that is being  *)
(* cleaned up with a live run still holds the flag.                        *)
THEOREM SingleRun == Spec => []OneRun
<1>1. IInv => OneRun
  BY DEF IInv, Stages, Stage, OneRun
<1> QED BY <1>1, Invariance, PTL

==============================================================================
