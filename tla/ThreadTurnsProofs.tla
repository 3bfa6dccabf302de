--------------------------- MODULE ThreadTurnsProofs ---------------------------
(***************************************************************************)
(* Proofs about ThreadTurns, for any number of turns, with and without     *)
(* overlapping messages and under any of the faults.                       *)
(*                                                                         *)
(* The inductive invariant says who owns the claim (ClaimOwned), that a    *)
(* resume owns it from _resume_input until its finalizer is done (Phases), *)
(* that an answered occurrence is not open any more (Spent), and that a    *)
(* record exists only for a turn whose flag is set (Billed).               *)
(*                                                                         *)
(* Two theorems are about the threads on which only retries of resumes     *)
(* overlap (~Overlaps), as without that they are false: an answer meets    *)
(* its question, and a turn is billed for its own run.  Their invariant    *)
(* (Serial) says that what a turn has read of the thread is still so.      *)
(***************************************************************************)
EXTENDS ThreadTurns, TLAPS

(* A turn owns the claim from _resume_input on, at least until its run and *)
(* its finalizer are over; before its run starts it has no results.        *)
Phases ==
  \A t \in Turns :
    /\ pc[t] = "new" => ~IsResume(t)
    /\ pc[t] \in {"state", "snapped"} => hook[t]
    /\ hook[t] => IsResume(t) /\ pc[t] \notin {"new", "opening", "over"}
    /\ pc[t] \in {"new", "opening", "state", "snapped", "over"} => run[t] = "none"
    /\ run[t] = "none" => fin[t] = "none"
    /\ fin[t] \in {"waiting", "append"} => hook[t]
    /\ IsResume(t) /\ run[t] \in Live => fin[t] = "waiting"

(* The occurrence a completed run answered is not open any more, and no    *)
(* other run that may still commit has met it.                             *)
Spent ==
  /\ pending.occ <= raised
  /\ \A t \in Turns :
       /\ took[t] <= raised
       /\ took[t] # 0 => IsResume(t)
       /\ run[t] \in {"none", "starting"} => took[t] = 0
       /\ took[t] # 0 /\ run[t] = "completed" => pending.occ # took[t]
  /\ \A t, u \in Turns :
       t # u /\ took[t] # 0 /\ took[t] = took[u] /\ run[t] = "completed"
       => run[u] \notin {"running", "completed"}

(* A record under way or stored belongs to a turn whose flag is set, and   *)
(* is its only one.                                                        *)
Billed == (\A d \in due \cup rows : recorded[d[1]]) /\ BilledOnce

IInv == TypeOK /\ ClaimOwned /\ Phases /\ Spent /\ Billed

USE DEF TypeOK, vars, engine, request, running, lease, usage, Goto, Live, IsResume

(* The parts of a step, for one case split on Next. *)
LEMMA Steps ==
  ASSUME Next
  PROVE  \E t \in Turns :
           \/ Begin(t) \/ OpenPlain(t) \/ Claim(t) \/ ResumeInProgress(t)
           \/ ReadState(t) \/ Resume(t) \/ NotResumable(t) \/ OpenFails(t)
           \/ RunLoads(t) \/ RunCommits(t) \/ RunFails(t)
           \/ StreamEnds(t) \/ FenceRead(t) \/ FinishRun(t) \/ StreamFails(t)
           \/ Disconnect(t) \/ Finalize(t) \/ Finalized(t)
           \/ (\E d \in due : d[1] = t /\ Append(d)) \/ Release(t)
  BY DEF Next, Turn, Opens, Runs, Streams, Finishes, Appends

-----------------------------------------------------------------------------
(* Types. *)

LEMMA RecordsTyped ==
  ASSUME NEW t \in Turns, NEW w \in {"stream", "finalizer"}, TypeOK, Records(t, w)
  PROVE  recorded' \in [Turns -> BOOLEAN] /\ due' \subseteq Record
<1>1. CASE latest = base[t] \/ recorded[t]
  BY <1>1 DEF Records
<1>2. CASE ~(latest = base[t] \/ recorded[t])
  <2>1. <<t, w, latest>> \in Record
    BY DEF Record
  <2> QED BY <1>2, <2>1 DEF Records
<1> QED BY <1>1, <1>2

LEMMA TypeNext ==
  ASSUME TypeOK, [Next]_vars
  PROVE  TypeOK'
<1>1. CASE Next
  <2>0. PICK t \in Turns :
           \/ Begin(t) \/ OpenPlain(t) \/ Claim(t) \/ ResumeInProgress(t)
           \/ ReadState(t) \/ Resume(t) \/ NotResumable(t) \/ OpenFails(t)
           \/ RunLoads(t) \/ RunCommits(t) \/ RunFails(t)
           \/ StreamEnds(t) \/ FenceRead(t) \/ FinishRun(t) \/ StreamFails(t)
           \/ Disconnect(t) \/ Finalize(t) \/ Finalized(t)
           \/ (\E d \in due : d[1] = t /\ Append(d)) \/ Release(t)
    BY <1>1, Steps
  <2>1. CASE Begin(t)
    BY <2>1 DEF Begin
  <2>2. CASE OpenPlain(t)
    BY <2>2 DEF OpenPlain, StartRun
  <2>3. CASE Claim(t) \/ ReadState(t)
    <3>1. CASE Claim(t)
      BY <3>1 DEF Claim
    <3>2. CASE ReadState(t)
      <4>1. [pending |-> pending, ckpt |-> ckpt] \in [pending : Interrupt, ckpt : Nat]
        OBVIOUS
      <4> QED BY <3>2, <4>1 DEF ReadState
    <3> QED BY <2>3, <3>1, <3>2
  <2>4. CASE ResumeInProgress(t) \/ NotResumable(t) \/ OpenFails(t)
    BY <2>4 DEF ResumeInProgress, NotResumable, OpenFails, Refused
  <2>5. CASE Resume(t)
    BY <2>5 DEF Resume, StartRun
  <2>6. CASE RunLoads(t)
    BY <2>6 DEF RunLoads, Interrupt
  <2>7. CASE RunCommits(t)
    <3>1. ckpt' \in Nat /\ latest' \in Nat /\ ran' \in [Turns -> Nat]
      BY <2>7 DEF RunCommits
    <3>0. run' \in [Turns -> Live \cup {"none", "completed", "failed", "cancelled"}]
      BY <2>7 DEF RunCommits
    <3>2. pending' \in Interrupt /\ raised' \in Nat /\ mine' \in [Turns -> Interrupt]
      <4>1. CASE Asks(t)
        BY <2>7, <4>1 DEF RunCommits, Asks, Interrupt, Token
      <4>2. CASE AsksAgain(t)
        BY <2>7, <4>2 DEF RunCommits, AsksAgain
      <4>3. CASE Ends(t)
        BY <2>7, <4>3 DEF RunCommits, Ends, None, Interrupt
      <4> QED BY <2>7, <4>1, <4>2, <4>3 DEF RunCommits
    <3>3. took' = took /\ tokens' = tokens
          /\ UNCHANGED <<request, lease, fin, base, usage>>
      BY <2>7 DEF RunCommits
    <3> QED BY <3>0, <3>1, <3>2, <3>3
  <2>8. CASE RunFails(t)
    BY <2>8 DEF RunFails
  <2>9. CASE StreamEnds(t)
    <3>1. recorded' \in [Turns -> BOOLEAN] /\ due' \subseteq Record /\ rows' = rows
      BY <2>9, RecordsTyped DEF StreamEnds
    <3> QED BY <2>9, <3>1 DEF StreamEnds
  <2>10. CASE FenceRead(t)
    <3>1. recorded' \in [Turns -> BOOLEAN] /\ due' \subseteq Record
      BY <2>10, RecordsTyped DEF FenceRead
    <3>2. fenceId' \in [Turns -> Nat]
      BY <2>10 DEF FenceRead
    <3> QED BY <2>10, <3>1, <3>2 DEF FenceRead
  <2>11. CASE FinishRun(t)
    <3>1. tokens' \subseteq {k \in Token : k.fence # 0}
      BY <2>11 DEF FinishRun, Fenced, Token, Interrupt
    <3> QED BY <2>11, <3>1 DEF FinishRun, Closes
  <2>12. CASE StreamFails(t)
    BY <2>12 DEF StreamFails, Closes
  <2>13. CASE Disconnect(t)
    BY <2>13 DEF Disconnect, Closes
  <2>14. CASE Finalize(t)
    <3>1. recorded' \in [Turns -> BOOLEAN] /\ due' \subseteq Record
      BY <2>14, RecordsTyped DEF Finalize
    <3> QED BY <2>14, <3>1 DEF Finalize
  <2>15. CASE Finalized(t)
    BY <2>15 DEF Finalized
  <2>16. CASE \E d \in due : d[1] = t /\ Append(d)
    BY <2>16 DEF Append
  <2>17. CASE Release(t)
    BY <2>17 DEF Release, Discards
  <2> QED BY <2>0, <2>1, <2>2, <2>3, <2>4, <2>5, <2>6, <2>7, <2>8, <2>9, <2>10, <2>11,
             <2>12, <2>13, <2>14, <2>15, <2>16, <2>17
<1>2. CASE UNCHANGED vars
  BY <1>2
<1> QED BY <1>1, <1>2

-----------------------------------------------------------------------------
(* Only Claim sets the claim and a hook, together and when there is neither. *)
LEMMA ClaimNext ==
  ASSUME TypeOK, ClaimOwned, [Next]_vars
  PROVE  ClaimOwned'
<1>1. CASE Next
  <2>0. PICK t \in Turns :
           \/ Begin(t) \/ OpenPlain(t) \/ Claim(t) \/ ResumeInProgress(t)
           \/ ReadState(t) \/ Resume(t) \/ NotResumable(t) \/ OpenFails(t)
           \/ RunLoads(t) \/ RunCommits(t) \/ RunFails(t)
           \/ StreamEnds(t) \/ FenceRead(t) \/ FinishRun(t) \/ StreamFails(t)
           \/ Disconnect(t) \/ Finalize(t) \/ Finalized(t)
           \/ (\E d \in due : d[1] = t /\ Append(d)) \/ Release(t)
    BY <1>1, Steps
  <2>1. CASE Claim(t)
    BY <2>1 DEF Claim, Claimable, ClaimOwned
  <2>2. CASE ResumeInProgress(t) \/ NotResumable(t) \/ OpenFails(t)
    BY <2>2 DEF ResumeInProgress, NotResumable, OpenFails, Refused, ClaimOwned
  <2>3. CASE Release(t)
    BY <2>3 DEF Release, Discards, ClaimOwned
  <2>4. CASE Begin(t) \/ OpenPlain(t) \/ ReadState(t) \/ Resume(t)
    BY <2>4 DEF Begin, OpenPlain, ReadState, Resume, ClaimOwned
  <2>5. CASE RunLoads(t) \/ RunCommits(t) \/ RunFails(t)
    BY <2>5 DEF RunLoads, RunCommits, RunFails, ClaimOwned
  <2>6. CASE \/ StreamEnds(t) \/ FenceRead(t) \/ FinishRun(t) \/ StreamFails(t)
            \/ Disconnect(t)
    BY <2>6 DEF StreamEnds, FenceRead, FinishRun, StreamFails, Disconnect, ClaimOwned
  <2>7. CASE \/ Finalize(t) \/ Finalized(t)
            \/ \E d \in due : d[1] = t /\ Append(d)
    BY <2>7 DEF Finalize, Finalized, Append, ClaimOwned
  <2> QED BY <2>0, <2>1, <2>2, <2>3, <2>4, <2>5, <2>6, <2>7
<1>2. CASE UNCHANGED vars
  BY <1>2 DEF ClaimOwned
<1> QED BY <1>1, <1>2

(* The claim is held from the check to the end of the finalizer. *)
LEMMA PhasesNext ==
  ASSUME TypeOK, ClaimOwned, Phases, [Next]_vars
  PROVE  Phases'
<1>1. CASE Next
  <2>0. PICK t \in Turns :
           \/ Begin(t) \/ OpenPlain(t) \/ Claim(t) \/ ResumeInProgress(t)
           \/ ReadState(t) \/ Resume(t) \/ NotResumable(t) \/ OpenFails(t)
           \/ RunLoads(t) \/ RunCommits(t) \/ RunFails(t)
           \/ StreamEnds(t) \/ FenceRead(t) \/ FinishRun(t) \/ StreamFails(t)
           \/ Disconnect(t) \/ Finalize(t) \/ Finalized(t)
           \/ (\E d \in due : d[1] = t /\ Append(d)) \/ Release(t)
    BY <1>1, Steps
  <2>1. CASE Begin(t)
    BY <2>1 DEF Begin, Phases
  <2>2. CASE OpenPlain(t)
    BY <2>2 DEF OpenPlain, StartRun, Phases
  <2>3. CASE Claim(t)
    BY <2>3 DEF Claim, Phases
  <2>4. CASE ResumeInProgress(t)
    BY <2>4 DEF ResumeInProgress, Refused, Phases
  <2>5. CASE NotResumable(t)
    BY <2>5 DEF NotResumable, Refused, Phases
  <2>6. CASE OpenFails(t)
    BY <2>6 DEF OpenFails, Refused, Phases
  <2>7. CASE ReadState(t)
    BY <2>7 DEF ReadState, Phases
  <2>8. CASE Resume(t)
    BY <2>8 DEF Resume, StartRun, Phases
  <2>9. CASE RunLoads(t)
    BY <2>9 DEF RunLoads, Phases
  <2>10. CASE RunCommits(t)
    BY <2>10 DEF RunCommits, Phases
  <2>11. CASE RunFails(t)
    BY <2>11 DEF RunFails, Phases
  <2>12. CASE StreamEnds(t)
    BY <2>12 DEF StreamEnds, Phases
  <2>13. CASE FenceRead(t)
    BY <2>13 DEF FenceRead, Phases
  <2>14. CASE FinishRun(t) \/ StreamFails(t)
    BY <2>14 DEF FinishRun, StreamFails, Closes, Phases
  <2>15. CASE Disconnect(t)
    BY <2>15 DEF Disconnect, Closes, Cut, Phases
  <2>16. CASE Finalize(t)
    BY <2>16 DEF Finalize, Phases
  <2>17. CASE Finalized(t)
    BY <2>17 DEF Finalized, Phases
  <2>18. CASE \E d \in due : d[1] = t /\ Append(d)
    BY <2>18 DEF Append, Phases
  <2>19. CASE Release(t)
    BY <2>19 DEF Release, Releasable, Discards, Phases
  <2> QED BY <2>0, <2>1, <2>2, <2>3, <2>4, <2>5, <2>6, <2>7, <2>8, <2>9, <2>10,
             <2>11, <2>12, <2>13, <2>14, <2>15, <2>16, <2>17, <2>18, <2>19
<1>2. CASE UNCHANGED vars
  BY <1>2 DEF Phases
<1> QED BY <1>1, <1>2

(* Two resumed runs at once would both hold the claim. *)
LEMMA Exclusive ==
  ASSUME TypeOK, ClaimOwned, Phases
  PROVE  ResumeExclusive
  BY DEF ClaimOwned, Phases, ResumeExclusive

(* A run that answers takes the question off the thread for good. *)
LEMMA SpentNext ==
  ASSUME TypeOK, ClaimOwned, Phases, Spent, ResumeExclusive, [Next]_vars
  PROVE  Spent'
<1>1. CASE Next
  <2>0. PICK t \in Turns :
           \/ Begin(t) \/ OpenPlain(t) \/ Claim(t) \/ ResumeInProgress(t)
           \/ ReadState(t) \/ Resume(t) \/ NotResumable(t) \/ OpenFails(t)
           \/ RunLoads(t) \/ RunCommits(t) \/ RunFails(t)
           \/ StreamEnds(t) \/ FenceRead(t) \/ FinishRun(t) \/ StreamFails(t)
           \/ Disconnect(t) \/ Finalize(t) \/ Finalized(t)
           \/ (\E d \in due : d[1] = t /\ Append(d)) \/ Release(t)
    BY <1>1, Steps
  <2>1. CASE Begin(t)
    BY <2>1 DEF Begin, Phases, Spent
  <2>2. CASE OpenPlain(t)
    BY <2>2 DEF OpenPlain, StartRun, Phases, Spent
  <2>3. CASE Claim(t)
    BY <2>3 DEF Claim, Phases, Spent
  <2>4. CASE ResumeInProgress(t)
    BY <2>4 DEF ResumeInProgress, Refused, Phases, Spent
  <2>5. CASE NotResumable(t)
    BY <2>5 DEF NotResumable, Refused, Phases, Spent
  <2>6. CASE OpenFails(t)
    BY <2>6 DEF OpenFails, Refused, Phases, Spent
  <2>7. CASE ReadState(t)
    BY <2>7 DEF ReadState, Phases, Spent
  <2>8. CASE Resume(t)
    BY <2>8 DEF Resume, StartRun, Phases, Spent
  <2>9. CASE RunLoads(t)
    BY <2>9 DEF RunLoads, Phases, Spent
  <2>10. CASE RunCommits(t)
    BY <2>10 DEF RunCommits, Asks, AsksAgain, Ends, None, Interrupt, Spent, ResumeExclusive
  <2>11. CASE RunFails(t)
    BY <2>11 DEF RunFails, Phases, Spent
  <2>12. CASE StreamEnds(t)
    BY <2>12 DEF StreamEnds, Phases, Spent
  <2>13. CASE FenceRead(t)
    BY <2>13 DEF FenceRead, Phases, Spent
  <2>14. CASE FinishRun(t) \/ StreamFails(t)
    BY <2>14 DEF FinishRun, StreamFails, Closes, Phases, Spent
  <2>15. CASE Disconnect(t)
    BY <2>15 DEF Disconnect, Closes, Cut, Phases, Spent
  <2>16. CASE Finalize(t)
    BY <2>16 DEF Finalize, Phases, Spent
  <2>17. CASE Finalized(t)
    BY <2>17 DEF Finalized, Phases, Spent
  <2>18. CASE \E d \in due : d[1] = t /\ Append(d)
    BY <2>18 DEF Append, Phases, Spent
  <2>19. CASE Release(t)
    BY <2>19 DEF Release, Releasable, Discards, Phases, Spent
  <2> QED BY <2>0, <2>1, <2>2, <2>3, <2>4, <2>5, <2>6, <2>7, <2>8, <2>9, <2>10,
             <2>11, <2>12, <2>13, <2>14, <2>15, <2>16, <2>17, <2>18, <2>19
<1>2. CASE UNCHANGED vars
  BY <1>2 DEF Spent
<1> QED BY <1>1, <1>2

(* A record is added only with the flag, so it is the turn's first. *)
LEMMA RecordsBilled ==
  ASSUME NEW t \in Turns, NEW w, TypeOK, Billed, Records(t, w), rows' = rows
  PROVE  Billed'
<1>1. CASE latest = base[t] \/ recorded[t]
  BY <1>1 DEF Records, Billed, BilledOnce
<1>2. CASE ~(latest = base[t] \/ recorded[t])
  <2> DEFINE new == <<t, w, latest>>
  <2>1. new[1] = t
    OBVIOUS
  <2>2. recorded' = [recorded EXCEPT ![t] = TRUE] /\ due' = due \cup {new}
    BY <1>2 DEF Records
  <2>3. \A d \in due \cup rows : recorded[d[1]] /\ d[1] \in Turns /\ d[1] # t
    BY <1>2 DEF Billed, Record
  <2> HIDE DEF new
  <2> QED BY <2>1, <2>2, <2>3 DEF Billed, BilledOnce
<1> QED BY <1>1, <1>2

(* The flag is set with the record. *)
LEMMA BilledNext ==
  ASSUME TypeOK, Billed, [Next]_vars
  PROVE  Billed'
<1>1. CASE Next
  <2>0. PICK t \in Turns :
           \/ Begin(t) \/ OpenPlain(t) \/ Claim(t) \/ ResumeInProgress(t)
           \/ ReadState(t) \/ Resume(t) \/ NotResumable(t) \/ OpenFails(t)
           \/ RunLoads(t) \/ RunCommits(t) \/ RunFails(t)
           \/ StreamEnds(t) \/ FenceRead(t) \/ FinishRun(t) \/ StreamFails(t)
           \/ Disconnect(t) \/ Finalize(t) \/ Finalized(t)
           \/ (\E d \in due : d[1] = t /\ Append(d)) \/ Release(t)
    BY <1>1, Steps
  <2>1. CASE Begin(t) \/ OpenPlain(t) \/ Claim(t) \/ ReadState(t) \/ Resume(t)
    BY <2>1 DEF Begin, OpenPlain, Claim, ReadState, Resume, Billed, BilledOnce
  <2>2. CASE ResumeInProgress(t) \/ NotResumable(t) \/ OpenFails(t)
    BY <2>2 DEF ResumeInProgress, NotResumable, OpenFails, Billed, BilledOnce
  <2>3. CASE RunLoads(t) \/ RunCommits(t) \/ RunFails(t)
    BY <2>3 DEF RunLoads, RunCommits, RunFails, Billed, BilledOnce
  <2>4. CASE StreamEnds(t)
    BY <2>4, RecordsBilled DEF StreamEnds, Billed, BilledOnce
  <2>5. CASE FenceRead(t)
    BY <2>5, RecordsBilled DEF FenceRead, Billed, BilledOnce
  <2>6. CASE FinishRun(t) \/ StreamFails(t) \/ Finalized(t) \/ Release(t)
    BY <2>6 DEF FinishRun, StreamFails, Finalized, Release, Billed, BilledOnce
  <2>7. CASE Disconnect(t)
    BY <2>7 DEF Disconnect, Billed, BilledOnce
  <2>8. CASE Finalize(t)
    BY <2>8, RecordsBilled DEF Finalize, Billed, BilledOnce
  <2>9. CASE \E d \in due : d[1] = t /\ Append(d)
    BY <2>9 DEF Append, Billed, BilledOnce
  <2> QED BY <2>0, <2>1, <2>2, <2>3, <2>4, <2>5, <2>6, <2>7, <2>8, <2>9
<1>2. CASE UNCHANGED vars
  BY <1>2 DEF Billed, BilledOnce
<1> QED BY <1>1, <1>2

-----------------------------------------------------------------------------
(* The theorems. *)

LEMMA Start == Init => IInv
<1> SUFFICES ASSUME Init PROVE IInv
  OBVIOUS
<1>1. TypeOK
  BY DEF Init, None, NoToken, Interrupt, Token, Record
<1>2. ClaimOwned /\ Phases
  BY DEF Init, ClaimOwned, Phases, NoToken
<1>3. Spent /\ Billed
  BY DEF Init, Spent, Billed, BilledOnce, None
<1> QED BY <1>1, <1>2, <1>3 DEF IInv

LEMMA Step ==
  ASSUME IInv, [Next]_vars
  PROVE  IInv'
<1>1. ResumeExclusive
  BY Exclusive DEF IInv
<1> QED BY <1>1, TypeNext, ClaimNext, PhasesNext, SpentNext, BilledNext DEF IInv

(* The inductive invariant holds: types, the owner of the claim, the       *)
(* phases of a turn, spent questions and records.                          *)
THEOREM Invariance == Spec => []IInv
  BY Start, Step, PTL DEF Spec

(* The state of a thread's turns keeps its type. *)
THEOREM TypeCorrect == Spec => []TypeOK
<1>1. IInv => TypeOK
  BY DEF IInv
<1> QED BY <1>1, Invariance, PTL

(* A thread is claimed exactly while one turn is going to free it, through *)
(* every refusal, failure, disconnect and repeated release.                *)
THEOREM ClaimHasOneOwner == Spec => []ClaimOwned
<1>1. IInv => ClaimOwned
  BY DEF IInv
<1> QED BY <1>1, Invariance, PTL

(* At most one resumed run of a thread is under way. *)
THEOREM ResumesExclude == Spec => []ResumeExclusive
<1>1. IInv => ResumeExclusive
  BY Exclusive DEF IInv
<1> QED BY <1>1, Invariance, PTL

(* No occurrence of an interrupt is answered by two runs that commit,      *)
(* however retries, disconnects and other turns interleave.                *)
THEOREM AnswersOnce == Spec => []AnsweredOnce
<1>1. IInv => AnsweredOnce
  BY DEF IInv, Spent, AnsweredOnce
<1> QED BY <1>1, Invariance, PTL

(* No turn is billed twice by its stream and its finalizer. *)
THEOREM BillsOnce == Spec => []BilledOnce
<1>1. IInv => BilledOnce
  BY DEF IInv, Billed
<1> QED BY <1>1, Invariance, PTL

-----------------------------------------------------------------------------
(* Where only retries of resumes overlap.  Such a thread has one run at a  *)
(* time, so nothing moves the checkpoint or the newest summary between the *)
(* steps of a turn: what a turn read of them is still so.                  *)

Alone ==
  \A t, u \in Turns : t # u /\ Busy(t) /\ Busy(u) => IsResume(t) /\ IsResume(u)

(* An id that was handed out stands for the open question, if it is still  *)
(* the newest checkpoint's and has the question's id.                      *)
Handed(k) ==
  /\ k.fence <= ckpt
  /\ k.fence = ckpt /\ pending.id = k.id => pending.occ = k.occ

(* The claim is held to the end of the stream, and results come with the   *)
(* end of the run.                                                         *)
Kept(t) ==
  /\ IsResume(t) /\ pc[t] \in {"streaming", "fence", "append"} => hook[t]
  /\ pc[t] \in {"fence", "append"} => run[t] = "completed"
  /\ run[t] \in {"none", "starting", "running"} => mine[t] = None /\ ran[t] = 0
  /\ recorded[t] => run[t] = "completed"

(* What the turn read of the checkpoint. *)
Fresh(t) ==
  /\ IsResume(t) => Handed(token[t])
  /\ pc[t] = "snapped" => snap[t] = [pending |-> pending, ckpt |-> ckpt]
  /\ IsResume(t) /\ run[t] = "starting" => token[t].id = pending.id /\ token[t].fence = ckpt
  /\ run[t] = "completed" /\ pc[t] \in {"streaming", "fence"} /\ mine[t] # None
       => mine[t] = pending
  /\ pc[t] = "append" /\ mine[t] # None /\ fenceId[t] # 0
       => Handed([id |-> mine[t].id, fence |-> fenceId[t], occ |-> mine[t].occ])

(* What the turn read of the newest summary: a resume whose baseline is    *)
(* old carries an id whose fence is old as well.                           *)
Based(t) ==
  /\ pc[t] = "opening" /\ ~IsResume(t) => base[t] = latest
  /\ pc[t] \in {"opening", "state", "snapped"} /\ IsResume(t) /\ token[t].fence = ckpt
       => base[t] = latest
  /\ run[t] \in Live => base[t] = latest
  /\ run[t] = "completed" /\ (pc[t] \in {"streaming", "fence"} \/ fin[t] = "waiting")
       => latest = IF ran[t] = 0 THEN base[t] ELSE ran[t]

(* A question has an id, and so has what is handed out for it. *)
Named ==
  /\ pending # None => pending.id # 0
  /\ \A t \in Turns : mine[t] # None => mine[t].id # 0
  /\ \A k \in tokens : k.id # 0

Serial ==
  /\ Alone /\ Named
  /\ \A k \in tokens : Handed(k)
  /\ \A t \in Turns : Kept(t) /\ Fresh(t) /\ Based(t)
  /\ BilledOwnRun

LEMMA AloneNext ==
  ASSUME TypeOK, Phases, Alone, Named, ~Overlaps, [Next]_vars
  PROVE  Alone'
<1>1. CASE Next
  <2>0. PICK t \in Turns :
           \/ Begin(t) \/ OpenPlain(t) \/ Claim(t) \/ ResumeInProgress(t)
           \/ ReadState(t) \/ Resume(t) \/ NotResumable(t) \/ OpenFails(t)
           \/ RunLoads(t) \/ RunCommits(t) \/ RunFails(t)
           \/ StreamEnds(t) \/ FenceRead(t) \/ FinishRun(t) \/ StreamFails(t)
           \/ Disconnect(t) \/ Finalize(t) \/ Finalized(t)
           \/ (\E d \in due : d[1] = t /\ Append(d)) \/ Release(t)
    BY <1>1, Steps
  <2>1. CASE Begin(t)
    <3>1. \A u \in Turns : u # t => IsResume(u)' = IsResume(u) /\ Busy(u)' = Busy(u)
      BY <2>1 DEF Begin, Busy
    <3>2. \/ \A u \in Turns : ~Busy(u)
          \/ IsResume(t)' /\ \A u \in Turns : Busy(u) => IsResume(u)
      BY <2>1 DEF Begin, Named
    <3> QED BY <3>1, <3>2 DEF Alone
  <2>2. ASSUME token' = token, \A u \in Turns : Busy(u)' => Busy(u)
        PROVE  Alone'
    BY <2>2 DEF Alone
  <2>3. CASE OpenPlain(t) \/ Claim(t) \/ ReadState(t) \/ Resume(t)
    BY <2>2, <2>3 DEF OpenPlain, Claim, ReadState, Resume, StartRun, Busy
  <2>4. CASE ResumeInProgress(t) \/ NotResumable(t) \/ OpenFails(t)
    BY <2>2, <2>4 DEF ResumeInProgress, NotResumable, OpenFails, Refused, Busy
  <2>5. CASE RunLoads(t) \/ RunCommits(t) \/ RunFails(t)
    BY <2>2, <2>5 DEF RunLoads, RunCommits, RunFails, Busy
  <2>6. CASE StreamEnds(t) \/ FenceRead(t) \/ FinishRun(t) \/ StreamFails(t)
    BY <2>2, <2>6 DEF StreamEnds, FenceRead, FinishRun, StreamFails, Closes, Busy
  <2>7. CASE Disconnect(t)
    BY <2>2, <2>7 DEF Disconnect, Closes, Cut, Busy
  <2>8. CASE \/ Finalize(t) \/ Finalized(t) \/ Release(t)
             \/ \E d \in due : d[1] = t /\ Append(d)
    BY <2>2, <2>8 DEF Finalize, Finalized, Release, Append, Busy
  <2> QED BY <2>0, <2>1, <2>3, <2>4, <2>5, <2>6, <2>7, <2>8
<1>2. CASE UNCHANGED vars
  BY <1>2 DEF Alone, Busy
<1> QED BY <1>1, <1>2

LEMMA NamedNext ==
  ASSUME TypeOK, Spent, Named, [Next]_vars
  PROVE  Named'
<1>1. CASE Next
  <2>0. PICK t \in Turns :
           \/ Begin(t) \/ OpenPlain(t) \/ Claim(t) \/ ResumeInProgress(t)
           \/ ReadState(t) \/ Resume(t) \/ NotResumable(t) \/ OpenFails(t)
           \/ RunLoads(t) \/ RunCommits(t) \/ RunFails(t)
           \/ StreamEnds(t) \/ FenceRead(t) \/ FinishRun(t) \/ StreamFails(t)
           \/ Disconnect(t) \/ Finalize(t) \/ Finalized(t)
           \/ (\E d \in due : d[1] = t /\ Append(d)) \/ Release(t)
    BY <1>1, Steps
  <2>1. CASE RunCommits(t)
    <3>1. CASE Asks(t)
      <4>1. PICK id \in {raised + 1} \cup (IF took[t] # 0 THEN {token[t].id} ELSE {}) :
              /\ pending' = [id |-> id, occ |-> raised + 1]
              /\ mine' = [mine EXCEPT ![t] = pending']
        BY <3>1 DEF Asks
      <4>2. id # 0
        BY <4>1 DEF Spent
      <4>3. pending'.id # 0
        BY <4>1, <4>2
      <4> QED BY <2>1, <4>1, <4>3 DEF RunCommits, Named
    <3>2. CASE AsksAgain(t)
      BY <2>1, <3>2 DEF RunCommits, AsksAgain, Named
    <3>3. CASE Ends(t)
      BY <2>1, <3>3 DEF RunCommits, Ends, Named
    <3> QED BY <2>1, <3>1, <3>2, <3>3 DEF RunCommits
  <2>2. CASE FinishRun(t)
    BY <2>2 DEF FinishRun, Fenced, Named
  <2>3. CASE \/ Begin(t) \/ OpenPlain(t) \/ Claim(t) \/ ReadState(t) \/ Resume(t)
            \/ ResumeInProgress(t) \/ NotResumable(t) \/ OpenFails(t)
    BY <2>3 DEF Begin, OpenPlain, Claim, ReadState, Resume, ResumeInProgress, NotResumable,
                OpenFails, Named
  <2>4. CASE \/ RunLoads(t) \/ RunFails(t) \/ StreamEnds(t) \/ FenceRead(t) \/ StreamFails(t)
            \/ Disconnect(t)
    BY <2>4 DEF RunLoads, RunFails, StreamEnds, FenceRead, StreamFails, Disconnect, Named
  <2>5. CASE \/ Finalize(t) \/ Finalized(t) \/ Release(t)
             \/ \E d \in due : d[1] = t /\ Append(d)
    BY <2>5 DEF Finalize, Finalized, Release, Append, Named
  <2> QED BY <2>0, <2>1, <2>2, <2>3, <2>4, <2>5
<1>2. CASE UNCHANGED vars
  BY <1>2 DEF Named
<1> QED BY <1>1, <1>2

(* While a turn is under way that is plain or holds the claim, no other    *)
(* has a run.                                                              *)
LEMMA Quiet ==
  ASSUME TypeOK, ClaimOwned, Phases, Alone, NEW t \in Turns, NEW u \in Turns, t # u,
         Busy(t), ~IsResume(t) \/ hook[t]
  PROVE  run[u] \notin Live
<1> SUFFICES ASSUME run[u] \in Live PROVE FALSE
  OBVIOUS
<1>1. IsResume(t) /\ IsResume(u)
  BY DEF Alone, Busy
<1>2. hook[u]
  BY <1>1 DEF Phases
<1> QED BY <1>1, <1>2 DEF ClaimOwned

LEMMA KeptNext ==
  ASSUME TypeOK, ClaimOwned, Phases, Serial, [Next]_vars
  PROVE  \A u \in Turns : Kept(u)'
<1> SUFFICES ASSUME NEW u \in Turns PROVE Kept(u)'
  OBVIOUS
<1>0. Kept(u)
  BY DEF Serial
<1>1. CASE Next
  <2>0. PICK t \in Turns :
           \/ Begin(t) \/ OpenPlain(t) \/ Claim(t) \/ ResumeInProgress(t)
           \/ ReadState(t) \/ Resume(t) \/ NotResumable(t) \/ OpenFails(t)
           \/ RunLoads(t) \/ RunCommits(t) \/ RunFails(t)
           \/ StreamEnds(t) \/ FenceRead(t) \/ FinishRun(t) \/ StreamFails(t)
           \/ Disconnect(t) \/ Finalize(t) \/ Finalized(t)
           \/ (\E d \in due : d[1] = t /\ Append(d)) \/ Release(t)
    BY <1>1, Steps
  <2>1. CASE Begin(t)
    BY <1>0, <2>1 DEF Begin, Kept
  <2>2. CASE OpenPlain(t) \/ Claim(t) \/ ReadState(t) \/ Resume(t)
    BY <1>0, <2>2 DEF OpenPlain, Claim, ReadState, Resume, StartRun, Phases, Kept
  <2>3. CASE ResumeInProgress(t) \/ NotResumable(t) \/ OpenFails(t)
    BY <1>0, <2>3 DEF ResumeInProgress, NotResumable, OpenFails, Refused, Kept
  <2>4. CASE RunLoads(t) \/ RunFails(t)
    BY <1>0, <2>4 DEF RunLoads, RunFails, Kept
  <2>5. CASE RunCommits(t)
    BY <1>0, <2>5 DEF RunCommits, Asks, AsksAgain, Ends, Kept
  <2>6. CASE StreamEnds(t)
    BY <1>0, <2>6 DEF StreamEnds, Records, Kept
  <2>7. CASE FenceRead(t)
    BY <1>0, <2>7 DEF FenceRead, Records, Kept
  <2>8. CASE FinishRun(t) \/ StreamFails(t)
    BY <1>0, <2>8 DEF FinishRun, StreamFails, Closes, Kept
  <2>9. CASE Disconnect(t)
    BY <1>0, <2>9 DEF Disconnect, Closes, Cut, Kept
  <2>10. CASE Finalize(t)
    BY <1>0, <2>10 DEF Finalize, Records, Kept
  <2>11. CASE Finalized(t) \/ Release(t) \/ \E d \in due : d[1] = t /\ Append(d)
    BY <1>0, <2>11 DEF Finalized, Release, Append, Kept
  <2> QED BY <2>0, <2>1, <2>2, <2>3, <2>4, <2>5, <2>6, <2>7, <2>8, <2>9, <2>10, <2>11
<1>2. CASE UNCHANGED vars
  BY <1>0, <1>2 DEF Kept
<1> QED BY <1>1, <1>2

(* Only the end of a run moves the thread, and then no other turn has      *)
(* something fresh: the fences of its id and of the ids handed out lie     *)
(* behind the new checkpoint.                                              *)
LEMMA CommitStales ==
  ASSUME TypeOK, ClaimOwned, Phases, Serial, NEW t \in Turns, RunCommits(t)
  PROVE  /\ \A k \in Token : Handed(k) => Handed(k)'
         /\ \A u \in Turns : u # t => Fresh(u)' /\ Based(u)'
<1>0. /\ ckpt' = ckpt + 1 /\ run[t] = "running" /\ token' = token
      /\ UNCHANGED <<pc, snap, fenceId, base, fin>>
      /\ \A u \in Turns : u # t => run'[u] = run[u] /\ mine'[u] = mine[u] /\ ran'[u] = ran[u]
  BY DEF RunCommits, Asks, AsksAgain, Ends
<1>1. ASSUME NEW k \in Token, Handed(k)
      PROVE  Handed(k)' /\ k.fence # ckpt'
  <2>1. k.fence \in Nat /\ k.fence <= ckpt
    BY <1>1 DEF Handed, Token
  <2> QED BY <1>0, <2>1 DEF Handed
<1>2. ASSUME NEW u \in Turns, u # t
      PROVE  Fresh(u)' /\ Based(u)'
  <2>1. ~(Busy(u) /\ (~IsResume(u) \/ hook[u]))
    BY <1>0, <1>2, Quiet DEF Serial
  <2>2. Kept(u) /\ Fresh(u) /\ Based(u)
    BY DEF Serial
  <2>3. IsResume(u) => token[u].fence # ckpt' /\ Handed(token[u])'
    <3>1. ASSUME IsResume(u) PROVE token[u].fence # ckpt' /\ Handed(token[u])'
      <4>1. PICK k \in Token : k = token[u]
        OBVIOUS
      <4>2. Handed(k)' /\ k.fence # ckpt'
        BY <1>1, <2>2, <3>1, <4>1 DEF Fresh
      <4> QED BY <1>0, <4>1, <4>2 DEF Handed
    <3> QED BY <3>1
  <2>4. /\ pc[u] # "snapped" /\ pc[u] \notin {"streaming", "fence", "append"} /\ run[u] \notin Live
        /\ fin[u] # "waiting" /\ (pc[u] = "opening" => IsResume(u))
    BY <2>1, <2>2 DEF Kept, Phases, Busy
  <2>5. Fresh(u)'
    BY <1>0, <1>2, <2>3, <2>4 DEF Fresh
  <2>6. Based(u)'
    BY <1>0, <1>2, <2>3, <2>4 DEF Based
  <2> QED BY <2>5, <2>6
<1> QED BY <1>1, <1>2

LEMMA FreshNext ==
  ASSUME TypeOK, ClaimOwned, Phases, Serial, [Next]_vars
  PROVE  \A u \in Turns : Fresh(u)'
<1> SUFFICES ASSUME NEW u \in Turns PROVE Fresh(u)'
  OBVIOUS
<1>0. Fresh(u) /\ Kept(u) /\ \A k \in tokens : Handed(k)
  BY DEF Serial
<1>1. CASE Next
  <2>0. PICK t \in Turns :
           \/ Begin(t) \/ OpenPlain(t) \/ Claim(t) \/ ResumeInProgress(t)
           \/ ReadState(t) \/ Resume(t) \/ NotResumable(t) \/ OpenFails(t)
           \/ RunLoads(t) \/ RunCommits(t) \/ RunFails(t)
           \/ StreamEnds(t) \/ FenceRead(t) \/ FinishRun(t) \/ StreamFails(t)
           \/ Disconnect(t) \/ Finalize(t) \/ Finalized(t)
           \/ (\E d \in due : d[1] = t /\ Append(d)) \/ Release(t)
    BY <1>1, Steps
  <2>1. CASE Begin(t)
    <3>1. CASE u = t
      <4>1. PICK k : k = token'[t]
        OBVIOUS
      <4>2. k = token[t] \/ k \in tokens
        BY <2>1, <4>1 DEF Begin
      <4>3. token[t].id = 0
        BY <2>1 DEF Begin, Phases
      <4>4. IsResume(t)' => Handed(k)
        BY <1>0, <4>1, <4>2, <4>3
      <4>5. UNCHANGED <<ckpt, pending, run>> /\ pc'[t] = "opening" /\ run[t] = "none"
        BY <2>1 DEF Begin, Phases
      <4>6. IsResume(t)' => Handed(token[t])'
        BY <4>1, <4>4, <4>5 DEF Handed
      <4> QED BY <3>1, <4>5, <4>6 DEF Fresh
    <3>2. CASE u # t
      BY <1>0, <2>1, <3>2 DEF Begin, Fresh, Handed
    <3> QED BY <3>1, <3>2
  <2>2. CASE OpenPlain(t) \/ Claim(t)
    BY <1>0, <2>2 DEF OpenPlain, Claim, StartRun, Fresh, Handed
  <2>3. CASE ReadState(t)
    BY <1>0, <2>3 DEF ReadState, Fresh, Handed
  <2>4. CASE Resume(t)
    BY <1>0, <2>4 DEF Resume, StartRun, Accepts, Fresh, Handed
  <2>5. CASE ResumeInProgress(t) \/ NotResumable(t) \/ OpenFails(t)
    BY <1>0, <2>5 DEF ResumeInProgress, NotResumable, OpenFails, Refused, Fresh, Handed
  <2>6. CASE RunLoads(t) \/ RunFails(t)
    BY <1>0, <2>6 DEF RunLoads, RunFails, Fresh, Handed
  <2>7. CASE RunCommits(t)
    <3>1. CASE u = t
      <4>1. run[t] = "running" /\ run'[t] = "completed" /\ UNCHANGED <<pc, token, snap, fenceId>>
        BY <2>7 DEF RunCommits
      <4>2. pc[t] \notin {"snapped"} /\ pc'[t] # "append" /\ mine[t] = None
        BY <1>0, <3>1, <4>1 DEF Phases, Kept
      <4>3. mine'[t] # None => mine'[t] = pending'
        BY <2>7, <4>2 DEF RunCommits, Asks, AsksAgain, Ends
      <4>4. IsResume(t) => Handed(token[t])'
        <5>1. PICK k \in Token : k = token[t]
          OBVIOUS
        <5>2. IsResume(t) => Handed(k)'
          BY <1>0, <2>7, <3>1, <5>1, CommitStales DEF Fresh
        <5> QED BY <4>1, <5>1, <5>2 DEF Handed
      <4> QED BY <3>1, <4>1, <4>2, <4>3, <4>4 DEF Fresh
    <3>2. CASE u # t
      BY <2>7, <3>2, CommitStales
    <3> QED BY <3>1, <3>2
  <2>8. CASE StreamEnds(t)
    BY <1>0, <2>8 DEF StreamEnds, Fresh, Handed, None
  <2>9. CASE FenceRead(t)
    <3>1. CASE u = t
      <4>1. /\ pc[t] = "fence" /\ pc'[t] = "append" /\ UNCHANGED <<ckpt, pending, mine, run, token>>
            /\ fenceId'[t] \in {ckpt, 0}
        BY <2>9 DEF FenceRead
      <4>2. mine[t] # None => mine[t] = pending
        BY <1>0, <3>1, <4>1 DEF Fresh, Kept
      <4>3. ASSUME mine[t] # None, fenceId'[t] # 0
            PROVE  Handed([id |-> mine[t].id, fence |-> fenceId[t], occ |-> mine[t].occ])'
        BY <4>1, <4>2, <4>3 DEF Handed
      <4> QED BY <1>0, <3>1, <4>1, <4>3 DEF Fresh, Handed, Kept
    <3>2. CASE u # t
      BY <1>0, <2>9, <3>2 DEF FenceRead, Fresh, Handed
    <3> QED BY <3>1, <3>2
  <2>10. CASE FinishRun(t) \/ StreamFails(t) \/ Disconnect(t)
    BY <1>0, <2>10 DEF FinishRun, StreamFails, Disconnect, Closes, Cut, Fresh, Handed
  <2>11. CASE \/ Finalize(t) \/ Finalized(t) \/ Release(t)
              \/ \E d \in due : d[1] = t /\ Append(d)
    BY <1>0, <2>11 DEF Finalize, Finalized, Release, Append, Fresh, Handed
  <2> QED BY <2>0, <2>1, <2>2, <2>3, <2>4, <2>5, <2>6, <2>7, <2>8, <2>9, <2>10, <2>11
<1>2. CASE UNCHANGED vars
  BY <1>0, <1>2 DEF Fresh, Handed
<1> QED BY <1>1, <1>2

LEMMA HandedNext ==
  ASSUME TypeOK, ClaimOwned, Phases, Serial, [Next]_vars
  PROVE  \A k \in tokens' : Handed(k)'
<1> SUFFICES ASSUME NEW k \in tokens' PROVE Handed(k)'
  OBVIOUS
<1>0. \A j \in tokens : Handed(j) /\ j \in Token
  BY DEF Serial
<1>1. CASE Next
  <2>0. PICK t \in Turns :
           \/ Begin(t) \/ OpenPlain(t) \/ Claim(t) \/ ResumeInProgress(t)
           \/ ReadState(t) \/ Resume(t) \/ NotResumable(t) \/ OpenFails(t)
           \/ RunLoads(t) \/ RunCommits(t) \/ RunFails(t)
           \/ StreamEnds(t) \/ FenceRead(t) \/ FinishRun(t) \/ StreamFails(t)
           \/ Disconnect(t) \/ Finalize(t) \/ Finalized(t)
           \/ (\E d \in due : d[1] = t /\ Append(d)) \/ Release(t)
    BY <1>1, Steps
  <2>1. CASE RunCommits(t)
    BY <1>0, <2>1, CommitStales DEF RunCommits
  <2>2. CASE FinishRun(t)
    <3>1. CASE k \in tokens
      BY <1>0, <2>2, <3>1 DEF FinishRun, Handed
    <3>2. CASE k = [id |-> mine[t].id, fence |-> fenceId[t], occ |-> mine[t].occ] /\ Fenced(t)
      <4>1. Handed(k)
        BY <2>2, <3>2 DEF Serial, Fresh, FinishRun, Fenced
      <4> QED BY <2>2, <4>1 DEF FinishRun, Handed
    <3> QED BY <2>2, <3>1, <3>2 DEF FinishRun
  <2>3. CASE \/ Begin(t) \/ OpenPlain(t) \/ Claim(t) \/ ReadState(t) \/ Resume(t)
            \/ ResumeInProgress(t) \/ NotResumable(t) \/ OpenFails(t)
    BY <1>0, <2>3 DEF Begin, OpenPlain, Claim, ReadState, Resume, ResumeInProgress, NotResumable,
                OpenFails, Handed
  <2>4. CASE \/ RunLoads(t) \/ RunFails(t) \/ StreamEnds(t) \/ FenceRead(t) \/ StreamFails(t)
            \/ Disconnect(t)
    BY <1>0, <2>4 DEF RunLoads, RunFails, StreamEnds, FenceRead, StreamFails, Disconnect, Handed
  <2>5. CASE \/ Finalize(t) \/ Finalized(t) \/ Release(t)
             \/ \E d \in due : d[1] = t /\ Append(d)
    BY <1>0, <2>5 DEF Finalize, Finalized, Release, Append, Handed
  <2> QED BY <2>0, <2>1, <2>2, <2>3, <2>4, <2>5
<1>2. CASE UNCHANGED vars
  BY <1>0, <1>2 DEF Handed
<1> QED BY <1>1, <1>2

LEMMA BasedNext ==
  ASSUME TypeOK, ClaimOwned, Phases, Serial, ~Overlaps, [Next]_vars
  PROVE  \A u \in Turns : Based(u)'
<1> SUFFICES ASSUME NEW u \in Turns PROVE Based(u)'
  OBVIOUS
<1>0. Based(u) /\ Kept(u) /\ Fresh(u)
  BY DEF Serial
<1>1. CASE Next
  <2>0. PICK t \in Turns :
           \/ Begin(t) \/ OpenPlain(t) \/ Claim(t) \/ ResumeInProgress(t)
           \/ ReadState(t) \/ Resume(t) \/ NotResumable(t) \/ OpenFails(t)
           \/ RunLoads(t) \/ RunCommits(t) \/ RunFails(t)
           \/ StreamEnds(t) \/ FenceRead(t) \/ FinishRun(t) \/ StreamFails(t)
           \/ Disconnect(t) \/ Finalize(t) \/ Finalized(t)
           \/ (\E d \in due : d[1] = t /\ Append(d)) \/ Release(t)
    BY <1>1, Steps
  <2>1. CASE Begin(t)
    BY <1>0, <2>1 DEF Begin, Phases, Based
  <2>2. CASE OpenPlain(t)
    BY <1>0, <2>2 DEF OpenPlain, StartRun, Phases, Based
  <2>3. CASE Claim(t) \/ ReadState(t)
    BY <1>0, <2>3 DEF Claim, ReadState, Phases, Based
  <2>4. CASE Resume(t)
    <3>1. CASE u = t
      <4>1. /\ pc[t] = "snapped" /\ token[t].fence = snap[t].ckpt /\ IsResume(t)
            /\ UNCHANGED <<ckpt, latest, base, token>> /\ run'[t] = "starting" /\ pc'[t] = "streaming"
        BY <2>4 DEF Resume, Accepts, StartRun
      <4>2. token[t].fence = ckpt
        BY <1>0, <3>1, <4>1 DEF Fresh
      <4>3. base[t] = latest
        BY <1>0, <3>1, <4>1, <4>2 DEF Based
      <4> QED BY <3>1, <4>1, <4>3 DEF Based
    <3>2. CASE u # t
      BY <1>0, <2>4, <3>2 DEF Resume, StartRun, Based
    <3> QED BY <3>1, <3>2
  <2>5. CASE ResumeInProgress(t) \/ NotResumable(t) \/ OpenFails(t)
    BY <1>0, <2>5 DEF ResumeInProgress, NotResumable, OpenFails, Refused, Phases, Based
  <2>6. CASE RunLoads(t) \/ RunFails(t)
    BY <1>0, <2>6 DEF RunLoads, RunFails, Based
  <2>7. CASE RunCommits(t)
    <3>1. CASE u = t
      <4>1. /\ run[t] = "running" /\ run'[t] = "completed" /\ UNCHANGED <<pc, base>>
            /\ \/ latest' = latest + 1 /\ ran'[t] = latest + 1
               \/ UNCHANGED <<latest, ran>>
        BY <2>7 DEF RunCommits
      <4>2. base[t] = latest /\ ran[t] = 0 /\ pc[t] \notin {"opening", "state", "snapped"}
        BY <1>0, <3>1, <4>1 DEF Based, Kept, Phases
      <4> QED BY <3>1, <4>1, <4>2 DEF Based
    <3>2. CASE u # t
      BY <2>7, <3>2, CommitStales
    <3> QED BY <3>1, <3>2
  <2>8. CASE StreamEnds(t) \/ FenceRead(t) \/ FinishRun(t) \/ StreamFails(t) \/ Disconnect(t)
    BY <1>0, <2>8 DEF StreamEnds, FenceRead, FinishRun, StreamFails, Disconnect, Closes, Cut, Kept, Based
  <2>9. CASE \/ Finalize(t) \/ Finalized(t) \/ Release(t)
              \/ \E d \in due : d[1] = t /\ Append(d)
    BY <1>0, <2>9 DEF Finalize, Finalized, Release, Append, Based
  <2> QED BY <2>0, <2>1, <2>2, <2>3, <2>4, <2>5, <2>6, <2>7, <2>8, <2>9
<1>2. CASE UNCHANGED vars
  BY <1>0, <1>2 DEF Based
<1> QED BY <1>1, <1>2

(* What a turn records is its own summary: the newest one is no longer the *)
(* baseline.                                                               *)
LEMMA RecordsOwn ==
  ASSUME TypeOK, Serial, NEW t \in Turns, NEW w, Records(t, w), UNCHANGED <<rows, ran>>,
         run[t] = "completed", pc[t] \in {"streaming", "fence"} \/ fin[t] = "waiting"
  PROVE  BilledOwnRun'
<1>1. CASE latest = base[t] \/ recorded[t]
  BY <1>1 DEF Records, Serial, BilledOwnRun
<1>2. CASE ~(latest = base[t] \/ recorded[t])
  <2>1. latest = ran[t]
    BY <1>2 DEF Serial, Based
  <2>2. PICK new : new = <<t, w, latest>>
    OBVIOUS
  <2>3. new[1] = t /\ new[3] = ran[t] /\ due' = due \cup {new}
    BY <1>2, <2>1, <2>2 DEF Records
  <2> QED BY <2>3 DEF Serial, BilledOwnRun
<1> QED BY <1>1, <1>2

LEMMA OwnNext ==
  ASSUME TypeOK, Phases, Billed, Serial, [Next]_vars
  PROVE  BilledOwnRun'
<1>0. BilledOwnRun
  BY DEF Serial
<1>1. CASE Next
  <2>0. PICK t \in Turns :
           \/ Begin(t) \/ OpenPlain(t) \/ Claim(t) \/ ResumeInProgress(t)
           \/ ReadState(t) \/ Resume(t) \/ NotResumable(t) \/ OpenFails(t)
           \/ RunLoads(t) \/ RunCommits(t) \/ RunFails(t)
           \/ StreamEnds(t) \/ FenceRead(t) \/ FinishRun(t) \/ StreamFails(t)
           \/ Disconnect(t) \/ Finalize(t) \/ Finalized(t)
           \/ (\E d \in due : d[1] = t /\ Append(d)) \/ Release(t)
    BY <1>1, Steps
  <2>1. CASE RunCommits(t)
    <3>1. ~recorded[t]
      BY <2>1 DEF RunCommits, Serial, Kept
    <3>2. \A d \in due \cup rows : d[1] # t /\ d[1] \in Turns
      BY <3>1 DEF Billed, Record
    <3>3. UNCHANGED <<due, rows>> /\ \A u \in Turns : u # t => ran'[u] = ran[u]
      BY <2>1 DEF RunCommits
    <3> QED BY <1>0, <3>2, <3>3 DEF BilledOwnRun
  <2>2. CASE StreamEnds(t)
    <3>1. CASE mine[t] = None
      BY <2>2, <3>1, RecordsOwn DEF StreamEnds
    <3>2. CASE mine[t] # None
      BY <1>0, <2>2, <3>2 DEF StreamEnds, BilledOwnRun
    <3> QED BY <3>1, <3>2
  <2>3. CASE FenceRead(t)
    <3>1. run[t] = "completed"
      BY <2>3 DEF FenceRead, Serial, Kept
    <3> QED BY <2>3, <3>1, RecordsOwn DEF FenceRead
  <2>4. CASE Finalize(t)
    <3>1. CASE run[t] = "completed"
      BY <2>4, <3>1, RecordsOwn DEF Finalize
    <3>2. CASE run[t] # "completed"
      BY <1>0, <2>4, <3>2 DEF Finalize, BilledOwnRun
    <3> QED BY <3>1, <3>2
  <2>5. CASE \/ Begin(t) \/ OpenPlain(t) \/ Claim(t) \/ ReadState(t) \/ Resume(t)
            \/ ResumeInProgress(t) \/ NotResumable(t) \/ OpenFails(t)
    BY <1>0, <2>5 DEF Begin, OpenPlain, Claim, ReadState, Resume, ResumeInProgress, NotResumable,
                OpenFails, BilledOwnRun
  <2>6. CASE \/ RunLoads(t) \/ RunFails(t) \/ FinishRun(t) \/ StreamFails(t) \/ Disconnect(t)
    BY <1>0, <2>6 DEF RunLoads, RunFails, FinishRun, StreamFails, Disconnect, BilledOwnRun
  <2>7. CASE \/ Finalized(t) \/ Release(t) \/ \E d \in due : d[1] = t /\ Append(d)
    BY <1>0, <2>7 DEF Finalized, Release, Append, BilledOwnRun
  <2> QED BY <2>0, <2>1, <2>2, <2>3, <2>4, <2>5, <2>6, <2>7
<1>2. CASE UNCHANGED vars
  BY <1>0, <1>2 DEF BilledOwnRun
<1> QED BY <1>1, <1>2

(* The question a run that starts may meet is the one its id was checked   *)
(* against.                                                                *)
LEMMA MeetsNext ==
  ASSUME TypeOK, Phases, Spent, Serial, AnswerMeetsQuestion, [Next]_vars
  PROVE  AnswerMeetsQuestion'
<1>1. CASE Next
  <2>0. PICK t \in Turns :
           \/ Begin(t) \/ OpenPlain(t) \/ Claim(t) \/ ResumeInProgress(t)
           \/ ReadState(t) \/ Resume(t) \/ NotResumable(t) \/ OpenFails(t)
           \/ RunLoads(t) \/ RunCommits(t) \/ RunFails(t)
           \/ StreamEnds(t) \/ FenceRead(t) \/ FinishRun(t) \/ StreamFails(t)
           \/ Disconnect(t) \/ Finalize(t) \/ Finalized(t)
           \/ (\E d \in due : d[1] = t /\ Append(d)) \/ Release(t)
    BY <1>1, Steps
  <2>1. CASE RunLoads(t)
    <3>1. IsResume(t) => pending.id = token[t].id /\ token[t].fence = ckpt /\ Handed(token[t])
      BY <2>1 DEF RunLoads, Serial, Fresh
    <3>2. IsResume(t) => pending.occ = token[t].occ
      BY <3>1 DEF Handed
    <3> QED BY <2>1, <3>2 DEF RunLoads, AnswerMeetsQuestion
  <2>2. CASE Begin(t)
    <3>1. took[t] = 0
      BY <2>2 DEF Begin, Phases, Spent
    <3> QED BY <2>2, <3>1 DEF Begin, AnswerMeetsQuestion
  <2>3. CASE \/ OpenPlain(t) \/ Claim(t) \/ ReadState(t) \/ Resume(t)
            \/ ResumeInProgress(t) \/ NotResumable(t) \/ OpenFails(t)
    BY <2>3 DEF OpenPlain, Claim, ReadState, Resume, ResumeInProgress, NotResumable,
                OpenFails, AnswerMeetsQuestion
  <2>4. CASE \/ RunCommits(t) \/ RunFails(t) \/ StreamEnds(t) \/ FenceRead(t) \/ FinishRun(t)
             \/ StreamFails(t) \/ Disconnect(t)
    BY <2>4 DEF RunCommits, RunFails, StreamEnds, FenceRead, FinishRun, StreamFails, Disconnect,
                AnswerMeetsQuestion
  <2>5. CASE \/ Finalize(t) \/ Finalized(t) \/ Release(t)
             \/ \E d \in due : d[1] = t /\ Append(d)
    BY <2>5 DEF Finalize, Finalized, Release, Append, AnswerMeetsQuestion
  <2> QED BY <2>0, <2>1, <2>2, <2>3, <2>4, <2>5
<1>2. CASE UNCHANGED vars
  BY <1>2 DEF AnswerMeetsQuestion
<1> QED BY <1>1, <1>2

SerialInv == IInv /\ Serial /\ AnswerMeetsQuestion

LEMMA SerialStart == Init => SerialInv
<1> SUFFICES ASSUME Init PROVE SerialInv
  OBVIOUS
<1>1. IInv
  BY Start
<1>2. Alone /\ Named
  BY DEF Init, Alone, Named, Busy, NoToken
<1>3. \A t \in Turns : Kept(t) /\ Fresh(t) /\ Based(t)
  BY DEF Init, Kept, Fresh, Based, NoToken
<1>4. BilledOwnRun /\ AnswerMeetsQuestion /\ \A k \in tokens : Handed(k)
  BY DEF Init, BilledOwnRun, AnswerMeetsQuestion
<1> QED BY <1>1, <1>2, <1>3, <1>4 DEF SerialInv, Serial

LEMMA SerialStep ==
  ASSUME ~Overlaps, SerialInv, [Next]_vars
  PROVE  SerialInv'
<1>1. TypeOK /\ ClaimOwned /\ Phases /\ Spent /\ Billed /\ Serial /\ AnswerMeetsQuestion
  BY DEF SerialInv, IInv
<1>2. IInv'
  BY Step DEF SerialInv
<1>3. Alone' /\ Named'
  BY <1>1, AloneNext, NamedNext DEF Serial
<1>4. \A t \in Turns : Kept(t)' /\ Fresh(t)' /\ Based(t)'
  BY <1>1, KeptNext, FreshNext, BasedNext
<1>5. BilledOwnRun' /\ AnswerMeetsQuestion' /\ \A k \in tokens' : Handed(k)'
  BY <1>1, OwnNext, MeetsNext, HandedNext
<1> QED BY <1>2, <1>3, <1>4, <1>5 DEF SerialInv, Serial

(* Where only retries of resumes overlap, the stronger invariant holds: a  *)
(* plain turn is alone, what a turn read of the thread is still so, and    *)
(* its baseline is the summary before its own.                             *)
THEOREM SerialInvariance ==
  ASSUME ~Overlaps
  PROVE  Spec => []SerialInv
<1>1. SerialInv /\ [Next]_vars => SerialInv'
  BY SerialStep
<1> QED BY <1>1, SerialStart, PTL DEF Spec

(* Then an answer only meets the question it was given to.  (Messages that *)
(* overlap a resume break it: the run turns_late_fence.)                   *)
THEOREM AnswersTheQuestion ==
  ASSUME ~Overlaps
  PROVE  Spec => []AnswerMeetsQuestion
<1>1. SerialInv => AnswerMeetsQuestion
  BY DEF SerialInv
<1> QED BY <1>1, SerialInvariance, PTL

(* And a turn is billed for its own run. *)
THEOREM BillsItsRun ==
  ASSUME ~Overlaps
  PROVE  Spec => []BilledOwnRun
<1>1. SerialInv => BilledOwnRun
  BY DEF SerialInv, Serial
<1> QED BY <1>1, SerialInvariance, PTL
=============================================================================
