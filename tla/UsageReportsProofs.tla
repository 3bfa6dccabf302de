------------------------- MODULE UsageReportsProofs -------------------------
(***************************************************************************)
(* Proofs about UsageReports: the cursor's string order is the order of    *)
(* the records, pages come in order and leave nothing out, a caller reads  *)
(* its own organisation, and engine keys never meet.                       *)
(***************************************************************************)
EXTENDS UsageReports, FiniteSetTheorems, TLAPS

Rec == [turn : Turns, org : Billed, at : Nat]

-----------------------------------------------------------------------------
(* The order of records. *)

LEMMA RecIs ==
  ASSUME NEW r \in Rec
  PROVE  /\ r.at \in Nat /\ r.at \in Int /\ r.turn \in Nat /\ r.turn \in Int
         /\ r.turn \in Turns /\ r.org \in Billed
         /\ r = [turn |-> r.turn, org |-> r.org, at |-> r.at]
<1>1. r.at \in Nat /\ r.turn \in Turns /\ r.org \in Billed
  BY DEF Rec
<1>2. r = [turn |-> r.turn, org |-> r.org, at |-> r.at]
  BY DEF Rec
<1>3. r.turn \in Nat
  BY <1>1, TurnsAssumption
<1> QED  BY <1>1, <1>2, <1>3

LEMMA LaterTransitive ==
  ASSUME NEW r \in Rec, NEW s \in Rec, NEW t \in Rec, Later(r, s), Later(s, t)
  PROVE  Later(r, t)
BY RecIs DEF Later

LEMMA LaterIrreflexive ==
  ASSUME NEW r \in Rec, NEW s \in Rec, Later(r, s)
  PROVE  ~Later(s, r) /\ r # s
BY RecIs DEF Later

(* Records of one organisation are ordered by time and turn. *)
LEMMA LaterTotal ==
  ASSUME NEW r \in Rec, NEW s \in Rec, r.org = s.org, ~Later(r, s), ~Later(s, r)
  PROVE  r = s
<1>1. r.at = s.at /\ r.turn = s.turn
  BY RecIs DEF Later
<1> QED  BY <1>1, RecIs

LEMMA IsoIs ==
  ASSUME NEW t \in Nat
  PROVE  /\ Iso(t) = IF t % 2 = 0 THEN <<t \div 2, 43>> ELSE <<t \div 2, 46, 5, 43>>
         /\ t \div 2 \in Nat /\ (t % 2) \in 0 .. 1
         /\ t = 2 * (t \div 2) + (t % 2)
BY DEF Iso, Plus, Dot

(* CursorOrder: isoformat strings compare like the moments they name,      *)
(* though the microseconds are left out when they are zero.                *)
LEMMA IsoOrder ==
  ASSUME NEW t \in Nat, NEW u \in Nat
  PROVE  /\ StringLess(Iso(t), Iso(u)) <=> t < u
         /\ Iso(t) = Iso(u) <=> t = u
<1> DEFINE a == t \div 2
           b == u \div 2
           x == t % 2
           y == u % 2
<1>1. /\ a \in Nat /\ b \in Nat /\ x \in 0 .. 1 /\ y \in 0 .. 1
      /\ t = 2 * a + x /\ u = 2 * b + y
  BY IsoIs
<1>2. Iso(t) = IF x = 0 THEN <<a, 43>> ELSE <<a, 46, 5, 43>>
  BY IsoIs
<1>3. Iso(u) = IF y = 0 THEN <<b, 43>> ELSE <<b, 46, 5, 43>>
  BY IsoIs
<1> HIDE DEF a, b, x, y
<1>4. CASE x = 0 /\ y = 0
  <2>1. Iso(t) = <<a, 43>> /\ Iso(u) = <<b, 43>>
    BY <1>2, <1>3, <1>4
  <2> QED  BY <1>1, <1>4, <2>1 DEF StringLess
<1>5. CASE x = 0 /\ y = 1
  <2>1. Iso(t) = <<a, 43>> /\ Iso(u) = <<b, 46, 5, 43>>
    BY <1>2, <1>3, <1>5
  <2>2. StringLess(<<a, 43>>, <<b, 46, 5, 43>>) => a <= b
    BY <1>1 DEF StringLess
  <2>3. ASSUME a < b  PROVE StringLess(<<a, 43>>, <<b, 46, 5, 43>>)
    <3>1. 1 \in 1 .. Len(<<b, 46, 5, 43>>)
      OBVIOUS
    <3> QED  BY <1>1, <2>3, <3>1 DEF StringLess
  <2>4. ASSUME a = b  PROVE StringLess(<<a, 43>>, <<b, 46, 5, 43>>)
    <3>1. 2 \in 1 .. Len(<<b, 46, 5, 43>>)
      OBVIOUS
    <3> QED  BY <1>1, <2>4, <3>1 DEF StringLess
  <2>5. t < u <=> a <= b
    BY <1>1, <1>5
  <2>6. t # u /\ Iso(t) # Iso(u)
    BY <1>1, <1>5, <2>1
  <2> QED  BY <1>1, <2>1, <2>2, <2>3, <2>4, <2>5, <2>6
<1>6. CASE x = 1 /\ y = 0
  <2>1. Iso(t) = <<a, 46, 5, 43>> /\ Iso(u) = <<b, 43>>
    BY <1>2, <1>3, <1>6
  <2>2. StringLess(<<a, 46, 5, 43>>, <<b, 43>>) => a < b
    BY <1>1 DEF StringLess
  <2>3. ASSUME a < b  PROVE StringLess(<<a, 46, 5, 43>>, <<b, 43>>)
    <3>1. 1 \in 1 .. Len(<<b, 43>>)
      OBVIOUS
    <3> QED  BY <1>1, <2>3, <3>1 DEF StringLess
  <2>4. t < u <=> a < b
    BY <1>1, <1>6
  <2>5. t # u /\ Iso(t) # Iso(u)
    BY <1>1, <1>6, <2>1
  <2> QED  BY <2>1, <2>2, <2>3, <2>4, <2>5
<1>7. CASE x = 1 /\ y = 1
  <2>1. Iso(t) = <<a, 46, 5, 43>> /\ Iso(u) = <<b, 46, 5, 43>>
    BY <1>2, <1>3, <1>7
  <2> QED  BY <1>1, <1>7, <2>1 DEF StringLess
<1> QED  BY <1>1, <1>4, <1>5, <1>6, <1>7

(* CursorOrder: what the cursor keeps back is what comes later on the      *)
(* pages (_key(r) < after in get_usage).                                   *)
THEOREM CursorOrder ==
  ASSUME NEW r \in Rec, NEW s \in Rec
  PROVE  /\ KeyLess(Key(r), Key(s)) <=> Later(s, r)
         /\ Key(r) # NoKey
<1>1. r.at \in Nat /\ s.at \in Nat /\ r.turn \in Nat /\ s.turn \in Nat
  BY TurnsAssumption DEF Rec
<1>2. /\ StringLess(Iso(r.at), Iso(s.at)) <=> r.at < s.at
      /\ Iso(r.at) = Iso(s.at) <=> r.at = s.at
  BY <1>1, IsoOrder
<1>3. KeyLess(Key(r), Key(s)) <=>
        \/ StringLess(Iso(r.at), Iso(s.at))
        \/ Iso(r.at) = Iso(s.at) /\ r.turn < s.turn
  BY DEF KeyLess, Key
<1>4. Key(r) # NoKey
  BY DEF Key, NoKey
<1> QED  BY <1>1, <1>2, <1>3, <1>4 DEF Later

-----------------------------------------------------------------------------
(* Sorting.  Both lemmas are about the smallest set that would contradict  *)
(* them: it exists because the subsets of a finite set are well founded.   *)

OneOrg(S) == S \in SUBSET Rec /\ \A r, s \in S : r.org = s.org

LEMMA SmallestSubset ==
  ASSUME NEW S, IsFiniteSet(S), NEW Bad \in SUBSET SUBSET S, Bad # {}
  PROVE  \E U \in Bad : \A T \in Bad : ~(T \subseteq U /\ T # U)
<1>1. IsWellFoundedOn(StrictSubsetOrdering(S), FiniteSubsetsOf(S))
  BY FS_StrictSubsetOrderingWellFounded
<1>2. FiniteSubsetsOf(S) = SUBSET S
  BY FS_FiniteSubsetsOfFinite
<1>3. PICK U \in Bad : \A T \in Bad : <<T, U>> \notin StrictSubsetOrdering(S)
  BY <1>1, <1>2, WFMin
<1> QED  BY <1>3 DEF StrictSubsetOrdering

(* A finite set of records has an oldest. *)
Oldest(S, r) == r \in S /\ \A s \in S \ {r} : Later(s, r)

LEMMA OldestExists ==
  ASSUME NEW S, IsFiniteSet(S), OneOrg(S), S # {}
  PROVE  \E r \in S : Oldest(S, r)
<1> DEFINE Bad == {T \in SUBSET S : T # {} /\ ~\E r \in T : Oldest(T, r)}
<1> SUFFICES ASSUME Bad # {}  PROVE FALSE
  OBVIOUS
<1>1. PICK U \in Bad : \A T \in Bad : ~(T \subseteq U /\ T # U)
  <2>1. Bad \in SUBSET SUBSET S
    OBVIOUS
  <2> HIDE DEF Bad
  <2> QED  BY <2>1, SmallestSubset
<1>2. PICK x \in U : TRUE
  OBVIOUS
<1>3. U \subseteq S /\ ~\E r \in U : Oldest(U, r)
  OBVIOUS
<1> HIDE DEF Bad
<1>4. CASE U = {x}
  BY <1>2, <1>3, <1>4 DEF Oldest
<1>5. CASE U # {x}
  <2>1. U \ {x} \notin Bad
    BY <1>1, <1>2
  <2>2. PICK y \in U \ {x} : Oldest(U \ {x}, y)
    BY <2>1, <1>2, <1>3, <1>5 DEF Bad
  <2>3. x \in Rec /\ y \in Rec /\ x # y /\ x.org = y.org
    BY <1>2, <1>3, <2>2 DEF OneOrg
  <2>4. CASE Later(x, y)
    BY <1>2, <1>3, <2>2, <2>4 DEF Oldest
  <2>5. CASE Later(y, x)
    <3>1. \A s \in U \ {x} : Later(s, x)
      BY <1>3, <2>2, <2>3, <2>5, LaterTransitive DEF Oldest, OneOrg
    <3> QED  BY <1>2, <1>3, <3>1 DEF Oldest
  <2> QED  BY <2>3, <2>4, <2>5, LaterTotal
<1> QED  BY <1>4, <1>5

Sorted(S, s) ==
  /\ s \in [1 .. Cardinality(S) -> S]
  /\ \A i, j \in DOMAIN s : i < j => Later(s[i], s[j])

LEMMA SortedExists ==
  ASSUME NEW S, IsFiniteSet(S), OneOrg(S)
  PROVE  \E s : Sorted(S, s)
<1> DEFINE Bad == {T \in SUBSET S : ~\E s : Sorted(T, s)}
<1> SUFFICES ASSUME Bad # {}  PROVE FALSE
  BY DEF Bad
<1>1. PICK U \in Bad : \A T \in Bad : ~(T \subseteq U /\ T # U)
  <2>1. Bad \in SUBSET SUBSET S
    OBVIOUS
  <2> HIDE DEF Bad
  <2> QED  BY <2>1, SmallestSubset
<1>2. U \subseteq S /\ ~\E s : Sorted(U, s)
  OBVIOUS
<1>3. IsFiniteSet(U) /\ OneOrg(U)
  BY <1>2, FS_Subset DEF OneOrg
<1> HIDE DEF Bad
<1>4. U # {}
  <2> SUFFICES ASSUME U = {}  PROVE FALSE
    OBVIOUS
  <2>1. Cardinality(U) = 0
    BY FS_EmptySet
  <2>2. Sorted(U, <<>>)
    BY <2>1 DEF Sorted
  <2> QED  BY <2>2, <1>2
<1>5. PICK x \in U : Oldest(U, x)
  BY <1>3, <1>4, OldestExists
<1> DEFINE T == U \ {x}
           n == Cardinality(T)
<1>6. T \notin Bad
  BY <1>1, <1>5
<1>7. PICK t : Sorted(T, t)
  BY <1>2, <1>6 DEF Bad
<1>8. IsFiniteSet(T) /\ n \in Nat /\ Cardinality(U) = n + 1
  <2>1. IsFiniteSet(T) /\ U = T \cup {x} /\ x \notin T
    BY <1>3, <1>5, FS_RemoveElement
  <2> QED  BY <2>1, FS_AddElement, FS_CardinalityType
<1> DEFINE s == [i \in 1 .. n + 1 |-> IF i = n + 1 THEN x ELSE t[i]]
<1>9. t \in [1 .. n -> T] /\ \A i, j \in 1 .. n : i < j => Later(t[i], t[j])
  BY <1>7 DEF Sorted
<1>10. \A i \in 1 .. n : t[i] \in U /\ Later(t[i], x)
  BY <1>9, <1>5 DEF Oldest
<1> HIDE DEF n, T
<1>11. s \in [1 .. n + 1 -> U]
  BY <1>8, <1>10, <1>5
<1>12. ASSUME NEW i \in 1 .. n + 1, NEW j \in 1 .. n + 1, i < j
       PROVE  Later(s[i], s[j])
  <2>1. i \in 1 .. n /\ i # n + 1 /\ s[i] = t[i]
    BY <1>8, <1>12
  <2>2. CASE j = n + 1
    BY <2>1, <2>2, <1>10
  <2>3. CASE j # n + 1
    <3>1. j \in 1 .. n
      BY <1>8, <2>3
    <3> QED  BY <2>1, <2>3, <3>1, <1>9, <1>12
  <2> QED  BY <2>2, <2>3
<1>13. Sorted(U, s)
  BY <1>8, <1>11, <1>12 DEF Sorted
<1> QED  BY <1>13, <1>2

(* The page: sorted records of what is left, and every other one is older. *)
LEMMA PageIs ==
  ASSUME NEW left, IsFiniteSet(left), OneOrg(left)
  PROVE  LET page == Page(left)
             more == Cardinality(left) > Limit IN
         /\ page \in Seq(left)
         /\ \A i, j \in 1 .. Len(page) : i < j => Later(page[i], page[j])
         /\ more => /\ page # <<>>
                    /\ \A r \in left : r \in ToSet(page) \/ Later(Last(page), r)
         /\ ~more => \A r \in left : r \in ToSet(page)
<1> DEFINE n == Cardinality(left)
           all == NewestFirst(left)
           k == IF n > Limit THEN Limit ELSE n
           page == Page(left)
<1>1. n \in Nat
  BY FS_CardinalityType
<1>2. Sorted(left, all)
  <2>1. PICK s : Sorted(left, s)
    BY SortedExists
  <2> QED  BY <2>1 DEF Sorted, NewestFirst
<1>3. all \in [1 .. n -> left] /\ \A i, j \in 1 .. n : i < j => Later(all[i], all[j])
  BY <1>2 DEF Sorted
<1>4. k \in 0 .. n /\ Limit \in Nat /\ Limit > 0
  BY <1>1, WindowAssumption
<1>5. page = SubSeq(all, 1, k)
  BY DEF Page
<1>6. \A r \in left : \E i \in 1 .. n : all[i] = r
  <2>1. all \in Injection(1 .. n, left)
    <3>1. ASSUME NEW i \in 1 .. n, NEW j \in 1 .. n, all[i] = all[j]  PROVE i = j
      <4>1. all[i] \in Rec /\ all[j] \in Rec
        BY <1>3 DEF OneOrg
      <4>2. ~(i < j)
        BY <1>3, <3>1, <4>1, LaterIrreflexive
      <4>3. ~(j < i)
        BY <1>3, <3>1, <4>1, LaterIrreflexive
      <4> QED  BY <4>2, <4>3, <1>1
    <3> QED  BY <1>3, <3>1 DEF Injection, IsInjective
  <2>2. Cardinality(1 .. n) = n
    BY <1>1, FS_Interval
  <2>3. all \in Surjection(1 .. n, left)
    BY <2>1, <2>2, FS_Injection
  <2> QED  BY <2>3 DEF Surjection
<1> HIDE DEF n, all, k, page
<1>7. page \in Seq(left) /\ Len(page) = k /\ \A i \in 1 .. k : page[i] = all[i]
  <2>1. all \in Seq(left) /\ Len(all) = n
    BY <1>1, <1>3
  <2> QED  BY <1>1, <1>4, <1>5, <2>1
<1>8. ASSUME NEW i \in 1 .. Len(page), NEW j \in 1 .. Len(page), i < j
      PROVE  Later(page[i], page[j])
  BY <1>1, <1>3, <1>4, <1>7, <1>8
<1>9. ASSUME n > Limit
      PROVE  /\ page # <<>>
             /\ \A r \in left : r \in ToSet(page) \/ Later(Last(page), r)
  <2>1. k = Limit /\ k \in 1 .. n
    BY <1>1, <1>4, <1>9 DEF k
  <2>2. page # <<>> /\ Last(page) = all[k]
    BY <1>7, <2>1, <1>4 DEF Last
  <2>3. ASSUME NEW r \in left  PROVE r \in ToSet(page) \/ Later(Last(page), r)
    <3>1. PICK i \in 1 .. n : all[i] = r
      BY <1>6
    <3>2. CASE i \in 1 .. k
      BY <1>7, <3>1, <3>2 DEF ToSet
    <3>3. CASE i \notin 1 .. k
      <4>1. k < i
        BY <3>3, <2>1, <1>1
      <4> QED  BY <4>1, <3>1, <2>1, <2>2, <1>3
    <3> QED  BY <3>2, <3>3
  <2> QED  BY <2>2, <2>3
<1>10. ASSUME ~(n > Limit), NEW r \in left  PROVE r \in ToSet(page)
  <2>1. k = n
    BY <1>10 DEF k
  <2> QED  BY <2>1, <1>6, <1>7 DEF ToSet
<1> QED  BY <1>7, <1>8, <1>9, <1>10 DEF n, page

-----------------------------------------------------------------------------
(* The inductive invariant. *)

(* Records are well formed, and finitely many. *)
LogTypes ==
  /\ clock \in Nat
  /\ records \in SUBSET Rec /\ IsFiniteSet(records)
  /\ settled \in SUBSET Rec /\ IsFiniteSet(settled)

Fields ==
  /\ view = [at |-> view.at, org |-> view.org, bills |-> view.bills,
             since |-> view.since, until |-> view.until, after |-> view.after,
             shown |-> view.shown, totals |-> view.totals,
             steady |-> view.steady, seen |-> view.seen]
  /\ view.at \in {"none", "first", "next", "done", "refused"}
  /\ view.since \in Int /\ view.until \in Int
  /\ view.shown \in Seq(Rec)
  /\ view.steady \in SUBSET view.seen

(* The cursor is the last record shown. *)
Cursor ==
  /\ view.at \in {"none", "first"} =>
       view.after = NoKey /\ view.shown = <<>> /\ view.seen = {}
  /\ view.at = "next" =>
       view.shown # <<>> /\ view.after = Key(view.shown[Len(view.shown)])

(* What was there all the time was shown, or is older than the cursor. *)
Reached ==
  \A r \in view.steady :
    \/ r \in Shown
    \/ view.at = "next" /\ r \in Rec /\ Later(view.shown[Len(view.shown)], r)
    \/ view.at = "refused"

(* What was shown was there; and if nothing changed, it is the total. *)
Summed ==
  /\ Shown \subseteq view.seen
  /\ view.at \in {"next", "done"} /\ view.seen = view.steady =>
       view.totals = Total(view.seen)

(* One organisation is read, the one the caller's turns are billed to. *)
Own == view.org = view.bills /\ \A r \in Shown : r.org = view.org

IInv == LogTypes /\ Fields /\ Cursor /\ Reached /\ Summed /\ Own /\ PagesInOrder

LEMMA NoViewIs ==
  ASSUME view = NoView
  PROVE  /\ view.at = "none" /\ view.org = NoOrg /\ view.bills = NoOrg
         /\ view.since = -1 /\ view.until = -1 /\ view.after = NoKey
         /\ view.shown = <<>> /\ view.steady = {} /\ view.seen = {}
         /\ Shown = {}
BY DEF NoView, NoTime, Shown, ToSet

LEMMA InitOK == Start => IInv
<1> SUFFICES ASSUME Start  PROVE IInv
  OBVIOUS
<1> USE NoViewIs DEF Start
<1>1. LogTypes
  BY FS_EmptySet DEF Init, LogTypes
<1>2. Fields
  BY DEF Fields, NoView, NoTime
<1>3. Cursor /\ Reached /\ Own
  BY DEF Cursor, Reached, Own
<1>4. Summed
  BY DEF Summed
<1>5. PagesInOrder
  BY DEF PagesInOrder
<1> QED  BY <1>1, <1>2, <1>3, <1>4, <1>5 DEF IInv

(* The log under the pages. *)
LEMMA LogStep ==
  ASSUME LogTypes, LogNext \/ UNCHANGED logVars
  PROVE  LogTypes'
<1>1. ASSUME NEW t \in Turns, Adds(t)  PROVE LogTypes'
  <2>1. CASE UNCHANGED records
    BY <1>1, <2>1 DEF Adds, LogTypes
  <2>2. ASSUME NEW o \in Billed, NEW at \in 0 .. clock,
               records' = records \cup {Record(t, o, at)}
        PROVE  LogTypes'
    <3>1. at \in Nat
      BY DEF LogTypes
    <3>2. Record(t, o, at) \in Rec
      BY <3>1 DEF Record, Rec
    <3>3. IsFiniteSet(records')
      BY <2>2, FS_AddElement DEF LogTypes
    <3> QED  BY <1>1, <2>2, <3>2, <3>3 DEF Adds, LogTypes
  <2> QED  BY <1>1, <2>1, <2>2 DEF Adds
<1>2. CASE Settle
  BY <1>2 DEF Settle, LogTypes
<1>3. CASE Purge
  <2>1. records' \in SUBSET records
    BY <1>3 DEF Purge
  <2>2. IsFiniteSet(records')
    BY <2>1, FS_Subset DEF LogTypes
  <2> QED  BY <1>3, <2>1, <2>2 DEF Purge, LogTypes
<1>4. CASE Restart
  BY <1>4 DEF Restart, LogTypes
<1>5. CASE Tick
  BY <1>5 DEF Tick, LogTypes
<1>6. CASE UNCHANGED logVars
  BY <1>6 DEF logVars, LogTypes
<1> QED  BY <1>1, <1>2, <1>3, <1>4, <1>5, <1>6 DEF LogNext

(* Which organisation a read is for. *)
LEMMA ReadsWhatItWrites ==
  ASSUME NEW s \in Settings, NEW c \in Callers, ResolveOrg(s, c, TRUE) # Forbidden
  PROVE  ResolveOrg(s, c, FALSE) = ResolveOrg(s, c, TRUE)
<1> s.tenants \in BOOLEAN /\ s.dev \in BOOLEAN
  BY DEF Settings
<1> QED  BY DEF ResolveOrg

LEMMA AskOK ==
  ASSUME IInv, NEW s \in Settings, NEW c \in Callers, Ask(s, c)
  PROVE  IInv'
<1>1. PICK since \in Pins \cup {NoTime}, until \in Pins \cup {NoTime} :
        view' = [NoView EXCEPT !.at = "first", !.since = since, !.until = until,
                               !.org = ResolveOrg(s, c, TRUE),
                               !.bills = ResolveOrg(s, c, FALSE)]
  BY DEF Ask
<1>2. since \in Int /\ until \in Int
  BY WindowAssumption DEF NoTime
<1>3. /\ view' = [at |-> "first", org |-> view'.org, bills |-> view'.bills,
                  since |-> since, until |-> until, after |-> NoKey,
                  shown |-> <<>>, totals |-> 0, steady |-> {}, seen |-> {}]
      /\ view'.org = view'.bills
  BY <1>1, ReadsWhatItWrites DEF Ask, NoView
<1>4. Shown' = {}
  BY <1>3 DEF Shown, ToSet
<1>5. Fields'
  <2>1. PICK org, bills :
          view' = [at |-> "first", org |-> org, bills |-> bills, since |-> since,
                   until |-> until, after |-> NoKey, shown |-> <<>>, totals |-> 0,
                   steady |-> {}, seen |-> {}]
    BY <1>3
  <2> QED  BY <1>2, <2>1 DEF Fields
<1>6. LogTypes'
  BY LogStep DEF IInv, Ask
<1>7. Cursor' /\ Reached' /\ Own'
  BY <1>3, <1>4 DEF Cursor, Reached, Own
<1>8. Summed'
  BY <1>3, <1>4 DEF Summed
<1>9. PagesInOrder'
  BY <1>3 DEF PagesInOrder
<1> QED  BY <1>5, <1>6, <1>7, <1>8, <1>9 DEF IInv

LEMMA RefusedOK ==
  ASSUME IInv, Refused
  PROVE  IInv'
<1>1. /\ view' = [at |-> "refused", org |-> view.org, bills |-> view.bills,
                  since |-> view.since, until |-> view.until, after |-> view.after,
                  shown |-> view.shown, totals |-> view.totals,
                  steady |-> view.steady, seen |-> view.seen]
  BY DEF Refused, IInv, Fields
<1>2. Shown' = Shown
  BY <1>1 DEF Shown
<1>3. Fields'
  BY <1>1 DEF Fields, IInv
<1>4. LogTypes'
  BY LogStep DEF IInv, Refused
<1>5. Cursor' /\ Reached' /\ Own' /\ Summed'
  BY <1>1, <1>2 DEF Cursor, Reached, Own, Summed, IInv
<1>6. PagesInOrder'
  BY <1>1 DEF PagesInOrder, IInv
<1> QED  BY <1>3, <1>4, <1>5, <1>6 DEF IInv

LEMMA QueryIs ==
  ASSUME LogTypes, NEW org, NEW since \in Int, NEW until \in Int
  PROVE  /\ OneOrg(Query(org, since, until))
         /\ IsFiniteSet(Query(org, since, until))
         /\ \A r \in Query(org, since, until) : r.org = org
<1>1. Query(org, since, until) \in SUBSET records
  BY DEF Query
<1> QED  BY <1>1, FS_Subset DEF Query, OneOrg, LogTypes

LEMMA ToSetConcat ==
  ASSUME NEW S, NEW p \in Seq(S), NEW q \in Seq(S)
  PROVE  ToSet(p \o q) = ToSet(p) \cup ToSet(q)
<1>1. /\ DOMAIN p = 1 .. Len(p) /\ DOMAIN q = 1 .. Len(q)
      /\ DOMAIN (p \o q) = 1 .. Len(p) + Len(q)
      /\ Len(p) \in Nat /\ Len(q) \in Nat
      /\ \A i \in 1 .. Len(p) : (p \o q)[i] = p[i]
      /\ \A i \in 1 .. Len(q) : (p \o q)[Len(p) + i] = q[i]
  OBVIOUS
<1>2. ASSUME NEW i \in 1 .. Len(p) + Len(q)  PROVE (p \o q)[i] \in ToSet(p) \cup ToSet(q)
  <2>1. CASE i \in 1 .. Len(p)
    BY <1>1, <2>1 DEF ToSet
  <2>2. CASE i \notin 1 .. Len(p)
    <3>1. (i - Len(p)) \in 1 .. Len(q) /\ i = Len(p) + (i - Len(p))
      BY <1>1, <2>2
    <3>2. (p \o q)[i] = q[i - Len(p)]
      BY <1>1, <3>1
    <3> QED  BY <1>1, <3>1, <3>2 DEF ToSet
  <2> QED  BY <2>1, <2>2
<1>3. ASSUME NEW i \in 1 .. Len(p)  PROVE p[i] \in ToSet(p \o q)
  BY <1>1 DEF ToSet
<1>4. ASSUME NEW i \in 1 .. Len(q)  PROVE q[i] \in ToSet(p \o q)
  <2>1. (Len(p) + i) \in 1 .. Len(p) + Len(q)
    BY <1>1
  <2> QED  BY <1>1, <2>1 DEF ToSet
<1> QED  BY <1>1, <1>2, <1>3, <1>4 DEF ToSet

LEMMA ShowPageOK ==
  ASSUME IInv, ShowPage
  PROVE  IInv'
<1> DEFINE found == Query(view.org, Since, Until)
           left == Remaining(found, view.after)
           page == Page(left)
           more == Cardinality(left) > Limit
           shown == view.shown
           last == shown[Len(shown)]
<1>1. OneOrg(found) /\ IsFiniteSet(found) /\ \A r \in found : r.org = view.org
  <2>1. Until \in Int
    BY DEF Until, IInv, Fields, LogTypes
  <2>2. Since \in Int
    BY <2>1, WindowAssumption DEF Since, IInv, Fields
  <2> QED  BY <2>1, <2>2, QueryIs DEF IInv
<1>2. left \in SUBSET found /\ OneOrg(left) /\ IsFiniteSet(left)
  <2>1. left \in SUBSET found
    BY DEF Remaining
  <2> QED  BY <2>1, <1>1, FS_Subset DEF OneOrg
<1>3. /\ page \in Seq(left)
      /\ \A i, j \in 1 .. Len(page) : i < j => Later(page[i], page[j])
      /\ more => /\ page # <<>>
                 /\ \A r \in left : r \in ToSet(page) \/ Later(Last(page), r)
      /\ ~more => \A r \in left : r \in ToSet(page)
  BY <1>2, PageIs
<1>4. /\ view.at \in {"first", "next"}
      /\ view' = [view EXCEPT
           !.at = IF more THEN "next" ELSE "done",
           !.after = IF more THEN Key(Last(page)) ELSE NoKey,
           !.shown = shown \o page,
           !.totals = Total(found),
           !.steady = IF view.at = "first" THEN found ELSE view.steady \cap found,
           !.seen = view.seen \cup found]
      /\ UNCHANGED logVars
  BY DEF ShowPage
<1>5. LogTypes'
  BY <1>4, LogStep DEF IInv
<1>6. shown \in Seq(Rec) /\ page \in Seq(Rec)
  BY <1>2, <1>3 DEF IInv, Fields, OneOrg
<1>7. found \in SUBSET Rec /\ left \in SUBSET Rec
  BY <1>1, <1>2 DEF OneOrg
(* Where the page stands to what was shown before. *)
<1>8. view.at = "first" => shown = <<>> /\ left = found /\ view.seen = {}
  BY DEF IInv, Cursor, Remaining
<1>9. view.at = "next" => /\ shown # <<>> /\ last \in Rec
                         /\ \A r \in found : r \in left <=> Later(last, r)
  <2> SUFFICES ASSUME view.at = "next"
               PROVE  /\ shown # <<>> /\ last \in Rec
                      /\ \A r \in found : r \in left <=> Later(last, r)
    OBVIOUS
  <2>1. shown # <<>> /\ view.after = Key(last)
    BY DEF IInv, Cursor
  <2>2. last \in Rec
    BY <1>6, <2>1
  <2>3. view.after # NoKey
    BY <2>1, <2>2, CursorOrder
  <2>4. ASSUME NEW r \in found  PROVE r \in left <=> Later(last, r)
    <3>1. KeyLess(Key(r), view.after) <=> Later(last, r)
      BY <1>7, <2>1, <2>2, CursorOrder
    <3> QED  BY <2>3, <3>1 DEF Remaining
  <2> QED  BY <2>1, <2>2, <2>4
<1> HIDE DEF found, left, page, more, shown, last
<1>10. /\ view'.at = (IF more THEN "next" ELSE "done")
       /\ view'.after = (IF more THEN Key(Last(page)) ELSE NoKey)
       /\ view'.shown = shown \o page /\ view'.totals = Total(found)
       /\ view'.steady = (IF view.at = "first" THEN found ELSE view.steady \cap found)
       /\ view'.seen = view.seen \cup found
       /\ view'.org = view.org /\ view'.bills = view.bills
       /\ view'.since = view.since /\ view'.until = view.until
       /\ view' = [at |-> view'.at, org |-> view'.org, bills |-> view'.bills,
             since |-> view'.since, until |-> view'.until, after |-> view'.after,
             shown |-> view'.shown, totals |-> view'.totals,
             steady |-> view'.steady, seen |-> view'.seen]
  <2>1. PICK at, org, bills, since, until, after, sh, totals, steady, seen :
          view = [at |-> at, org |-> org, bills |-> bills,
                  since |-> since, until |-> until, after |-> after,
                  shown |-> sh, totals |-> totals, steady |-> steady, seen |-> seen]
    BY DEF IInv, Fields
  <2> QED  BY <1>4, <2>1
<1>11. Shown = ToSet(shown) /\ Shown' = ToSet(shown \o page)
  BY <1>10 DEF Shown, shown
<1>12. Shown' = Shown \cup ToSet(page) /\ ToSet(page) \subseteq left
  <2>1. ToSet(page) \subseteq left
    BY <1>3 DEF ToSet
  <2>2. ToSet(shown \o page) = ToSet(shown) \cup ToSet(page)
    BY <1>6, ToSetConcat
  <2> QED  BY <2>1, <2>2, <1>11
<1>13. Fields'
  <2>1. view.since \in Int /\ view.until \in Int /\ view.steady \in SUBSET view.seen
    BY DEF IInv, Fields
  <2>2. (shown \o page) \in Seq(Rec)
    BY <1>6
  <2>3. view'.steady \in SUBSET view'.seen
    BY <1>10, <2>1
  <2> QED  BY <1>10, <2>1, <2>2, <2>3 DEF Fields
<1>14. Own'
  BY <1>1, <1>2, <1>10, <1>12 DEF IInv, Own
<1>15. more => /\ page # <<>> /\ shown \o page # <<>>
              /\ (shown \o page)[Len(shown \o page)] = Last(page)
  BY <1>3, <1>6 DEF Last
<1>16. Cursor'
  BY <1>10, <1>15 DEF Cursor
<1>17. Summed'
  <2>1. Shown' \subseteq view'.seen
    BY <1>2, <1>10, <1>12 DEF IInv, Summed
  <2>2. ASSUME view'.seen = view'.steady  PROVE view'.totals = Total(view'.seen)
    <3>1. view'.steady \subseteq found /\ found \subseteq view'.seen
      BY <1>10
    <3>2. view'.seen = found
      BY <3>1, <2>2
    <3> QED  BY <3>2, <1>10
  <2> QED  BY <2>1, <2>2 DEF Summed
<1>18. Reached'
  <2> SUFFICES ASSUME NEW r \in view'.steady
               PROVE  \/ r \in Shown'
                      \/ more /\ r \in Rec /\ Later(Last(page), r)
    BY <1>10, <1>15 DEF Reached
  <2>1. r \in found /\ r \in Rec
    BY <1>7, <1>10
  <2>2. r \in left => r \in ToSet(page) \/ (more /\ Later(Last(page), r))
    BY <1>3
  <2>3. CASE r \in left
    BY <2>1, <2>2, <2>3, <1>12
  <2>4. CASE r \notin left
    <3>1. view.at = "next" /\ r \in view.steady
      BY <1>4, <1>8, <1>10, <2>1, <2>4
    <3>2. r \in Shown \/ Later(last, r)
      BY <3>1 DEF IInv, Reached, last, shown
    <3>3. r \in Shown
      BY <3>1, <3>2, <1>9, <2>1, <2>4
    <3> QED  BY <3>3, <1>12
  <2> QED  BY <2>3, <2>4
<1>19. PagesInOrder'
  <2>1. \A i, j \in 1 .. Len(shown) : i < j => Later(shown[i], shown[j])
    BY DEF IInv, PagesInOrder, shown
  <2>2. ASSUME NEW i \in 1 .. Len(shown), NEW j \in 1 .. Len(page)
        PROVE  Later(shown[i], page[j])
    <3>1. page[j] \in left /\ page[j] \in Rec /\ shown[i] \in Rec
      BY <1>3, <1>6
    <3>2. shown # <<>>
      BY <1>6
    <3>3. view.at = "next" /\ last \in Rec /\ Later(last, page[j])
      BY <1>2, <1>4, <1>8, <1>9, <3>1, <3>2
    <3>4. CASE i = Len(shown)
      BY <3>3, <3>4 DEF last
    <3>5. CASE i # Len(shown)
      <4>1. Later(shown[i], last)
        BY <2>1, <1>6, <3>5 DEF last
      <4> QED  BY <4>1, <3>1, <3>3, LaterTransitive
    <3> QED  BY <3>4, <3>5
  <2>3. /\ Len(shown \o page) = Len(shown) + Len(page)
        /\ Len(shown) \in Nat /\ Len(page) \in Nat
        /\ \A i \in 1 .. Len(shown) + Len(page) :
             (shown \o page)[i] = IF i <= Len(shown) THEN shown[i] ELSE page[i - Len(shown)]
    BY <1>6
  <2> DEFINE m == Len(shown)
             n == Len(page)
             both == shown \o page
  <2>4. ASSUME NEW i \in 1 .. m + n, NEW j \in 1 .. m + n, i < j
        PROVE  Later(both[i], both[j])
    <3>1. both[i] = (IF i <= m THEN shown[i] ELSE page[i - m])
      BY <2>3
    <3>2. both[j] = (IF j <= m THEN shown[j] ELSE page[j - m])
      BY <2>3
    <3>3. m \in Nat /\ n \in Nat
      BY <2>3
    <3> HIDE DEF m, n, both
    <3>4. CASE j <= m
      <4>1. i \in 1 .. m /\ j \in 1 .. m
        BY <3>3, <3>4, <2>4
      <4> QED  BY <4>1, <3>1, <3>2, <2>1, <2>4 DEF m
    <3>5. CASE i <= m /\ ~(j <= m)
      <4>1. i \in 1 .. m /\ (j - m) \in 1 .. n
        BY <3>3, <3>5
      <4> QED  BY <4>1, <3>1, <3>2, <3>5, <2>2 DEF m, n
    <3>6. CASE ~(i <= m)
      <4>1. (i - m) \in 1 .. n /\ (j - m) \in 1 .. n /\ i - m < j - m /\ ~(j <= m)
        BY <3>3, <3>6, <2>4
      <4> QED  BY <4>1, <3>1, <3>2, <3>6, <1>3 DEF n
    <3> QED  BY <3>3, <3>4, <3>5, <3>6
  <2> QED  BY <2>3, <2>4, <1>10 DEF PagesInOrder
<1> QED  BY <1>5, <1>13, <1>14, <1>16, <1>17, <1>18, <1>19 DEF IInv

LEMMA LogNextOK ==
  ASSUME IInv, LogNext \/ UNCHANGED logVars, UNCHANGED view
  PROVE  IInv'
<1>1. LogTypes'
  BY LogStep DEF IInv
<1>2. Shown' = Shown
  BY DEF Shown
<1>3. Fields' /\ Cursor' /\ Reached' /\ Own' /\ PagesInOrder'
  BY <1>2 DEF IInv, Fields, Cursor, Reached, Own, PagesInOrder
<1>4. Summed'
  BY <1>2 DEF IInv, Summed
<1> QED  BY <1>1, <1>3, <1>4 DEF IInv

LEMMA NextOK == IInv /\ [Next]_vars => IInv'
<1> SUFFICES ASSUME IInv, [Next]_vars  PROVE IInv'
  OBVIOUS
<1>1. CASE LogNext /\ UNCHANGED view
  BY <1>1, LogNextOK
<1>2. ASSUME NEW s \in Settings, NEW c \in Callers, Ask(s, c)  PROVE IInv'
  BY <1>2, AskOK
<1>3. CASE Refused
  BY <1>3, RefusedOK
<1>4. CASE ShowPage
  BY <1>4, ShowPageOK
<1>5. CASE UNCHANGED vars
  BY <1>5, LogNextOK DEF vars
<1> QED  BY <1>1, <1>2, <1>3, <1>4, <1>5 DEF Next

(* The invariant behind the theorems below: records are well formed, the   *)
(* cursor is the last record shown, and what was there all the time has    *)
(* been shown or is older than the cursor.                                 *)
THEOREM Invariance == Spec => []IInv
<1>1. Start => IInv
  BY InitOK
<1>2. IInv /\ [Next]_vars => IInv'
  BY NextOK
<1> QED  BY <1>1, <1>2, PTL DEF Spec

LEMMA CompleteAtTheEnd == IInv => PagesComplete
<1> SUFFICES ASSUME IInv, view.at = "done"
             PROVE  /\ view.steady \subseteq Shown
                    /\ view.seen = view.steady => Total(Shown) = view.totals
  BY DEF PagesComplete
<1>1. view.steady \subseteq Shown
  BY DEF IInv, Reached
<1>2. ASSUME view.seen = view.steady  PROVE Total(Shown) = view.totals
  <2>1. Shown = view.seen
    BY <1>1, <1>2 DEF IInv, Summed
  <2> QED  BY <1>2, <2>1 DEF IInv, Summed
<1> QED  BY <1>1, <1>2

(* PagesExact for any number of turns, any page size and any window: the   *)
(* pages come newest first without repeating a record, and the last one    *)
(* leaves out nothing that was there all the time (get_usage, query).      *)
THEOREM PagesAreExact == Spec => []PagesExact
<1>1. IInv => PagesExact
  BY CompleteAtTheEnd DEF IInv, PagesExact
<1> QED  BY <1>1, Invariance, PTL

(* ReadsOwnBills: whatever header a caller sends, and whatever the host's  *)
(* settings are, it is shown the records its own turns are billed to       *)
(* (resolve_org_id with for_read).                                         *)
THEOREM ReadsStayHome == Spec => []ReadsOwnBills
<1>1. IInv => ReadsOwnBills
  BY DEF IInv, Own, ReadsOwnBills
<1> QED  BY <1>1, Invariance, PTL

-----------------------------------------------------------------------------
(* The keys of threads in the engine. *)

LEMMA ConcatIs ==
  ASSUME NEW S, NEW p \in Seq(S), NEW q \in Seq(S)
  PROVE  /\ (p \o q) \in Seq(S) /\ Len(p \o q) = Len(p) + Len(q)
         /\ Len(p) \in Nat /\ Len(q) \in Nat
         /\ \A i \in 1 .. Len(p) : (p \o q)[i] = p[i]
         /\ \A i \in 1 .. Len(q) : (p \o q)[Len(p) + i] = q[i]
OBVIOUS

LEMMA DigitIs ==
  /\ \A n \in 0 .. 9 : Digit[n] # Colon /\ Digit[n] \in Digits
  /\ \A m, n \in 0 .. 9 : Digit[m] = Digit[n] => m = n
<1> DEFINE D == <<"0", "1", "2", "3", "4", "5", "6", "7", "8", "9">>
<1>1. \A n \in 0 .. 9 : Digit[n] = D[n + 1]
  BY DEF Digit
<1>2. /\ D[1] = "0" /\ D[2] = "1" /\ D[3] = "2" /\ D[4] = "3" /\ D[5] = "4"
      /\ D[6] = "5" /\ D[7] = "6" /\ D[8] = "7" /\ D[9] = "8" /\ D[10] = "9"
  OBVIOUS
<1> HIDE DEF D
<1>3. /\ Digit[0] = "0" /\ Digit[1] = "1" /\ Digit[2] = "2" /\ Digit[3] = "3"
      /\ Digit[4] = "4" /\ Digit[5] = "5" /\ Digit[6] = "6" /\ Digit[7] = "7"
      /\ Digit[8] = "8" /\ Digit[9] = "9"
  BY <1>1, <1>2
<1>4. \A n \in 0 .. 9 : n = 0 \/ n = 1 \/ n = 2 \/ n = 3 \/ n = 4
                        \/ n = 5 \/ n = 6 \/ n = 7 \/ n = 8 \/ n = 9
  OBVIOUS
<1> QED  BY <1>3, <1>4 DEF Colon, Digits

(* A length is told by its digits: Decimal is injective below a thousand,  *)
(* and a word of one to three digits.                                      *)
LEMMA ByTen ==
  ASSUME NEW n \in Nat
  PROVE  n \div 10 \in Nat /\ n % 10 \in 0 .. 9 /\ n = 10 * (n \div 10) + (n % 10)
OBVIOUS

LEMMA ByHundred ==
  ASSUME NEW n \in Nat
  PROVE  n \div 100 \in Nat /\ n \div 100 = (n \div 10) \div 10
OBVIOUS

LEMMA Widths ==
  ASSUME NEW n \in Nat
  PROVE  /\ n < 10 => Decimal(n) = <<Digit[n]>>
         /\ 10 <= n /\ n < 100 => Decimal(n) = <<Digit[n \div 10], Digit[n % 10]>>
         /\ 100 <= n => Decimal(n) = <<Digit[n \div 100], Digit[(n \div 10) % 10], Digit[n % 10]>>
<1>1. CASE n < 10
  BY <1>1 DEF Decimal
<1>2. CASE 10 <= n /\ n < 100
  <2>1. ~(n < 10) /\ ~(100 <= n)
    BY <1>2
  <2> QED BY <1>2, <2>1 DEF Decimal
<1>3. CASE 100 <= n
  <2>1. ~(n < 10) /\ ~(n < 100)
    BY <1>3
  <2> QED BY <1>3, <2>1 DEF Decimal
<1> QED BY <1>1, <1>2, <1>3

Spells(w, n, h, t, o) ==
  \/ w = <<Digit[o]>> /\ n = o
  \/ w = <<Digit[t], Digit[o]>> /\ n = 10 * t + o
  \/ w = <<Digit[h], Digit[t], Digit[o]>> /\ n = 100 * h + 10 * t + o

LEMMA DecimalIs ==
  ASSUME NEW n \in Nat, n < 1000
  PROVE  \E h, t, o \in 0 .. 9 : Spells(Decimal(n), n, h, t, o)
<1> DEFINE h == n \div 100
           d == n \div 10
           t == d % 10
           o == n % 10
<1>1. d \in Nat /\ o \in 0 .. 9 /\ n = 10 * d + o
  BY ByTen
<1>2. h = d \div 10
  BY ByHundred
<1>3. h \in Nat /\ t \in 0 .. 9 /\ d = 10 * h + t
  <2> HIDE DEF d
  <2> QED BY <1>1, <1>2, ByTen
<1>4. CASE n < 10
  <2>1. Spells(Decimal(n), n, n, n, n) /\ n \in 0 .. 9
    BY <1>4, Widths DEF Spells
  <2> QED BY <2>1
<1>5. CASE 10 <= n /\ n < 100
  <2>1. Decimal(n) = <<Digit[d], Digit[o]>>
    BY <1>5, Widths
  <2> HIDE DEF d, o
  <2>2. d \in 0 .. 9
    BY <1>1, <1>5
  <2>3. Spells(Decimal(n), n, d, d, o)
    BY <1>1, <2>1, <2>2 DEF Spells
  <2> QED BY <1>1, <2>2, <2>3
<1>6. CASE 100 <= n
  <2>1. Decimal(n) = <<Digit[h], Digit[t], Digit[o]>>
    BY <1>6, Widths
  <2> HIDE DEF d, o, h, t
  <2>2. h \in 0 .. 9 /\ n = 100 * h + 10 * t + o
    BY <1>1, <1>3
  <2>3. Spells(Decimal(n), n, h, t, o)
    BY <2>1, <2>2 DEF Spells
  <2> QED BY <1>1, <1>3, <2>2, <2>3
<1> HIDE DEF d, o, h, t
<1>7. n < 10 \/ (10 <= n /\ n < 100) \/ 100 <= n
  OBVIOUS
<1> QED BY <1>4, <1>5, <1>6, <1>7

LEMMA DecimalApart ==
  ASSUME NEW m \in Nat, m < 1000, NEW n \in Nat, n < 1000, Decimal(m) = Decimal(n)
  PROVE  m = n
<1>1. PICK h, t, o \in 0 .. 9 : Spells(Decimal(n), n, h, t, o)
  BY DecimalIs
<1>2. PICK p, q, r \in 0 .. 9 : Spells(Decimal(m), m, p, q, r)
  BY DecimalIs
<1>3. CASE Decimal(n) = <<Digit[o]>> /\ n = o
  <2>1. Decimal(m) = <<Digit[r]>> /\ m = r /\ Digit[r] = Digit[o]
    BY <1>2, <1>3 DEF Spells
  <2> QED BY <1>3, <2>1, DigitIs
<1>4. CASE Decimal(n) = <<Digit[t], Digit[o]>> /\ n = 10 * t + o
  <2>1. /\ Decimal(m) = <<Digit[q], Digit[r]>> /\ m = 10 * q + r
        /\ Digit[r] = Digit[o] /\ Digit[q] = Digit[t]
    BY <1>2, <1>4 DEF Spells
  <2>2. r = o /\ q = t
    BY <2>1, DigitIs
  <2> QED BY <1>4, <2>1, <2>2
<1>5. CASE Decimal(n) = <<Digit[h], Digit[t], Digit[o]>> /\ n = 100 * h + 10 * t + o
  <2>1. /\ Decimal(m) = <<Digit[p], Digit[q], Digit[r]>> /\ m = 100 * p + 10 * q + r
        /\ Digit[p] = Digit[h] /\ Digit[q] = Digit[t] /\ Digit[r] = Digit[o]
    BY <1>2, <1>5 DEF Spells
  <2>2. p = h /\ r = o /\ q = t
    BY <2>1, DigitIs
  <2> QED BY <1>5, <2>1, <2>2
<1> QED BY <1>1, <1>3, <1>4, <1>5 DEF Spells

LEMMA DecimalTyped ==
  ASSUME NEW n \in Nat, n < 1000
  PROVE  /\ Decimal(n) \in Seq(Digits) /\ Len(Decimal(n)) \in 1 .. 3
         /\ \A i \in 1 .. Len(Decimal(n)) : Decimal(n)[i] \in Digits
<1>1. PICK h, t, o \in 0 .. 9 : Spells(Decimal(n), n, h, t, o)
  BY DecimalIs
<1>2. Digit[o] \in Digits /\ Digit[h] \in Digits /\ Digit[t] \in Digits
  BY DigitIs
<1>3. Decimal(n) \in Seq(Digits) /\ Len(Decimal(n)) \in 1 .. 3
  <2>1. CASE Decimal(n) = <<Digit[o]>>
    BY <2>1, <1>2
  <2>2. CASE Decimal(n) = <<Digit[t], Digit[o]>>
    BY <2>2, <1>2
  <2>3. CASE Decimal(n) = <<Digit[h], Digit[t], Digit[o]>>
    BY <2>3, <1>2
  <2> QED BY <1>1, <2>1, <2>2, <2>3 DEF Spells
<1> QED BY <1>3

-----------------------------------------------------------------------------
(* Names of up to 999 characters. *)
Named(Char) == {org \in Seq(Char) : 0 < Len(org) /\ Len(org) < 1000}

(* What stands where in a scoped key: the length, in w digits, a colon,    *)
(* the organisation, a colon, the thread.                                  *)
Width(org) == Len(Decimal(Len(org)))

Scoped(key, org, thread) ==
  LET w == Width(org) IN
  /\ Len(key) = w + 2 + Len(org) + Len(thread)
  /\ \A i \in 1 .. w : key[i] = Decimal(Len(org))[i]
  /\ key[w + 1] = Colon
  /\ \A i \in 1 .. Len(org) : key[w + 1 + i] = org[i]
  /\ \A i \in 1 .. Len(thread) : key[w + 2 + Len(org) + i] = thread[i]

LEMMA NamedIs ==
  ASSUME NEW Char, NEW org \in Named(Char)
  PROVE  /\ org \in Seq(Char) /\ Len(org) \in Nat /\ 0 < Len(org) /\ Len(org) < 1000
         /\ org # Raw
         /\ Decimal(Len(org)) \in Seq(Digits) /\ Width(org) \in 1 .. 3
         /\ \A i \in 1 .. Width(org) : Decimal(Len(org))[i] \in Digits
<1>1. org \in Seq(Char)
  BY DEF Named
<1>2. Len(org) \in Nat /\ 0 < Len(org) /\ Len(org) < 1000
  BY <1>1 DEF Named
<1>3. ASSUME org = <<>>  PROVE FALSE
  <2>1. Len(org) = 0
    BY <1>3
  <2> QED  BY <1>2, <2>1
<1> QED  BY <1>1, <1>2, <1>3, DecimalTyped DEF Raw, Width

LEMMA ScopedKeyIs ==
  ASSUME NEW Char, Colon \in Char, Digits \subseteq Char,
         NEW org \in Named(Char), NEW thread \in Seq(Char)
  PROVE  Scoped(EngineKey(org, thread), org, thread)
<1> DEFINE n == Len(org)
           d == Decimal(n)
           w == Width(org)
           a == d \o <<Colon>>
           b == a \o org
           c == b \o <<Colon>>
           key == c \o thread
<1>1. /\ org \in Seq(Char) /\ n \in Nat /\ org # Raw
      /\ w \in 1 .. 3 /\ w \in Nat /\ Len(d) = w /\ d \in Seq(Char)
  <2>1. /\ org \in Seq(Char) /\ n \in Nat /\ org # Raw
        /\ w \in 1 .. 3 /\ Len(d) = w /\ d \in Seq(Digits)
    BY NamedIs DEF Width
  <2> HIDE DEF d, w
  <2>2. d \in Seq(Char)
    BY <2>1
  <2> QED  BY <2>1, <2>2
<1>2. EngineKey(org, thread) = key
  BY <1>1 DEF EngineKey
<1>3. <<Colon>> \in Seq(Char) /\ Len(<<Colon>>) = 1 /\ <<Colon>>[1] = Colon
  OBVIOUS
<1> HIDE DEF d, w
<1>4. /\ a \in Seq(Char) /\ Len(a) = w + 1
      /\ \A i \in 1 .. w : a[i] = d[i]
      /\ a[w + 1] = Colon
  <2>1. /\ a \in Seq(Char) /\ Len(a) = Len(d) + 1
        /\ \A i \in 1 .. Len(d) : a[i] = d[i]
        /\ \A i \in 1 .. 1 : a[Len(d) + i] = <<Colon>>[i]
    BY <1>1, <1>3, ConcatIs
  <2>2. 1 \in 1 .. 1
    OBVIOUS
  <2>3. a[w + 1] = Colon
    BY <1>1, <1>3, <2>1, <2>2
  <2> QED  BY <2>1, <2>3, <1>1
<1> HIDE DEF a
<1>5. /\ b \in Seq(Char) /\ Len(b) = w + 1 + n
      /\ \A i \in 1 .. w + 1 : b[i] = a[i]
      /\ \A i \in 1 .. n : b[w + 1 + i] = org[i]
  <2>1. /\ b \in Seq(Char) /\ Len(b) = Len(a) + Len(org)
        /\ \A i \in 1 .. Len(a) : b[i] = a[i]
        /\ \A i \in 1 .. Len(org) : b[Len(a) + i] = org[i]
    <3>1. a \in Seq(Char) /\ org \in Seq(Char)
      BY <1>1, <1>4
    <3> QED  BY <3>1, ConcatIs
  <2> QED  BY <2>1, <1>1, <1>4
<1> HIDE DEF b
<1>6. /\ c \in Seq(Char) /\ Len(c) = w + 2 + n
      /\ \A i \in 1 .. w + 1 + n : c[i] = b[i]
  <2>1. /\ c \in Seq(Char) /\ Len(c) = Len(b) + 1
        /\ \A i \in 1 .. Len(b) : c[i] = b[i]
    BY <1>3, <1>5, ConcatIs
  <2> QED  BY <2>1, <1>1, <1>5
<1> HIDE DEF c
<1>7. /\ Len(key) = w + 2 + n + Len(thread)
      /\ \A i \in 1 .. w + 2 + n : key[i] = c[i]
      /\ \A i \in 1 .. Len(thread) : key[w + 2 + n + i] = thread[i]
  <2>1. /\ key \in Seq(Char) /\ Len(key) = Len(c) + Len(thread)
        /\ \A i \in 1 .. Len(c) : key[i] = c[i]
        /\ \A i \in 1 .. Len(thread) : key[Len(c) + i] = thread[i]
    <3>1. c \in Seq(Char) /\ thread \in Seq(Char)
      BY <1>6
    <3> QED  BY <3>1, ConcatIs
  <2> QED  BY <2>1, <1>6
<1> HIDE DEF key, n
<1>8. \A i \in 1 .. w + 1 : key[i] = a[i]
  <2>1. \A i \in 1 .. w + 1 : i \in 1 .. w + 1 + n /\ i \in 1 .. w + 2 + n
    BY <1>1
  <2> QED  BY <2>1, <1>5, <1>6, <1>7
<1>9. \A i \in 1 .. n : key[w + 1 + i] = org[i]
  <2>1. \A i \in 1 .. n : w + 1 + i \in 1 .. w + 1 + n /\ w + 1 + i \in 1 .. w + 2 + n
    BY <1>1
  <2> QED  BY <2>1, <1>5, <1>6, <1>7
<1>10. key[w + 1] = Colon /\ \A i \in 1 .. w : key[i] = d[i]
  <2>1. w + 1 \in 1 .. w + 1 /\ \A i \in 1 .. w : i \in 1 .. w + 1
    BY <1>1
  <2> QED  BY <2>1, <1>4, <1>8
<1> QED  BY <1>2, <1>7, <1>9, <1>10 DEF n, d, w, Scoped

(* The width of the length is where the first colon stands, so equal keys  *)
(* have lengths of equal width.                                            *)
LEMMA NoNarrower ==
  ASSUME NEW Char, NEW o \in Named(Char), NEW p \in Named(Char), NEW k,
         NEW t, NEW u, Scoped(k, o, t), Scoped(k, p, u)
  PROVE  ~(Width(o) < Width(p))
<1>1. Width(o) \in 1 .. 3 /\ Width(p) \in 1 .. 3
  BY NamedIs
<1>2. k[Width(o) + 1] = Colon
  BY DEF Scoped
<1>3. ASSUME NEW i \in 1 .. Width(p)  PROVE k[i] \in Digits
  <2>1. k[i] = Decimal(Len(p))[i]
    BY DEF Scoped
  <2> QED  BY <2>1, NamedIs
<1>4. Colon \notin Digits
  BY DigitIs DEF Digits
<1>5. Width(o) < Width(p) => Width(o) + 1 \in 1 .. Width(p)
  BY <1>1
<1> QED  BY <1>2, <1>3, <1>4, <1>5

(* KeysApart for thread ids of any length and organisations of up to 999   *)
(* characters, over any characters: the length prefix makes                *)
(* engine_thread_id injective, and the ids a single-tenant host accepts    *)
(* never look like a scoped key.                                           *)
THEOREM EngineKeyInjective ==
  ASSUME NEW Char, Colon \in Char, Digits \subseteq Char,
         NEW o \in Named(Char) \cup {Raw}, NEW p \in Named(Char) \cup {Raw},
         NEW t \in Seq(Char), NEW u \in Seq(Char),
         Accepted(o, t), Accepted(p, u), EngineKey(o, t) = EngineKey(p, u)
  PROVE  o = p /\ t = u
<1>1. ASSUME NEW q \in Named(Char), NEW v \in Seq(Char)
      PROVE  LooksScoped(EngineKey(q, v))
  <2> DEFINE key == EngineKey(q, v)
             w == Width(q)
  <2>1. /\ w \in 1 .. 3 /\ Len(q) \in Nat /\ Len(v) \in Nat
        /\ \A i \in 1 .. w : Decimal(Len(q))[i] \in Digits
    BY NamedIs
  <2>2. /\ Len(key) = w + 2 + Len(q) + Len(v)
        /\ key[w + 1] = Colon
        /\ \A i \in 1 .. w : key[i] = Decimal(Len(q))[i]
    BY ScopedKeyIs DEF Scoped
  <2> HIDE DEF key, w
  <2>3. w + 1 \in 2 .. Len(key) /\ (w + 1) - 1 = w
    BY <2>1, <2>2
  <2>4. \A j \in 1 .. (w + 1) - 1 : key[j] \in Digits
    BY <2>1, <2>2, <2>3
  <2>5. LooksScoped(key)
    BY <2>2, <2>3, <2>4 DEF LooksScoped
  <2> QED  BY <2>5 DEF key
<1>2. Raw \notin Named(Char)
  BY NamedIs
<1>3. CASE o = Raw /\ p = Raw
  BY <1>3 DEF EngineKey
<1>4. CASE o = Raw /\ p # Raw
  BY <1>1, <1>4 DEF EngineKey, Accepted
<1>5. CASE o # Raw /\ p = Raw
  BY <1>1, <1>5 DEF EngineKey, Accepted
<1>6. CASE o # Raw /\ p # Raw
  <2> DEFINE k == EngineKey(o, t)
             n == Len(o)
             w == Width(o)
  <2>1. o \in Named(Char) /\ p \in Named(Char)
    BY <1>6
  <2>2. Scoped(k, o, t) /\ Scoped(k, p, u)
    BY <2>1, ScopedKeyIs
  <2>3. /\ o \in Seq(Char) /\ n \in Nat /\ n < 1000 /\ w \in 1 .. 3
        /\ p \in Seq(Char) /\ Len(p) \in Nat /\ Len(p) < 1000 /\ Width(p) \in 1 .. 3
        /\ Decimal(n) \in Seq(Digits) /\ Decimal(Len(p)) \in Seq(Digits)
    BY <2>1, NamedIs
  <2>4. Width(p) = w
    <3>1. ~(Width(o) < Width(p)) /\ ~(Width(p) < Width(o))
      BY <2>1, <2>2, NoNarrower
    <3> QED  BY <2>3, <3>1
  <2> HIDE DEF k
  <2>5. Len(p) = n
    <3>1. \A i \in 1 .. w : Decimal(n)[i] = Decimal(Len(p))[i]
      BY <2>2, <2>4 DEF Scoped
    <3>2. Len(Decimal(n)) = w /\ Len(Decimal(Len(p))) = w
      BY <2>4 DEF Width
    <3>3. Decimal(n) = Decimal(Len(p))
      <4> DEFINE x == Decimal(n)
                 y == Decimal(Len(p))
      <4>1. /\ x \in Seq(Digits) /\ y \in Seq(Digits) /\ Len(x) = Len(y)
            /\ \A i \in 1 .. Len(x) : x[i] = y[i]
        BY <2>3, <3>1, <3>2
      <4> HIDE DEF x, y
      <4>2. x = y
        BY <4>1
      <4> QED  BY <4>2 DEF x, y
    <3> QED  BY <2>3, <3>3, DecimalApart
  <2>6. /\ Len(k) = w + 2 + n + Len(t) /\ Len(k) = w + 2 + n + Len(u)
        /\ \A i \in 1 .. n : k[w + 1 + i] = o[i] /\ k[w + 1 + i] = p[i]
        /\ \A i \in 1 .. Len(t) : k[w + 2 + n + i] = t[i]
        /\ \A i \in 1 .. Len(u) : k[w + 2 + n + i] = u[i]
    BY <2>2, <2>4, <2>5 DEF Scoped
  <2> HIDE DEF n, w
  <2>7. o = p
    <3>1. Len(o) = Len(p) /\ \A i \in 1 .. Len(o) : o[i] = p[i]
      BY <2>5, <2>6 DEF n
    <3> QED  BY <2>3, <3>1
  <2>8. Len(t) = Len(u)
    BY <2>3, <2>6
  <2>9. t = u
    <3>1. \A i \in 1 .. Len(t) : t[i] = u[i]
      BY <2>6, <2>8
    <3> QED  BY <2>8, <3>1
  <2> QED  BY <2>7, <2>9
<1> QED  BY <1>3, <1>4, <1>5, <1>6

LEMMA FiniteFunctionSet ==
  ASSUME NEW D, IsFiniteSet(D), NEW S, IsFiniteSet(S)
  PROVE  IsFiniteSet([D -> S])
<1> DEFINE Graphs == SUBSET (D \X S)
           graph == [f \in [D -> S] |-> {<<x, f[x]>> : x \in D}]
<1>1. IsFiniteSet(Graphs)
  BY FS_Product, FS_SUBSET
<1>2. graph \in [[D -> S] -> Graphs]
  OBVIOUS
<1>3. ASSUME NEW f \in [D -> S], NEW g \in [D -> S], graph[f] = graph[g]
      PROVE  f = g
  <2>1. {<<x, f[x]>> : x \in D} = {<<x, g[x]>> : x \in D}
    BY <1>3
  <2>2. ASSUME NEW x \in D  PROVE f[x] = g[x]
    <3>1. <<x, f[x]>> \in {<<y, g[y]>> : y \in D}
      BY <2>1
    <3> QED  BY <3>1
  <2> QED  BY <2>2
<1> HIDE DEF graph, Graphs
<1>4. graph \in Injection([D -> S], Graphs)
  BY <1>2, <1>3 DEF Injection, IsInjective
<1> QED  BY <1>1, <1>4, FS_Injection

LEMMA FiniteWords ==
  ASSUME NEW S, IsFiniteSet(S), NEW m \in Nat
  PROVE  /\ IsFiniteSet(UNION {[1 .. n -> S] : n \in 1 .. m})
         /\ \A w \in UNION {[1 .. n -> S] : n \in 1 .. m} :
              w \in Seq(S) /\ Len(w) \in 1 .. m
<1> DEFINE Sets == {[1 .. n -> S] : n \in 1 .. m}
           word == [n \in 1 .. m |-> [1 .. n -> S]]
<1>1. IsFiniteSet(1 .. m) /\ \A n \in 1 .. m : IsFiniteSet(1 .. n)
  BY FS_Interval
<1>2. IsFiniteSet(Sets)
  <2>1. word \in Surjection(1 .. m, Sets)
    BY DEF Surjection
  <2> QED  BY <1>1, <2>1, FS_Surjection
<1>3. ASSUME NEW n \in 1 .. m  PROVE IsFiniteSet([1 .. n -> S])
  <2>1. IsFiniteSet(1 .. n)
    BY <1>1
  <2> QED  BY <2>1, FiniteFunctionSet
<1>4. \A T \in Sets : IsFiniteSet(T)
  BY <1>3
<1>5. ASSUME NEW w \in UNION Sets  PROVE w \in Seq(S) /\ Len(w) \in 1 .. m
  <2>1. PICK n \in 1 .. m : w \in [1 .. n -> S]
    OBVIOUS
  <2>2. n \in Nat
    OBVIOUS
  <2>3. w \in Seq(S) /\ Len(w) = n
    BY <2>1, <2>2
  <2> QED  BY <2>3
<1>6. IsFiniteSet(UNION Sets)
  <2> HIDE DEF Sets
  <2> QED  BY <1>2, <1>4, FS_UNION
<1> QED  BY <1>5, <1>6

LEMMA LongNamesAre ==
  /\ IsFiniteSet(LongNames)
  /\ \A w \in LongNames : w \in Seq(Chars) /\ 0 < Len(w) /\ Len(w) < 1000
<1> DEFINE word(n, c) == [i \in 1 .. n |-> c]
<1>1. LongNames = {word(10, "1"), word(10, Colon), word(11, "1"), word(11, Colon),
                   word(100, "1"), word(100, Colon)}
  BY DEF LongNames
<1>2. ASSUME NEW w \in LongNames
      PROVE  w \in Seq(Chars) /\ 0 < Len(w) /\ Len(w) < 1000
  <2>1. PICK n \in {10, 11, 100}, c \in {"1", Colon} : w = [i \in 1 .. n |-> c]
    BY DEF LongNames
  <2>2. n \in Nat /\ 0 < n /\ n < 1000 /\ c \in Chars
    BY DEF Chars
  <2>3. w \in Seq(Chars) /\ Len(w) = n
    BY <2>1, <2>2
  <2> QED  BY <2>2, <2>3
<1> HIDE DEF word
<1>3. IsFiniteSet(LongNames)
  <2>1. /\ IsFiniteSet({word(10, "1")}) /\ IsFiniteSet({word(10, Colon)})
        /\ IsFiniteSet({word(11, "1")}) /\ IsFiniteSet({word(11, Colon)})
        /\ IsFiniteSet({word(100, "1")}) /\ IsFiniteSet({word(100, Colon)})
    BY FS_Singleton
  <2>2. /\ IsFiniteSet({word(10, "1")} \cup {word(10, Colon)})
        /\ IsFiniteSet({word(11, "1")} \cup {word(11, Colon)})
        /\ IsFiniteSet({word(100, "1")} \cup {word(100, Colon)})
    BY <2>1, FS_Union
  <2>3. IsFiniteSet((({word(10, "1")} \cup {word(10, Colon)})
                     \cup ({word(11, "1")} \cup {word(11, Colon)}))
                    \cup ({word(100, "1")} \cup {word(100, Colon)}))
    BY <2>2, FS_Union
  <2>4. LongNames = (({word(10, "1")} \cup {word(10, Colon)})
                     \cup ({word(11, "1")} \cup {word(11, Colon)}))
                    \cup ({word(100, "1")} \cup {word(100, Colon)})
    BY <1>1
  <2> QED  BY <2>3, <2>4
<1> QED  BY <1>2, <1>3

LEMMA PairsApart == Cardinality({EngineKey(p[1], p[2]) : p \in Pairs}) = Cardinality(Pairs)
<1> DEFINE Char == Chars \cup Digits
           Keys == {EngineKey(p[1], p[2]) : p \in Pairs}
           key == [p \in Pairs |-> EngineKey(p[1], p[2])]
<1>1. IsFiniteSet(Chars)
  <2>1. IsFiniteSet({"1"}) /\ IsFiniteSet({"3"}) /\ IsFiniteSet({Colon}) /\ IsFiniteSet({"a"})
    BY FS_Singleton
  <2>2. IsFiniteSet({"1"} \cup {"3"}) /\ IsFiniteSet({Colon} \cup {"a"})
    BY <2>1, FS_Union
  <2>3. IsFiniteSet(({"1"} \cup {"3"}) \cup ({Colon} \cup {"a"}))
    BY <2>2, FS_Union
  <2>4. Chars = ({"1"} \cup {"3"}) \cup ({Colon} \cup {"a"})
    BY DEF Chars
  <2> QED  BY <2>3, <2>4
<1>2. /\ IsFiniteSet(Names) /\ IsFiniteSet(ThreadIds)
      /\ \A w \in Names : w \in Seq(Chars) /\ 0 < Len(w) /\ Len(w) < 1000
      /\ \A w \in ThreadIds : w \in Seq(Chars)
  <2> DEFINE Short == UNION {[1 .. n -> Chars] : n \in 1 .. 2}
  <2>1. /\ IsFiniteSet(Short) /\ IsFiniteSet(ThreadIds)
        /\ \A w \in Short : w \in Seq(Chars) /\ Len(w) \in 1 .. 2
        /\ \A w \in ThreadIds : w \in Seq(Chars)
    BY <1>1, FiniteWords DEF ThreadIds
  <2> HIDE DEF Short
  <2>2. ASSUME NEW w \in Short
        PROVE  w \in Seq(Chars) /\ 0 < Len(w) /\ Len(w) < 1000
    <3>1. w \in Seq(Chars) /\ Len(w) \in 1 .. 2
      BY <2>1, Zenon
    <3>2. \A k \in 1 .. 2 : 0 < k /\ k < 1000
      OBVIOUS
    <3> QED  BY <3>1, <3>2, Zenon
  <2>3. Names = LongNames \cup Short
    BY DEF Names, Short
  <2>4. IsFiniteSet(Names)
    BY <2>1, <2>3, LongNamesAre, FS_Union
  <2>5. ASSUME NEW w \in Names
        PROVE  w \in Seq(Chars) /\ 0 < Len(w) /\ Len(w) < 1000
    <3>1. CASE w \in LongNames
      BY <3>1, LongNamesAre
    <3>2. CASE w \in Short
      BY <3>2, <2>2
    <3> QED  BY <2>3, <3>1, <3>2
  <2> QED  BY <2>1, <2>4, <2>5
<1>3. IsFiniteSet(Pairs)
  <2>1. IsFiniteSet(Names \cup {Raw})
    BY <1>2, FS_AddElement
  <2>2. IsFiniteSet((Names \cup {Raw}) \X ThreadIds)
    BY <1>2, <2>1, FS_Product
  <2>3. Pairs \in SUBSET ((Names \cup {Raw}) \X ThreadIds)
    BY DEF Pairs
  <2> QED  BY <2>2, <2>3, FS_Subset
<1>4. Colon \in Char /\ Digits \subseteq Char
  BY DEF Chars
<1>5. \A p \in Pairs : /\ p = <<p[1], p[2]>>
                       /\ p[1] \in Named(Char) \cup {Raw} /\ p[2] \in Seq(Char)
                       /\ Accepted(p[1], p[2])
  <2>1. \A w : w \in Seq(Chars) => w \in Seq(Char)
    OBVIOUS
  <2> QED  BY <1>2, <2>1 DEF Pairs, Named
<1> HIDE DEF Char
<1>6. ASSUME NEW p \in Pairs, NEW q \in Pairs, key[p] = key[q]  PROVE p = q
  <2>1. EngineKey(p[1], p[2]) = EngineKey(q[1], q[2])
    BY <1>6
  <2>2. p[1] = q[1] /\ p[2] = q[2]
    <3> DEFINE o == p[1]
               r == q[1]
               t == p[2]
               u == q[2]
    <3>1. /\ o \in Named(Char) \cup {Raw} /\ r \in Named(Char) \cup {Raw}
          /\ t \in Seq(Char) /\ u \in Seq(Char)
          /\ Accepted(o, t) /\ Accepted(r, u) /\ EngineKey(o, t) = EngineKey(r, u)
      BY <1>5, <2>1
    <3> HIDE DEF o, r, t, u
    <3>2. o = r /\ t = u
      BY <1>4, <3>1, EngineKeyInjective
    <3> QED  BY <3>2 DEF o, r, t, u
  <2> QED  BY <1>5, <2>2
<1>7. key \in Injection(Pairs, Keys)
  BY <1>6 DEF Injection, IsInjective
<1>8. key \in Surjection(Pairs, Keys)
  BY DEF Surjection
<1> HIDE DEF key, Keys
<1>9. Cardinality(Keys) = Cardinality(Pairs)
  BY <1>3, <1>7, <1>8, FS_Surjection
<1> QED  BY <1>9 DEF Keys

(* KeysApart, the instance of it that the run counts. *)
THEOREM ThreadsApart == Spec => []KeysApart
<1>1. KeysApart
  BY PairsApart DEF KeysApart
<1> QED  BY <1>1, PTL
=============================================================================
