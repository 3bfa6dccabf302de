---------------------------- MODULE UsageReports ----------------------------
(***************************************************************************)
(* GET /v1/usage (routes/usage.py): a client pages through the usage of    *)
(* its organisation while turns finish, records are purged and the host    *)
(* restarts; and what must hold of the store and of the pages.             *)
(*                                                                         *)
(* Times are half seconds, so that the cursor's timestamps come with and   *)
(* without microseconds.                                                   *)
(***************************************************************************)
EXTENDS UsageLog, Access, FiniteSetsExt, SequencesExt

CONSTANTS
  Limit,              \* records of a page
  Window, MaxWindow,  \* DEFAULT_WINDOW, MAX_WINDOW
  Pins                \* times a client may give for since and until

ASSUME TurnsAssumption == Turns \subseteq Nat    \* the order of their ids
ASSUME BilledAssumption == Billed \subseteq Orgs \cup {NoOrg}
ASSUME WindowAssumption ==
  Limit \in Nat \ {0} /\ Window \in Nat /\ MaxWindow \in Nat /\ Pins \subseteq Nat

VARIABLE view   \* what one client has asked for and been shown

vars == <<logVars, view>>

NoTime == -1
NoKey == <<>>

NoView == [at |-> "none", org |-> NoOrg, bills |-> NoOrg, since |-> NoTime,
           until |-> NoTime, after |-> NoKey, shown |-> <<>>, totals |-> 0,
           steady |-> {}, seen |-> {}]

-----------------------------------------------------------------------------
(* isoformat() leaves out the microseconds when they are zero, and then    *)
(* goes on with "+", which sorts before ".".  Mutant: with "Z", after it.  *)
Plus == 43
Dot == 46
Zulu == 90
IsoZulu(t) == IF t % 2 = 0 THEN <<t \div 2, Zulu>> ELSE <<t \div 2, Dot, 5, Zulu>>
Iso(t) == IF t % 2 = 0 THEN <<t \div 2, Plus>> ELSE <<t \div 2, Dot, 5, Plus>>

(* _key and the comparison of keys. *)
Key(r) == <<Iso(r.at), r.turn>>

StringLess(a, b) ==
  \E i \in 1 .. Len(b) :
    /\ \A j \in 1 .. i - 1 : j <= Len(a) /\ a[j] = b[j]
    /\ i > Len(a) \/ a[i] < b[i]

KeyLess(k, l) == StringLess(k[1], l[1]) \/ (k[1] = l[1] /\ k[2] < l[2])

Later(r, s) == r.at > s.at \/ (r.at = s.at /\ r.turn > s.turn)

(* query: an organisation's records of a window, newest first. *)
Query(org, since, until) ==
  {r \in records : r.org = org /\ r.at >= since /\ r.at <= until}

Remaining(found, after) == {r \in found : after = NoKey \/ KeyLess(Key(r), after)}
NewestFirst(found) ==
  CHOOSE s \in [1 .. Cardinality(found) -> found] :
    \A i, j \in DOMAIN s : i < j => Later(s[i], s[j])
Page(left) ==
  SubSeq(NewestFirst(left), 1,
         IF Cardinality(left) > Limit THEN Limit ELSE Cardinality(left))

(* total and by_model: the sums of a set of records.  Tokens and model of  *)
(* a record follow from its turn.                                          *)
Tokens(r) == 2 ^ r.turn
Model(r) == r.turn % 2
Total(found) == MapThenSumSet(Tokens, found)
ByModel(found) ==
  [m \in {Model(r) : r \in found} |-> Total({r \in found : Model(r) = m})]

-----------------------------------------------------------------------------
(* authenticate and resolve_org_id for a read. *)
Ask(s, c) ==
  /\ view = NoView
  /\ ResolveOrg(s, c, TRUE) # Forbidden
  /\ \E since, until \in Pins \cup {NoTime} :
       view' = [NoView EXCEPT !.at = "first", !.since = since, !.until = until,
                              !.org = ResolveOrg(s, c, TRUE),
                              !.bills = ResolveOrg(s, c, FALSE)]
  /\ UNCHANGED logVars

(* _window: what is not given is taken from the clock, at every page. *)
Until == IF view.until = NoTime THEN clock ELSE view.until
Since == IF view.since = NoTime THEN Until - Window ELSE view.since

InvalidWindow == Since > Until \/ Until - Since > MaxWindow

Refused ==
  /\ view.at \in {"first", "next"}
  /\ InvalidWindow
  /\ view' = [view EXCEPT !.at = "refused"]
  /\ UNCHANGED logVars

(* One page. *)
ShowPage ==
  /\ view.at \in {"first", "next"}
  /\ ~InvalidWindow
  /\ LET found == Query(view.org, Since, Until)
         left == Remaining(found, view.after)
         page == Page(left)
         more == Cardinality(left) > Limit IN
     view' = [view EXCEPT
       !.at = IF more THEN "next" ELSE "done",
       !.after = IF more THEN Key(Last(page)) ELSE NoKey,
       !.shown = @ \o page,
       !.totals = Total(found),
       !.steady = IF view.at = "first" THEN found ELSE @ \cap found,
       !.seen = @ \cup found]
  /\ UNCHANGED logVars

Next ==
  \/ LogNext /\ UNCHANGED view
  \/ \E s \in Settings, c \in Callers : Ask(s, c)
  \/ Refused \/ ShowPage

Start == Init /\ view = NoView
Spec == Start /\ [][Next]_vars

-----------------------------------------------------------------------------
(* PagesExact: the pages show records newest first and none twice, and     *)
(* when there is no next page every record that was there all the time was *)
(* shown; if nothing changed meanwhile they add up to the totals.  Turns   *)
(* that finish in the same moment, purges, restarts and a window that      *)
(* moves with the clock lie between the pages.                             *)
Shown == ToSet(view.shown)

PagesInOrder ==
  \A i, j \in 1 .. Len(view.shown) : i < j => Later(view.shown[i], view.shown[j])
PagesComplete ==
  view.at = "done" =>
    /\ view.steady \subseteq Shown
    /\ view.seen = view.steady => Total(Shown) = view.totals
PagesExact == PagesInOrder /\ PagesComplete

(* ReadsOwnBills: a caller is shown the records of the organisation its    *)
(* own turns are billed to, whatever header it sends (resolve_org_id with  *)
(* for_read, "reading another org's records must never be possible by just *)
(* sending a header").                                                     *)
ReadsOwnBills == \A r \in Shown : r.org = view.bills

(* KeysApart: two threads of different organisations, or two threads of    *)
(* one, never share the engine's state: "the length prefix makes the       *)
(* mapping injective".  Checked once, over short names of the characters   *)
(* that could confuse it, and some whose length has two or three digits.   *)
Chars == {"1", "3", Colon, "a"}
LongNames == {[i \in 1 .. n |-> c] : n \in {10, 11, 100}, c \in {"1", Colon}}
Names == LongNames \cup UNION {[1 .. n -> Chars] : n \in 1 .. 2}
ThreadIds == UNION {[1 .. n -> Chars] : n \in 1 .. 5}
Pairs == {p \in (Names \cup {Raw}) \X ThreadIds : Accepted(p[1], p[2])}

KeysApart ==
  used = {} /\ view = NoView /\ clock = 0 =>
    Cardinality({EngineKey(p[1], p[2]) : p \in Pairs}) = Cardinality(Pairs)
=============================================================================
