------------------------------- MODULE Access -------------------------------
(***************************************************************************)
(* Which organisation a request acts for (auth/__init__.py) and the key    *)
(* its threads have in the engine (engine_thread_id, threads.py).          *)
(* No state: operators the other modules and the proofs use.               *)
(***************************************************************************)
EXTENDS Integers, Sequences

CONSTANTS
  Orgs,
  NoOrg,        \* no organisation: single-tenant
  Forbidden     \* 403 forbidden_tenant

ASSUME OrgsAssumption == NoOrg \notin Orgs /\ Forbidden \notin Orgs \cup {NoOrg}

(* What a request says of its caller: its credential's organisation and    *)
(* its X-Org-Id header.                                                    *)
Callers == [org : Orgs \cup {NoOrg}, header : Orgs \cup {NoOrg}]

(* tenants: a tenant config directory is set.  dev: no auth backend, and   *)
(* not in production, where no credential names an organisation.           *)
Settings == [tenants : BOOLEAN, dev : BOOLEAN]

(* resolve_org_id.  Mutant: a header that differs is not refused. *)
ResolveOrgByHeader(s, c, forRead) ==
  CASE c.header # NoOrg /\ (forRead \/ s.tenants) -> c.header
    [] OTHER -> IF c.org # NoOrg THEN c.org ELSE c.header

ResolveOrg(s, c, forRead) ==
  CASE ~s.tenants /\ ~forRead -> IF c.org # NoOrg THEN c.org ELSE c.header
    [] c.org # NoOrg /\ (s.tenants \/ forRead) ->
         IF c.header \in {NoOrg, c.org} THEN c.org ELSE Forbidden
    [] c.org = NoOrg /\ (s.tenants \/ forRead) ->
         IF c.header = NoOrg \/ s.dev THEN c.header ELSE Forbidden

-----------------------------------------------------------------------------
(* Names are sequences of characters; the host's own are digits and ":".   *)
Colon == ":"
Digit == [n \in 0 .. 9 |-> <<"0", "1", "2", "3", "4", "5", "6", "7", "8", "9">>[n + 1]]
Digits == {Digit[n] : n \in 0 .. 9}

(* An id that looks like a scoped key: digits and a colon. *)
LooksScoped(thread) ==
  \E i \in 2 .. Len(thread) :
    thread[i] = Colon /\ \A j \in 1 .. i - 1 : thread[j] \in Digits

(* A length in decimal, up to three digits: _ORG_ID_RE allows ids of up to *)
(* 128 characters.                                                         *)
Decimal(n) ==
  CASE n < 10 -> <<Digit[n]>>
    [] 10 <= n /\ n < 100 -> <<Digit[n \div 10], Digit[n % 10]>>
    [] 100 <= n -> <<Digit[n \div 100], Digit[(n \div 10) % 10], Digit[n % 10]>>

(* engine_thread_id; Raw is the single tenant.  Mutant: without the        *)
(* length.                                                                 *)
Raw == <<>>
PlainKey(org, thread) ==
  IF org = Raw THEN thread ELSE org \o <<Colon>> \o thread
EngineKey(org, thread) ==
  IF org = Raw THEN thread ELSE Decimal(Len(org)) \o <<Colon>> \o org \o <<Colon>> \o thread

Accepted(org, thread) == org # Raw \/ ~LooksScoped(thread)
=============================================================================
