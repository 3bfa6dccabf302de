-------------------------- MODULE TenantFilesProofs --------------------------
(***************************************************************************)
(* Proofs about TenantFiles, for any number of secrets and edits.          *)
(*                                                                         *)
(* ConfigCurrent compares two readings that were made one after the other. *)
(* The invariant follows each file through them: a file that still has the *)
(* time its fingerprint found has not been written since, so the reading   *)
(* of its content has found it too, or will (Reading), and the entry has   *)
(* it (Entry).  That needs the times of all readings to be in the past, so *)
(* that no write gives a file the time of an older one (Past).  What the   *)
(* config has beyond the files there are was removed since (Lingering).    *)
(***************************************************************************)
EXTENDS TenantFiles, TLAPS

(* A reading has file f as it is now. *)
Matches(reading, f) == f \in DOMAIN reading /\ reading[f] = files[f].at

(* The files there are, the times of their writes and of the readings. *)
Past ==
  /\ edits \in Nat
  /\ Present \subseteq Files
  /\ \A f \in Present : files[f].at \in 1 .. edits
  /\ \A f \in DOMAIN got : got[f] \in 0 .. edits
  /\ \A f \in DOMAIN stamp : stamp[f] \in 0 .. edits
  /\ \A f \in DOMAIN entry.stamp : entry.stamp[f] \in 0 .. edits

(* The second reading, as far as it has come. *)
Reading ==
  /\ steady \subseteq Present
  /\ pc = "dir" => /\ Yaml \in DOMAIN got
                   /\ Yaml \in Present /\ Matches(stamp, Yaml) => Matches(got, Yaml)
  /\ pc = "reads" => /\ steady \subseteq todo \cup DOMAIN got
                     /\ \A f \in Present : Matches(stamp, f) => f \in todo \/ Matches(got, f)

(* The entry has what its fingerprint had, and for a tenant that has the   *)
(* tenant.yaml of its fingerprint it is no process config.                 *)
Entry ==
  Yaml \in Present /\ Matches(entry.stamp, Yaml) =>
    \A f \in Present : Matches(entry.stamp, f) => Matches(entry.cfg, f)

(* What has been read and is gone was removed since the load began; and    *)
(* every tenant config has a tenant.yaml. *)
Outlived(cfg) == DOMAIN cfg \subseteq Present \cup removed

Lingering ==
  /\ pc \in {"dir", "reads"} => Yaml \in DOMAIN got /\ Outlived(got)
  /\ Outlived(entry.cfg)
  /\ entry.cfg = Nothing \/ Yaml \in DOMAIN entry.cfg

IInv == Past /\ Reading /\ Entry /\ Lingering

USE FilesAssumption DEF Present, Files, vars

LEMMA Steps ==
  ASSUME [Next]_vars
  PROVE  \/ \E f \in Files : Write(f) \/ Remove(f)
         \/ \E f \in Secrets : Stat(f) \/ Read(f)
         \/ Lookup \/ StatYaml \/ List \/ Hit \/ Miss
         \/ ProcessConfig \/ ReadYaml \/ TenantConfig \/ UNCHANGED vars
BY DEF Next

-----------------------------------------------------------------------------
(* What the edits do to the files, and a reading to what it has found. *)

LEMMA Written ==
  ASSUME NEW f \in Files, Write(f)
  PROVE  /\ DOMAIN files' = Present \cup {f} /\ files'[f].at = edits + 1
         /\ \A g \in Present \ {f} : files'[g] = files[g]
         /\ edits' = edits + 1
BY DEF Write, With

LEMMA Removed ==
  ASSUME NEW f \in Files, Remove(f)
  PROVE  /\ DOMAIN files' = Present \ {f} /\ edits' = edits + 1
         /\ \A g \in Present \ {f} : files'[g] = files[g]
BY DEF Remove, Restrict

LEMMA Empty == DOMAIN Nothing = {} /\ DOMAIN NoEntry.stamp = {"none"} /\ NoEntry.stamp["none"] = 0
BY DEF Nothing, NoEntry, With

-----------------------------------------------------------------------------
LEMMA InitInv == Init => IInv
<1> SUFFICES ASSUME Init PROVE IInv
  OBVIOUS
<1>1. Past
  BY Empty DEF Init, Past
<1>2. Reading /\ Entry /\ Lingering
  BY Empty DEF Init, Reading, Entry, Lingering, Outlived, NoEntry
<1> QED BY <1>1, <1>2 DEF IInv

(* An edit gives a file a time that no reading has, or takes it away. *)
LEMMA EditInv ==
  ASSUME IInv, NEW f \in Files, Write(f) \/ Remove(f)
  PROVE  IInv'
<1>1. UNCHANGED <<pc, todo, got, stamp, entry>> /\ steady' = steady \ {f} /\ edits' = edits + 1
  BY DEF Write, Remove
<1>2. /\ \A g \in DOMAIN files' : g # f => g \in Present /\ files'[g] = files[g]
      /\ f \in DOMAIN files' => files'[f].at = edits + 1
      /\ Present \ {f} \subseteq DOMAIN files' /\ DOMAIN files' \subseteq Files
  BY Written, Removed DEF IInv, Past
<1>3. Past'
  <2>1. \A n \in 0 .. edits : n \in 0 .. edits'
    BY <1>1 DEF IInv, Past
  <2>2. \A g \in DOMAIN files' : files'[g].at \in 1 .. edits'
    BY <1>1, <1>2 DEF IInv, Past
  <2> QED BY <1>1, <1>2, <2>1, <2>2 DEF IInv, Past
<1>4. \A r \in {stamp, entry.stamp} : \A g \in DOMAIN files' :
        g \in DOMAIN r /\ r[g] = files'[g].at => g # f /\ Matches(r, g)
  <2>1. \A n \in 0 .. edits : n # edits + 1
    BY DEF IInv, Past
  <2> QED BY <1>2, <2>1 DEF IInv, Past, Matches
<1>5. Reading'
  BY <1>1, <1>2, <1>4 DEF IInv, Reading, Matches
<1>6. Entry'
  BY <1>1, <1>2, <1>4 DEF IInv, Entry, Matches
<1>7. Lingering'
  <2>1. removed \subseteq removed' /\ (f \in Present => f \in DOMAIN files' \/ f \in removed')
    BY Written DEF Write, Remove
  <2> QED BY <1>1, <1>2, <2>1 DEF IInv, Lingering, Outlived
<1> QED BY <1>3, <1>5, <1>6, <1>7 DEF IInv

(* The lookup reads only. *)
LEMMA LookupInv ==
  ASSUME IInv, [Next]_vars, UNCHANGED <<files, edits>>
  PROVE  IInv'
<1> USE DEF IInv, Past, Reading, Entry, Matches, Lingering, Outlived
<1>1. CASE Lookup
  BY <1>1, Empty DEF Lookup
<1>2. CASE StatYaml
  <2>1. CASE Yaml \in Present
    <3>1. DOMAIN got' = {Yaml} /\ got'[Yaml] = files[Yaml].at
      BY <1>2, <2>1, Empty DEF StatYaml, With
    <3> QED BY <1>2, <2>1, <3>1 DEF StatYaml
  <2>2. CASE Yaml \notin Present
    BY <1>2, <2>2 DEF StatYaml
  <2> QED BY <2>1, <2>2
<1>3. CASE List
  BY <1>3 DEF List
<1>4. ASSUME NEW f \in Secrets, Stat(f) PROVE IInv'
  <2>1. CASE f \in Present
    <3>1. /\ DOMAIN got' = DOMAIN got \cup {f} /\ got'[f] = files[f].at
          /\ \A g \in DOMAIN got \ {f} : got'[g] = got[g]
      BY <1>4, <2>1 DEF Stat, With
    <3> QED BY <1>4, <2>1, <3>1 DEF Stat
  <2>2. CASE f \notin Present
    BY <1>4, <2>2, Empty DEF Stat, Fails
  <2> QED BY <2>1, <2>2
<1>5. CASE Hit
  BY <1>5 DEF Hit
<1>6. CASE Miss
  BY <1>6, Empty DEF Miss, NoEntry
<1>7. CASE ProcessConfig
  BY <1>7, Empty DEF ProcessConfig, Missing, Built, Stamp
<1>8. CASE ReadYaml
  <2>1. CASE Acceptable(Yaml)
    <3>1. DOMAIN got' = {Yaml} /\ got'[Yaml] = files[Yaml].at
      BY <1>8, <2>1, Empty DEF ReadYaml, With
    <3> QED BY <1>8, <2>1, <3>1 DEF ReadYaml, Acceptable
  <2>2. CASE ~Acceptable(Yaml)
    BY <1>8, <2>2, Empty DEF ReadYaml, Fails
  <2> QED BY <2>1, <2>2
<1>9. ASSUME NEW f \in Secrets, Read(f) PROVE IInv'
  <2>1. CASE Acceptable(f)
    <3>1. /\ DOMAIN got' = DOMAIN got \cup {f} /\ got'[f] = files[f].at
          /\ \A g \in DOMAIN got \ {f} : got'[g] = got[g]
      BY <1>9, <2>1 DEF Read, With
    <3> QED BY <1>9, <2>1, <3>1 DEF Read, Acceptable
  <2>2. CASE ~Acceptable(f)
    BY <1>9, <2>2, Empty DEF Read, Fails
  <2> QED BY <2>1, <2>2
<1>10. CASE TenantConfig
  BY <1>10 DEF TenantConfig, Built, Stamp
<1>11. CASE UNCHANGED vars
  BY <1>11
<1>12. ASSUME NEW f \in Files, Write(f) \/ Remove(f) PROVE FALSE
  BY <1>12 DEF Write, Remove
<1> QED BY <1>1, <1>2, <1>3, <1>4, <1>5, <1>6, <1>7, <1>8, <1>9, <1>10, <1>11, <1>12, Steps

LEMMA NextInv == IInv /\ [Next]_vars => IInv'
<1> SUFFICES ASSUME IInv, [Next]_vars PROVE IInv'
  OBVIOUS
<1>1. CASE \E f \in Files : Write(f) \/ Remove(f)
  BY <1>1, EditInv
<1>2. CASE ~\E f \in Files : Write(f) \/ Remove(f)
  <2>1. UNCHANGED <<files, edits>>
    BY <1>2, Steps DEF Lookup, StatYaml, List, Stat, Hit, Miss, ProcessConfig, ReadYaml, Read, TenantConfig
  <2> QED BY <2>1, LookupInv
<1> QED BY <1>1, <1>2

(* IInv holds throughout. *)
THEOREM Invariance == Spec => []IInv
BY InitInv, NextInv, PTL DEF Spec

-----------------------------------------------------------------------------
LEMMA Current == IInv => ConfigCurrent
<1> SUFFICES ASSUME IInv, entry.stamp = Fingerprint
             PROVE  ConfigCurrent
  BY DEF ConfigCurrent
<1>1. CASE Yaml \in Present
  <2>1. ASSUME NEW f \in Present
        PROVE  f \in DOMAIN entry.cfg /\ entry.cfg[f] = files[f].at
    <3>1. Matches(entry.stamp, Yaml) /\ Matches(entry.stamp, f)
      BY <1>1 DEF Matches, Fingerprint, Times
    <3> QED BY <1>1, <3>1 DEF IInv, Entry, Matches
  <2> QED BY <1>1, <2>1 DEF ConfigCurrent, IInv, Lingering, Outlived
<1>2. CASE Yaml \notin Present
  BY <1>2 DEF ConfigCurrent, IInv, Lingering, Outlived
<1> QED BY <1>1, <1>2

(* A cached entry that the next lookup would keep has the contents of all  *)
(* files, and nothing else but what was removed since (ConfigCurrent):     *)
(* _current and _build of the registry over the two providers, whatever is *)
(* edited between their reads.                                             *)
THEOREM ConfigStaysCurrent == Spec => []ConfigCurrent
BY Invariance, Current, PTL

(* A tenant with a tenant.yaml is built with it and with each of its own   *)
(* secrets, or refused (KeepsItsOwn): load and secrets of the providers.   *)
THEOREM KeepsOwnFiles == Spec => KeepsItsOwn
<1> DEFINE Kept == entry' # entry /\ entry'.stamp # NoEntry.stamp /\ Yaml \in steady
                     => steady \subseteq DOMAIN entry'.cfg
<1>1. IInv /\ [Next]_vars => [Kept]_vars
  <2> SUFFICES ASSUME IInv, [Next]_vars, entry' # entry, entry'.stamp # NoEntry.stamp, Yaml \in steady
               PROVE  steady \subseteq DOMAIN entry'.cfg
    OBVIOUS
  <2>1. ProcessConfig \/ TenantConfig
    BY Steps DEF Write, Remove, Lookup, StatYaml, List, Stat, Hit, Miss, ReadYaml, Read
  <2>2. ~ProcessConfig
    BY DEF ProcessConfig, Missing, IInv, Reading
  <2>3. steady \subseteq DOMAIN got /\ entry'.cfg = got
    BY <2>1, <2>2 DEF TenantConfig, Built, IInv, Reading
  <2> QED BY <2>3
<1> QED BY <1>1, Invariance, PTL DEF Spec, KeepsItsOwn
=============================================================================
