----------------------------- MODULE TenantFiles -----------------------------
(***************************************************************************)
(* The files of one tenant (tenancy/config_source.py, tenancy/secrets.py): *)
(* its tenant.yaml and one file per secret.  A lookup of the registry      *)
(* (_current and _build of deps.py, under its lock) reads their times and  *)
(* then their contents, file by file in a thread, while an operator edits  *)
(* them.  RuntimeRegistry takes each of the two readings for one step.     *)
(*                                                                         *)
(* A file is the time of its last write, which stands for its content too, *)
(* and whether that is acceptable.  No two writes have the same time.      *)
(***************************************************************************)
EXTENDS Integers, Functions

CONSTANTS
  Yaml,         \* TENANT_FILE
  Secrets,      \* the secret files
  MaxEdits      \* bound

ASSUME FilesAssumption == Yaml \notin Secrets /\ MaxEdits \in Nat

VARIABLES
  files,     \* the files there are, with their contents
  edits,
  pc,        \* idle, stat, list, stats, read, dir, reads
  todo,      \* secret files listed and not yet looked at
  got,       \* what this reading has found
  stamp,     \* fingerprint of this lookup
  entry,     \* the cached entry: its fingerprint and config
  steady,    \* history: files untouched since the lookup began
  removed    \* history: files removed since the load of the entry began

vars == <<files, edits, pc, todo, got, stamp, entry, steady, removed>>

Files == {Yaml} \cup Secrets
Nothing == [f \in {} |-> 0]   \* no fingerprint; the process config
With(fs, f, what) == [g \in DOMAIN fs \cup {f} |-> IF g = f THEN what ELSE fs[g]]
NoEntry == [stamp |-> With(Nothing, "none", 0), cfg |-> Nothing]

Init ==
  /\ files = Nothing /\ edits = 0
  /\ pc = "idle" /\ todo = {} /\ got = Nothing /\ stamp = Nothing
  /\ entry = NoEntry /\ steady = {} /\ removed = {}

Present == DOMAIN files
Times(fs) == [f \in DOMAIN fs |-> fs[f].at]

(* What fingerprint() would return if nobody edited meanwhile.             *)
Fingerprint == IF Yaml \in Present THEN Times(files) ELSE Nothing

-----------------------------------------------------------------------------
(* The operator writes, replaces and removes files. *)
Write(f) ==
  /\ edits < MaxEdits
  /\ edits' = edits + 1
  /\ \E ok \in BOOLEAN : files' = With(files, f, [at |-> edits + 1, ok |-> ok])
  /\ steady' = steady \ {f}
  /\ UNCHANGED <<pc, todo, got, stamp, entry, removed>>

Remove(f) ==
  /\ edits < MaxEdits /\ f \in Present
  /\ edits' = edits + 1
  /\ files' = Restrict(files, Present \ {f})
  /\ steady' = steady \ {f} /\ removed' = removed \cup {f}
  /\ UNCHANGED <<pc, todo, got, stamp, entry>>

-----------------------------------------------------------------------------
Lookup ==
  /\ pc = "idle"
  /\ pc' = "stat"
  /\ got' = Nothing /\ steady' = Present
  /\ UNCHANGED <<files, edits, todo, stamp, entry, removed>>

(* fingerprint: without a tenant.yaml the secrets are not looked at. *)
StatYaml ==
  /\ pc = "stat"
  /\ IF Yaml \in Present
     THEN got' = With(Nothing, Yaml, files[Yaml].at) /\ pc' = "list"
     ELSE pc' = "stats" /\ UNCHANGED got
  /\ UNCHANGED <<files, edits, todo, stamp, entry, steady, removed>>

(* FileSecrets._files. *)
List ==
  /\ pc \in {"list", "dir"}
  /\ todo' = Present \cap Secrets
  /\ pc' = IF pc = "list" THEN "stats" ELSE "reads"
  /\ UNCHANGED <<files, edits, got, stamp, entry, steady, removed>>

(* A file that is gone since the listing ends the lookup in an error.      *)
Fails == pc' = "idle" /\ todo' = {} /\ got' = Nothing

Stat(f) ==
  /\ pc = "stats" /\ f \in todo
  /\ IF f \in Present
     THEN got' = With(got, f, files[f].at) /\ todo' = todo \ {f} /\ UNCHANGED pc
     ELSE Fails
  /\ UNCHANGED <<files, edits, stamp, entry, steady, removed>>

Hit ==
  /\ pc = "stats" /\ todo = {} /\ entry.stamp = got
  /\ pc' = "idle"
  /\ UNCHANGED <<files, edits, todo, got, stamp, entry, steady, removed>>

(* A miss, or the config has changed: the entry leaves the cache.  *)
Miss ==
  /\ pc = "stats" /\ todo = {} /\ entry.stamp # got
  /\ pc' = "read"
  /\ stamp' = got /\ got' = Nothing /\ entry' = NoEntry
  /\ removed' = {}
  /\ UNCHANGED <<files, edits, todo, steady>>

-----------------------------------------------------------------------------
(* load: what it refuses is unreadable, malformed, not allowed or empty.   *)
(* Mutant: an unreadable tenant.yaml counts as none.                       *)
MissingOrBad == ~(Yaml \in Present /\ files[Yaml].ok)
Missing == Yaml \notin Present

Acceptable(f) == f \in Present /\ files[f].ok

(* The stamp of the entry is the fingerprint read before the load.         *)
(* Mutant: it is read after it.                                            *)
StampNow == Fingerprint
Stamp == stamp
Built(cfg) == entry' = [stamp |-> Stamp, cfg |-> cfg] /\ pc' = "idle"

ProcessConfig ==
  /\ pc = "read" /\ Missing
  /\ Built(Nothing)
  /\ UNCHANGED <<files, edits, todo, got, stamp, steady, removed>>

ReadYaml ==
  /\ pc = "read" /\ ~Missing
  /\ IF Acceptable(Yaml)
     THEN got' = With(Nothing, Yaml, files[Yaml].at) /\ pc' = "dir" /\ UNCHANGED todo
     ELSE Fails
  /\ UNCHANGED <<files, edits, stamp, entry, steady, removed>>

Read(f) ==
  /\ pc = "reads" /\ f \in todo
  /\ IF Acceptable(f)
     THEN got' = With(got, f, files[f].at) /\ todo' = todo \ {f} /\ UNCHANGED pc
     ELSE Fails
  /\ UNCHANGED <<files, edits, stamp, entry, steady, removed>>

TenantConfig ==
  /\ pc = "reads" /\ todo = {}
  /\ Built(got)
  /\ UNCHANGED <<files, edits, todo, got, stamp, steady, removed>>

Next ==
  \/ \E f \in Files : Write(f) \/ Remove(f)
  \/ \E f \in Secrets : Stat(f) \/ Read(f)
  \/ Lookup \/ StatYaml \/ List \/ Hit \/ Miss
  \/ ProcessConfig \/ ReadYaml \/ TenantConfig

Spec == Init /\ [][Next]_vars

-----------------------------------------------------------------------------
(* ConfigCurrent: an entry that the next lookup would find current has     *)
(* what every file of the tenant says now, though neither its fingerprint  *)
(* nor its config need ever have been the state of all files at one time.  *)
(* Nothing else is in it, except what was removed since its load: a file   *)
(* that was written after the fingerprint and read by the load leaves no   *)
(* trace in the fingerprint when it is removed again.  A secret then stays *)
(* in the config.  With tenant.yaml the whole of the removed config stays, *)
(* its secrets as old as they may be: the fingerprint is None again, as it *)
(* was before, and the tenant does not return to the process config.       *)
ConfigCurrent ==
  entry.stamp = Fingerprint =>
    IF Yaml \in Present
    THEN /\ \A f \in Present : f \in DOMAIN entry.cfg /\ entry.cfg[f] = files[f].at
         /\ DOMAIN entry.cfg \subseteq Present \cup removed
    ELSE entry.cfg = Nothing \/ Yaml \in removed

(* KeepsItsOwn: a tenant whose tenant.yaml is there during the lookup gets *)
(* no runtime on the operator's config, nor one without a secret of its    *)
(* own that was there all the time; it is refused instead ("a tenant's     *)
(* configuration was refused", fail-closed).                               *)
KeepsItsOwn ==
  [][entry' # entry /\ entry'.stamp # NoEntry.stamp /\ Yaml \in steady =>
       steady \subseteq DOMAIN entry'.cfg]_vars
=============================================================================
