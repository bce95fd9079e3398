----------------------------- MODULE ScanCache ------------------------------
(***************************************************************************)
(* The scan cache (src/cache.rs): a run extracts the manifest              *)
(* (extract_manifest_with_cache) and later scans the configuration files   *)
(* (cached_config_scan), and keeps one record of each unit: the result,    *)
(* the key it was found under and the fingerprints of its inputs.          *)
(*                                                                         *)
(* Unit "manifest" is keyed by the candidate files, known before           *)
(* extraction; which files they include is known only after it, so the     *)
(* inputs are fingerprinted last.  Unit "scan" is keyed by the files of    *)
(* the manifest it is given, and its inputs are fingerprinted first.       *)
(*                                                                         *)
(* The user writes, replaces and removes files at any moment, but never    *)
(* brings one back to an earlier state: no version is written twice and no *)
(* file is removed twice.  What is read of a file is its version, 0 for a  *)
(* file that is missing.                                                   *)
(***************************************************************************)
EXTENDS FileStamps, FiniteSets

CONSTANTS
  Candidates,   \* manifest files looked for by name
  Included,     \* files they name with -c, whose absence is a warning
  Scanned,      \* configuration files the scan reads
  Runs,         \* concurrent runs
  MaxClock,     \* bound: time
  MaxChanges    \* bound: changes made by the user

ManifestFiles == Candidates \cup Included
Files == ManifestFiles \cup Scanned
Units == {"manifest", "scan"}

VARIABLES
  clock,        \* the clock of the filesystem, and the local one
  fs,           \* what each file is
  changes,      \* the number of changes the user made
  removed,      \* the files that were removed, even if written again
  records,      \* the records of each unit
  run,          \* what each run holds, see Gone
  raced         \* ghost: included files that changed after a run extracted
                \* them and before it fingerprinted them

world == <<clock, fs, changes, removed>>
vars == <<world, records, run, raced>>

None == [none |-> TRUE]

(* A process that is not running.  The fields of one that is: its step and *)
(* unit, the key, the inputs and the record it read, what it read of each  *)
(* file so far, the manifest it has, and the manifest its scan was made    *)
(* with; and, a ghost, the versions each file had since the run began.     *)
Gone ==
  [at |-> "idle", unit |-> "manifest", key |-> None, inputs |-> None, record |-> None,
   value |-> << >>, manifest |-> << >>, from |-> << >>, since |-> << >>]

----------------------------------------------------------------------------
Init ==
  /\ clock = 0
  /\ fs = [f \in Files |-> Written(1, 0)]
  /\ changes = 0
  /\ removed = {}
  /\ records = [u \in Units |-> {}]
  /\ run = [r \in Runs |-> Gone]
  /\ raced = {}

Begin(r) ==
  /\ run[r].at = "idle"
  /\ run' = [run EXCEPT ![r] =
       [Gone EXCEPT !.at = "key", !.since = [f \in Files |-> {fs[f].version}]]]
  /\ UNCHANGED <<world, records, raced>>

(* from_absolute hashes the bytes; absent stands for a file not found.     *)
Fingerprint(f) == IF Exists(fs[f]) THEN HashFingerprint(fs[f]) ELSE AbsentFingerprint

(* requirements_files: what an extraction read, not what it missed.        *)
FilesRead(value) == {f \in DOMAIN value : value[f] # 0}

(* Mutant: only files that were read are inputs.                           *)
ManifestInputsRead(value) == [f \in FilesRead(value) |-> Fingerprint(f)]

(* manifest_input_fingerprints: the files read, and requirements_missing.  *)
ManifestInputs(value) == [f \in DOMAIN value |-> Fingerprint(f)]

(* config_scan_inputs: the files there are, judged by the local clock.     *)
ScanInputs == [f \in {g \in Scanned : Exists(fs[g])} |-> FingerprintAt(fs[f], clock)]

(* manifest_cache_key, config_scan_cache_key.                              *)
Key(p) ==
  IF p.unit = "manifest"
  THEN [files |-> [f \in Candidates |-> Fingerprint(f)], read |-> {}]
  ELSE [files |-> ManifestInputs(p.manifest), read |-> FilesRead(p.manifest)]

(* A file that an extraction read and that is gone since.                  *)
Vanished(value) == \E f \in FilesRead(value) : ~ Exists(fs[f])

TakeKey(r) ==
  LET p == run[r]
  IN /\ p.at = "key" /\ ~ Vanished(p.manifest)
     /\ run' = [run EXCEPT ![r].key = Key(p),
                           ![r].at = IF p.unit = "scan" THEN "inputs" ELSE "read"]
     /\ UNCHANGED <<world, records, raced>>

TakeScanInputs(r) ==
  /\ run[r].at = "inputs" /\ run[r].unit = "scan"
  /\ run' = [run EXCEPT ![r].inputs = ScanInputs, ![r].at = "read"]
  /\ UNCHANGED <<world, records, raced>>

(* A corrupt record, or one with another key, is a miss.                   *)
Found(p) == {e \in records[p.unit] : e.key = p.key}

(* read_scan_payload.                                                      *)
ReadRecord(r) ==
  /\ run[r].at = "read"
  /\ \/ Found(run[r]) = {} /\ run' = [run EXCEPT ![r].at = "extract"]
     \/ \E e \in Found(run[r]) : run' = [run EXCEPT ![r].record = e, ![r].at = "verify"]
  /\ UNCHANGED <<world, records, raced>>

(* The manifest goes on to the scan; what the scan found stays to be       *)
(* judged until the process is gone.                                       *)
Finished(p, value, from) ==
  LET done == [p EXCEPT !.key = None, !.inputs = None, !.record = None, !.from = from]
  IN IF p.unit = "manifest"
     THEN [done EXCEPT !.at = "key", !.unit = "scan", !.manifest = value, !.value = << >>]
     ELSE [done EXCEPT !.at = "done", !.value = value]

CurrentInputs(p) == IF p.unit = "manifest" THEN ManifestInputs(p.record.value) ELSE p.inputs

(* The record is a hit if its inputs have not changed since.               *)
Verify(r) ==
  LET p == run[r]
  IN /\ p.at = "verify" /\ (p.unit = "manifest" => ~ Vanished(p.record.value))
     /\ run' = [run EXCEPT ![r] =
          IF p.record.inputs = CurrentInputs(p)
          THEN Finished(p, p.record.value, p.record.from)
          ELSE [p EXCEPT !.record = None, !.at = "extract"]]
     /\ UNCHANGED <<world, records, raced>>

(* The scan loads pyproject.toml again, besides the files of its own.      *)
Reads(unit) == IF unit = "manifest" THEN ManifestFiles ELSE Candidates \cup Scanned

Unread(p) == Reads(p.unit) \ DOMAIN p.value

(* extract_manifest and scan_config, one file at a time.                   *)
Extract(r, f) ==
  LET p == run[r]
      value == [g \in DOMAIN p.value \cup {f} |-> IF g = f THEN fs[f].version ELSE p.value[g]]
  IN /\ p.at = "extract" /\ f \in Unread(p)
     /\ run' = [run EXCEPT ![r].value = value,
                           ![r].at = IF Unread(p) # {f} THEN @
                                     ELSE IF p.unit = "manifest" THEN "inputs" ELSE "write"]
     /\ UNCHANGED <<world, records, raced>>

TakeManifestInputs(r) ==
  LET p == run[r]
  IN /\ p.at = "inputs" /\ p.unit = "manifest" /\ ~ Vanished(p.value)
     /\ run' = [run EXCEPT ![r].inputs = ManifestInputs(p.value), ![r].at = "write"]
     /\ UNCHANGED <<world, records, raced>>

(* fingerprint_paths fails, and with it the run, if a file that is to be   *)
(* fingerprinted because it was read cannot be.                            *)
Fail(r) ==
  LET p == run[r]
  IN /\ \/ p.at = "key" /\ Vanished(p.manifest)
        \/ p.at = "verify" /\ p.unit = "manifest" /\ Vanished(p.record.value)
        \/ p.at = "inputs" /\ p.unit = "manifest" /\ Vanished(p.value)
     /\ run' = [run EXCEPT ![r] = [Gone EXCEPT !.at = "failed", !.since = p.since]]
     /\ UNCHANGED <<world, records, raced>>

(* Mutant: the inputs of a scan are fingerprinted when it is recorded.     *)
RecordOfNow(p) ==
  [key |-> p.key, value |-> p.value, from |-> p.manifest,
   inputs |-> IF p.unit = "scan" THEN ScanInputs ELSE p.inputs]

RecordOf(p) == [key |-> p.key, value |-> p.value, from |-> p.manifest, inputs |-> p.inputs]

(* write_scan_payload: the file of a record is named after its key.        *)
WriteRecord(r) ==
  LET p == run[r]
  IN /\ p.at = "write"
     /\ records' = [records EXCEPT ![p.unit] =
                      {e \in @ : e.key # p.key} \cup {RecordOf(p)}]
     /\ run' = [run EXCEPT ![r].at = "sweep"]
     /\ UNCHANGED <<world, raced>>

(* sweep_siblings: the unit keeps its latest record.                       *)
Sweep(r) ==
  LET p == run[r]
  IN /\ p.at = "sweep"
     /\ records' = [records EXCEPT ![p.unit] = {e \in @ : e.key = p.key}]
     /\ run' = [run EXCEPT ![r] = Finished(p, p.value, p.manifest)]
     /\ UNCHANGED <<world, raced>>

Leave(r) ==
  /\ run[r].at # "idle"
  /\ run' = [run EXCEPT ![r] = Gone]
  /\ UNCHANGED <<world, records, raced>>

----------------------------------------------------------------------------
(* The environment.                                                        *)
Pass ==
  /\ clock < MaxClock
  /\ clock' = clock + 1
  /\ UNCHANGED <<fs, changes, removed, records, run, raced>>

(* A run that has read f for its manifest and not yet fingerprinted it.    *)
Racing(p, f) == p.unit = "manifest" /\ p.at \in {"extract", "inputs"} /\ f \in DOMAIN p.value

Change(f, file) ==
  /\ changes < MaxChanges /\ changes' = changes + 1
  /\ fs' = [fs EXCEPT ![f] = file]
  /\ run' = [r \in Runs |->
       IF run[r].at \in {"idle", "failed"} THEN run[r]
       ELSE [run[r] EXCEPT !.since[f] = @ \cup {file.version}]]
  /\ raced' = raced \cup {g \in Included \cap {f} : \E r \in Runs : Racing(run[r], g)}
  /\ UNCHANGED <<clock, records>>

(* A new version, in place or copied over the file.                        *)
Edit(f) ==
  /\ \/ Change(f, Written(changes + 2, clock))
     \/ Exists(fs[f]) /\ Change(f, Copied(changes + 2, fs[f], clock))
  /\ UNCHANGED removed

Remove(f) ==
  /\ Exists(fs[f]) /\ f \notin removed
  /\ removed' = removed \cup {f}
  /\ Change(f, Missing)

(* A power cut: records are written without fsync.                         *)
Corrupt(u) ==
  /\ records[u] # {}
  /\ records' = [records EXCEPT ![u] = {}]
  /\ run' = [r \in Runs |-> Gone]
  /\ UNCHANGED <<world, raced>>

Work(r) ==
  \/ Begin(r) \/ TakeKey(r) \/ TakeScanInputs(r) \/ ReadRecord(r) \/ Verify(r)
  \/ TakeManifestInputs(r) \/ Fail(r) \/ WriteRecord(r) \/ Sweep(r) \/ Leave(r)
  \/ \E f \in Files : Extract(r, f)

Next ==
  \/ \E r \in Runs : Work(r)
  \/ \E f \in Files : Edit(f) \/ Remove(f)
  \/ Pass
  \/ \E u \in Units : Corrupt(u)

Spec == Init /\ [][Next]_vars
----------------------------------------------------------------------------
Steps == {"idle", "key", "inputs", "read", "verify", "extract", "write", "sweep",
          "done", "failed"}

TypeOK ==
  /\ clock \in 0 .. MaxClock /\ changes \in 0 .. MaxChanges
  /\ \A f \in Files : fs[f].version \in 0 .. changes + 1 /\ fs[f].ctime \in 0 .. clock
  /\ raced \subseteq Included
  /\ \A r \in Runs : run[r].at \in Steps /\ run[r].unit \in Units
  /\ \A u \in Units : \A e \in records[u] : DOMAIN e.value = Reads(u)

(* "After any run, editing the project and running again with the cache    *)
(* reports what a --no-cache run of the edited project reports"            *)
(* (tests/prop_cache_warm.rs 1): the manifest of a run has, of each file,  *)
(* a version the file had while the run was running.  Excepted are the     *)
(* included files edited between extraction and fingerprint, the race      *)
(* that extract_manifest_with_cache leaves open.                           *)
ManifestIsCurrent ==
  \A r \in Runs : \A f \in DOMAIN run[r].manifest \ raced :
     run[r].manifest[f] \in run[r].since[f]

(* The same of the files a scan reads, where an edit during the scan is    *)
(* noticed by the next run (src/plugins/extract.rs 236).                   *)
ScanIsCurrent ==
  \A r \in Runs : run[r].at = "done" =>
     \A f \in DOMAIN run[r].value : run[r].value[f] \in run[r].since[f]

(* The same of the manifest a scan was made with: the extras a tox         *)
(* environment installs are looked up in it (config_scan.rs 963).          *)
ScanFollowsManifest ==
  \A r \in Runs : run[r].at = "done" =>
     \A f \in DOMAIN run[r].from : run[r].from[f] \in run[r].since[f]

(* A run during which no file changes is analysed: a constraints file that *)
(* is missing is a warning (src/manifest/requirements.rs 319).             *)
CalmRunSucceeds ==
  \A r \in Runs : run[r].at = "failed" => \E f \in Files : Cardinality(run[r].since[f]) > 1
============================================================================
