--------------------------- MODULE ManifestProofs ---------------------------
(***************************************************************************)
(* The manifest: that the scan cache never gives out an outdated one, and  *)
(* what requirements files that include each other come to.                *)
(*                                                                         *)
(* No run of ScanCache is given an outdated manifest or scan, for any      *)
(* number of files, runs and changes.  The argument has two parts.         *)
(*                                                                         *)
(* A fingerprint that was taken once never fits a state that a file takes  *)
(* later, so where the fingerprint fits the file still, what was read of   *)
(* the file since is what the file is.                                     *)
(*                                                                         *)
(* But the key of a record, and the inputs of a scan, are taken before the *)
(* files are read, and a file may change in between.  So what a run finds  *)
(* under the fingerprints it holds need not be what it would read now.     *)
(* Agrees says what it is: a version the file had while the run held these *)
(* fingerprints, whether the record was there before, was being made, or   *)
(* was begun later.                                                        *)
(*                                                                         *)
(* The argument for RequirementsFiles stands before its definitions, in    *)
(* the second half.                                                        *)
(***************************************************************************)
EXTENDS ScanCache, RequirementsFiles, FiniteSetTheorems, WellFoundedInduction, TLAPS

File == [version : Nat, mtime : Int, ctime : Int]

Fingerprints ==
  [by : {"hash", "stat", "absent"}, mtime : Int, ctime : Int, version : Nat]

WorldInv ==
  /\ clock \in Nat /\ changes \in Nat
  /\ fs \in [Files -> File]
  /\ \A f \in Files :
        /\ fs[f].version <= changes + 1
        /\ ~ Exists(fs[f]) => f \in removed

(* A fingerprint of f that no state f takes from now on will fit.          *)
IsOld(f, print) ==
  /\ print.by = "hash" => print.version <= changes + 1
  /\ print.by = "stat" => print.ctime + Window <= clock
  /\ print.by = "absent" => f \in removed

Fits(print, file) ==
  IF Exists(file) THEN print = HashFingerprint(file) \/ print = StatFingerprint(file)
                  ELSE print = AbsentFingerprint

(* As long as the fingerprint fits f, the version is that of f.            *)
Tells(f, print, version) ==
  /\ IsOld(f, print)
  /\ Fits(print, fs[f]) => version = fs[f].version

(* What a record or a run took of f before it read f.                      *)
PrintOf(x, f) ==
  IF f \in Candidates THEN x.key.files[f]
  ELSE IF f \in DOMAIN x.inputs THEN x.inputs[f] ELSE AbsentFingerprint

(* The files that have such a fingerprint.                                 *)
Checked(unit) == IF unit = "manifest" THEN Candidates ELSE Candidates \cup Scanned

(* What a run with these fingerprints finds was there since it began.      *)
Agrees(p, x) ==
  \A f \in Checked(p.unit) \cap DOMAIN x.value :
     (p.at = "inputs" => f \in Candidates) /\ PrintOf(p, f) = PrintOf(x, f)
     => x.value[f] \in p.since[f]

RecordInv(unit, e) ==
  /\ DOMAIN e.value = Reads(unit)
  /\ \A f \in Reads(unit) : e.value[f] \in Nat
  /\ \A f \in Checked(unit) : PrintOf(e, f) \in Fingerprints /\ Tells(f, PrintOf(e, f), e.value[f])
  /\ unit = "manifest" => \A f \in Included \ raced :
        e.inputs[f] \in Fingerprints /\ Tells(f, e.inputs[f], e.value[f])

-----------------------------------------------------------------------------
Shaped(p) ==
  p \in [at : {p.at}, unit : {p.unit}, key : {p.key}, inputs : {p.inputs},
         record : {p.record}, value : {p.value}, manifest : {p.manifest},
         from : {p.from}, since : {p.since}]

Running(p) == p.at \notin {"idle", "failed"}
Keyed(p) == p.at \in {"inputs", "read", "verify", "extract", "write", "sweep"}

(* The run looks for a record, or will.                                    *)
Holding(p) == p.at = "read" \/ (p.at = "inputs" /\ p.unit = "scan")

(* The run makes a record; it has read all the files.                      *)
Complete(p) == p.at \in {"write", "sweep"} \/ (p.at = "inputs" /\ p.unit = "manifest")
Drafting(p) == p.at = "extract" \/ Complete(p)

SinceInv(p) ==
  /\ p.since \in [Files -> SUBSET Nat]
  /\ \A f \in Files : fs[f].version \in p.since[f]
  /\ DOMAIN p.value \subseteq Reads(p.unit)
  /\ \A f \in DOMAIN p.value : p.value[f] \in p.since[f]
  /\ \A f \in DOMAIN p.manifest \ raced : p.manifest[f] \in p.since[f]
  /\ DOMAIN p.manifest = IF p.unit = "scan" THEN ManifestFiles ELSE {}

PrintsInv(p) ==
  \A f \in Checked(p.unit) : (p.at = "inputs" => f \in Candidates) =>
     PrintOf(p, f) \in Fingerprints /\ IsOld(f, PrintOf(p, f))

DraftInv(p) ==
  /\ Running(p) /\ ~ Drafting(p) /\ p.at # "done" => DOMAIN p.value = {}
  /\ Drafting(p) => \A f \in Checked(p.unit) \cap DOMAIN p.value :
                       Tells(f, PrintOf(p, f), p.value[f])
  /\ Complete(p) => DOMAIN p.value = Reads(p.unit)

IncludedInv(p) ==
  p.unit = "manifest" =>
    /\ p.at \in {"extract", "inputs"} =>
          \A f \in (Included \cap DOMAIN p.value) \ raced : p.value[f] = fs[f].version
    /\ p.at \in {"write", "sweep"} =>
          \A f \in Included \ raced : p.inputs[f] \in Fingerprints /\ Tells(f, p.inputs[f], p.value[f])

VerifyInv(p) ==
  p.at = "verify" =>
    RecordInv(p.unit, p.record) /\ p.record.key = p.key /\ Agrees(p, p.record)

ProcessInv(p) ==
  /\ Shaped(p) /\ p.at \in Steps /\ p.unit \in Units
  /\ IF Running(p) THEN SinceInv(p) ELSE DOMAIN p.manifest = {}
  /\ Keyed(p) => PrintsInv(p)
  /\ DraftInv(p) /\ IncludedInv(p) /\ VerifyInv(p)

RecordsInv ==
  /\ records \in [Units -> {records[u] : u \in Units}]
  /\ \A u \in Units : \A e \in records[u] : RecordInv(u, e)

RunsInv ==
  /\ run \in [Runs -> {run[r] : r \in Runs}]
  /\ \A r \in Runs : ProcessInv(run[r])

AgreementInv ==
  \A r \in Runs : Holding(run[r]) =>
    /\ \A e \in records[run[r].unit] : Agrees(run[r], e)
    /\ \A s \in Runs : Drafting(run[s]) /\ run[s].unit = run[r].unit => Agrees(run[r], run[s])

CacheInv == WorldInv /\ RecordsInv /\ RunsInv /\ AgreementInv

-----------------------------------------------------------------------------
LEMMA StampFacts ==
  ASSUME NEW t \in Nat
  PROVE  Stamp(t) \in Int /\ Stamp(t) <= t /\ t < Stamp(t) + Granularity
<1>1. t % Granularity \in 0 .. Granularity - 1
  BY GranularityAssumption
<1> QED
  BY <1>1, GranularityAssumption DEF Stamp

(* What an edit makes of a file.                                           *)
LEMMA EditedFile ==
  ASSUME WorldInv, NEW f \in Files, NEW file,
         file = Written(changes + 2, clock) \/ file = Copied(changes + 2, fs[f], clock)
  PROVE  file \in File /\ file.version = changes + 2 /\ file.ctime = Stamp(clock)
<1>1. Stamp(clock) \in Int /\ changes + 2 \in Nat /\ fs[f].mtime \in Int
  BY StampFacts DEF WorldInv, File
<1> QED
  BY <1>1 DEF Written, Copied, File

(* An old fingerprint does not fit what an edit or a removal leaves.       *)
LEMMA OldFitsNoChange ==
  ASSUME WorldInv, NEW f \in Files, NEW print \in Fingerprints, IsOld(f, print), NEW file \in File,
         \/ file.version = changes + 2 /\ file.ctime = Stamp(clock)
         \/ file = Missing /\ f \notin removed
  PROVE  ~ Fits(print, file)
<1>1. CASE file.version = changes + 2 /\ file.ctime = Stamp(clock)
  <2>1. Exists(file)
    BY <1>1 DEF Exists, WorldInv
  <2>2. CASE print = HashFingerprint(file)
    <3>1. print.by = "hash" /\ print.version = changes + 2
      BY <1>1, <2>2 DEF HashFingerprint
    <3> QED
      BY <3>1 DEF IsOld, WorldInv
  <2>3. CASE print = StatFingerprint(file)
    <3>1. print.by = "stat" /\ print.ctime = Stamp(clock)
      BY <1>1, <2>3 DEF StatFingerprint
    <3>2. Stamp(clock) + Window <= clock
      BY <3>1 DEF IsOld
    <3>3. clock \in Nat /\ Stamp(clock) \in Int /\ clock < Stamp(clock) + Granularity
      BY StampFacts DEF WorldInv
    <3> QED
      BY <3>2, <3>3, WindowAssumption, GranularityAssumption
  <2> QED
    BY <2>1, <2>2, <2>3 DEF Fits
<1>2. CASE file = Missing /\ f \notin removed
  <2>1. ~ Exists(file)
    BY <1>2 DEF Exists, Missing
  <2>2. AbsentFingerprint.by = "absent"
    BY DEF AbsentFingerprint
  <2> QED
    BY <1>2, <2>1, <2>2 DEF Fits, IsOld
<1> QED
  BY <1>1, <1>2

(* Each fingerprint fits the file it is taken of, and is old at once.      *)
LEMMA PrintTaken ==
  ASSUME WorldInv, NEW f \in Files, NEW print,
         \/ print = Fingerprint(f)
         \/ print = IF Exists(fs[f]) THEN FingerprintAt(fs[f], clock) ELSE AbsentFingerprint
  PROVE  print \in Fingerprints /\ IsOld(f, print) /\ Fits(print, fs[f])
<1>1. /\ fs[f] \in File /\ fs[f].version <= changes + 1 /\ clock \in Nat /\ changes \in Nat
      /\ ~ Exists(fs[f]) => f \in removed
  BY DEF WorldInv
<1>2. fs[f].version \in Nat /\ fs[f].mtime \in Int /\ fs[f].ctime \in Int
  BY <1>1 DEF File
<1>3. CASE ~ Exists(fs[f])
  <2>1. print = AbsentFingerprint
    BY <1>3 DEF Fingerprint
  <2> QED
    BY <1>1, <1>3, <2>1 DEF AbsentFingerprint, Fingerprints, IsOld, Fits
<1>4. CASE Exists(fs[f]) /\ print = HashFingerprint(fs[f])
  BY <1>1, <1>2, <1>4 DEF HashFingerprint, Fingerprints, IsOld, Fits
<1>5. CASE Exists(fs[f]) /\ print = StatFingerprint(fs[f]) /\ Settled(fs[f], clock)
  <2>1. fs[f].ctime + Window <= clock
    BY <1>1, <1>2, <1>5, WindowAssumption DEF Settled, IsRacy
  <2> QED
    BY <1>1, <1>2, <1>5, <2>1 DEF StatFingerprint, Fingerprints, IsOld, Fits
<1> QED
  BY <1>3, <1>4, <1>5 DEF Fingerprint, FingerprintAt

-----------------------------------------------------------------------------
(* What is known of fingerprints stays true under any change of the world. *)
Kept ==
  \A f \in Files, print \in Fingerprints :
     /\ IsOld(f, print) => IsOld(f, print)'
     /\ \A version \in Nat : Tells(f, print, version) => Tells(f, print, version)'

LEMMA SameWorldKeeps == ASSUME WorldInv, UNCHANGED world PROVE WorldInv' /\ Kept
BY DEF world, WorldInv, Kept, IsOld, Tells

LEMMA PassKeeps == ASSUME WorldInv, Pass PROVE WorldInv' /\ Kept
<1>1. clock \in Nat /\ clock' = clock + 1 /\ UNCHANGED <<fs, changes, removed>>
  BY DEF WorldInv, Pass
<1>2. \A f \in Files, print \in Fingerprints : IsOld(f, print) => IsOld(f, print)'
  BY <1>1, WindowAssumption DEF IsOld, Fingerprints
<1> QED
  BY <1>1, <1>2 DEF WorldInv, Kept, Tells

(* What the user does to a file.                                           *)
Changes(f, file) ==
  /\ file \in File
  /\ fs' = [fs EXCEPT ![f] = file] /\ changes' = changes + 1 /\ clock' = clock
  /\ \/ file.version = changes + 2 /\ file.ctime = Stamp(clock) /\ removed' = removed
     \/ file = Missing /\ f \notin removed /\ removed' = removed \cup {f}

LEMMA EditChanges ==
  ASSUME WorldInv, NEW f \in Files, Edit(f)
  PROVE  \E file : Change(f, file) /\ Changes(f, file)
<1>1. PICK file : /\ Change(f, file)
                  /\ file = Written(changes + 2, clock) \/ file = Copied(changes + 2, fs[f], clock)
  BY DEF Edit
<1>2. file \in File /\ file.version = changes + 2 /\ file.ctime = Stamp(clock)
  BY <1>1, EditedFile
<1>3. fs' = [fs EXCEPT ![f] = file] /\ changes' = changes + 1 /\ clock' = clock
  BY <1>1 DEF Change
<1>4. removed' = removed
  BY DEF Edit
<1>5. Changes(f, file)
  BY <1>2, <1>3, <1>4 DEF Changes
<1> QED
  BY <1>1, <1>5

LEMMA RemoveChanges ==
  ASSUME WorldInv, NEW f \in Files, Remove(f)
  PROVE  Change(f, Missing) /\ Changes(f, Missing)
<1>1. Missing \in File
  BY DEF Missing, File
<1> QED
  BY <1>1 DEF Remove, Change, Changes

LEMMA ChangeKeeps ==
  ASSUME WorldInv, NEW f \in Files, NEW file, Changes(f, file)
  PROVE  WorldInv' /\ Kept
<1>1. /\ fs' = [fs EXCEPT ![f] = file] /\ clock' = clock /\ changes' = changes + 1
      /\ clock \in Nat /\ changes \in Nat /\ file \in File /\ fs \in [Files -> File]
      /\ removed \subseteq removed'
  BY DEF Changes, WorldInv
<1>2. fs'[f] = file /\ \A g \in Files : g # f => fs'[g] = fs[g]
  BY <1>1
<1>3. file.version <= changes' + 1 /\ (~ Exists(file) => f \in removed')
  <2>1. CASE file.version = changes + 2
    BY <1>1, <2>1 DEF Exists
  <2>2. CASE file = Missing /\ removed' = removed \cup {f}
    BY <1>1, <2>2 DEF Missing
  <2> QED
    BY <2>1, <2>2 DEF Changes
<1>4. WorldInv'
  <2>1. fs' \in [Files -> File]
    BY <1>1
  <2>2. ASSUME NEW g \in Files
        PROVE  fs'[g].version <= changes' + 1 /\ (~ Exists(fs'[g]) => g \in removed')
    <3>1. fs[g].version \in Nat /\ fs[g].version <= changes + 1
      BY <1>1 DEF WorldInv, File
    <3>2. fs[g].version <= changes' + 1
      BY <1>1, <3>1
    <3>3. ~ Exists(fs[g]) => g \in removed
      BY DEF WorldInv
    <3> QED
      BY <1>1, <1>2, <1>3, <3>2, <3>3
  <2> QED
    BY <1>1, <2>1, <2>2 DEF WorldInv, Exists
<1>5. ASSUME NEW g \in Files, NEW print \in Fingerprints, IsOld(g, print)
      PROVE  IsOld(g, print)'
  <2>1. print.version \in Nat
    BY DEF Fingerprints
  <2> QED
    BY <1>1, <1>5, <2>1 DEF IsOld
<1>6. ASSUME NEW g \in Files, NEW print \in Fingerprints, NEW version \in Nat, Tells(g, print, version)
      PROVE  Tells(g, print, version)'
  <2>1. IsOld(g, print) /\ IsOld(g, print)'
    BY <1>5, <1>6 DEF Tells
  <2>2. CASE g # f
    BY <1>2, <1>6, <2>1, <2>2 DEF Tells
  <2>3. CASE g = f
    <3>1. ~ Fits(print, file)
      BY <1>1, <2>1, <2>3, OldFitsNoChange DEF Changes
    <3>2. ~ Fits(print, fs'[g])
      BY <1>2, <2>3, <3>1
    <3> QED
      BY <2>1, <3>2 DEF Tells
  <2> QED
    BY <2>2, <2>3
<1> QED
  BY <1>4, <1>5, <1>6 DEF Kept

-----------------------------------------------------------------------------
LEMMA FileSets ==
  ASSUME NEW unit \in Units
  PROVE  /\ Checked(unit) \subseteq Files /\ Checked(unit) \subseteq Reads(unit)
         /\ Reads(unit) \subseteq Files /\ Included \subseteq Files
         /\ unit = "manifest" => Included \subseteq Reads(unit)
         /\ unit = "scan" => Reads(unit) \subseteq Checked(unit)
BY DEF Checked, Files, ManifestFiles, Reads, Units

LEMMA RecordKept ==
  ASSUME Kept, raced \subseteq raced', NEW unit \in Units, NEW e, RecordInv(unit, e)
  PROVE  RecordInv(unit, e)'
<1>1. ASSUME NEW f \in Checked(unit)
      PROVE  PrintOf(e, f) \in Fingerprints /\ Tells(f, PrintOf(e, f), e.value[f])'
  <2>1. f \in Files /\ PrintOf(e, f) \in Fingerprints /\ e.value[f] \in Nat
    BY FileSets DEF RecordInv
  <2> QED
    BY <2>1 DEF RecordInv, Kept
<1>2. ASSUME unit = "manifest", NEW f \in Included \ raced'
      PROVE  e.inputs[f] \in Fingerprints /\ Tells(f, e.inputs[f], e.value[f])'
  <2>1. f \in Files /\ f \notin raced /\ e.inputs[f] \in Fingerprints /\ e.value[f] \in Nat
    BY <1>2, FileSets DEF RecordInv
  <2> QED
    BY <1>2, <2>1 DEF RecordInv, Kept
<1> QED
  BY <1>1, <1>2 DEF RecordInv

(* A process that only sees the world change.                              *)
Sees(p, q) ==
  /\ Shaped(q)
  /\ q.at = p.at /\ q.unit = p.unit /\ q.key = p.key /\ q.inputs = p.inputs
  /\ q.record = p.record /\ q.value = p.value /\ q.manifest = p.manifest
  /\ Running(p) => /\ q.since \in [Files -> SUBSET Nat]
                   /\ \A f \in Files : p.since[f] \subseteq q.since[f]

LEMMA SeesAgrees ==
  ASSUME NEW p, NEW q, Sees(p, q), Running(p), p.unit \in Units, NEW x, NEW y, Agrees(p, x),
         x.key = y.key, x.inputs = y.inputs, x.value = y.value
  PROVE  Agrees(q, y)
<1>1. Checked(p.unit) \subseteq Files
  BY FileSets
<1>2. \A f : PrintOf(q, f) = PrintOf(p, f) /\ PrintOf(x, f) = PrintOf(y, f)
  BY DEF Sees, PrintOf
<1> QED
  BY <1>1, <1>2 DEF Agrees, Sees

LEMMA ProcessKept ==
  ASSUME WorldInv', Kept, raced \subseteq raced', NEW p, ProcessInv(p), NEW q, Sees(p, q),
         Running(p) => \A f \in Files : fs'[f].version \in q.since[f],
         \A f \in Included : Racing(p, f) /\ f \notin raced' => fs'[f] = fs[f]
  PROVE  ProcessInv(q)'
<1> USE DEF Sees
<1>1. p.unit \in Units /\ p.at \in Steps
  BY DEF ProcessInv
<1>2. Running(p) => SinceInv(q)'
  <2> HAVE Running(p)
  <2>1. SinceInv(p)
    BY DEF ProcessInv
  <2>2. DOMAIN p.manifest \subseteq Files /\ DOMAIN p.value \subseteq Files
    BY <1>1, <2>1, FileSets DEF SinceInv, Files
  <2> QED
    BY <2>1, <2>2 DEF SinceInv
<1>3. \A f : PrintOf(q, f) = PrintOf(p, f)
  BY DEF PrintOf
<1>4. Keyed(p) => PrintsInv(q)'
  <2> HAVE Keyed(p)
  <2>1. PrintsInv(p)
    BY DEF ProcessInv
  <2>2. ASSUME NEW f \in Checked(p.unit), p.at = "inputs" => f \in Candidates
        PROVE  PrintOf(q, f) \in Fingerprints /\ IsOld(f, PrintOf(q, f))'
    BY <1>1, <1>3, <2>1, <2>2, FileSets DEF PrintsInv, Kept
  <2> QED
    BY <2>2 DEF PrintsInv
<1>5. DraftInv(q)'
  <2>1. DraftInv(p)
    BY DEF ProcessInv
  <2>2. ASSUME Drafting(p), NEW f \in Checked(p.unit) \cap DOMAIN p.value
        PROVE  Tells(f, PrintOf(q, f), p.value[f])'
    <3>1. Keyed(p) /\ Running(p) /\ (p.at = "inputs" => f \in Candidates)
      BY <1>1, <2>2 DEF Drafting, Complete, Keyed, Running, Checked
    <3>2. PrintOf(p, f) \in Fingerprints /\ f \in Files /\ p.value[f] \in Nat
      BY <1>1, <3>1, FileSets DEF ProcessInv, PrintsInv, SinceInv
    <3>3. Tells(f, PrintOf(p, f), p.value[f])
      BY <2>1, <2>2 DEF DraftInv
    <3> QED
      BY <1>3, <3>2, <3>3 DEF Kept
  <2> QED
    BY <2>1, <2>2 DEF DraftInv, Drafting, Complete, Running
<1>6. IncludedInv(q)'
  <2> SUFFICES ASSUME p.unit = "manifest" PROVE IncludedInv(q)'
    BY DEF IncludedInv
  <2>1. IncludedInv(p)
    BY DEF ProcessInv
  <2>2. ASSUME p.at \in {"extract", "inputs"}, NEW f \in (Included \cap DOMAIN p.value) \ raced'
        PROVE  p.value[f] = fs'[f].version
    BY <2>1, <2>2 DEF IncludedInv, Racing
  <2>3. ASSUME p.at \in {"write", "sweep"}, NEW f \in Included \ raced'
        PROVE  p.inputs[f] \in Fingerprints /\ Tells(f, p.inputs[f], p.value[f])'
    <3>1. f \in Reads(p.unit) /\ f \in Files
      BY <1>1, FileSets
    <3>2. p.value[f] \in Nat
      <4>1. Running(p) /\ Complete(p)
        BY <2>3 DEF Running, Complete
      <4> QED
        BY <3>1, <4>1 DEF ProcessInv, SinceInv, DraftInv
    <3>3. p.inputs[f] \in Fingerprints /\ Tells(f, p.inputs[f], p.value[f])
      BY <2>1, <2>3 DEF IncludedInv
    <3> QED
      BY <3>1, <3>2, <3>3 DEF Kept
  <2> QED
    BY <2>2, <2>3 DEF IncludedInv
<1>7. VerifyInv(q)'
  <2> SUFFICES ASSUME p.at = "verify" PROVE VerifyInv(q)'
    BY DEF VerifyInv
  <2>1. RecordInv(p.unit, p.record) /\ p.record.key = p.key /\ Agrees(p, p.record)
    BY DEF ProcessInv, VerifyInv
  <2>2. RecordInv(p.unit, p.record)'
    BY <1>1, <2>1, RecordKept
  <2>3. Agrees(q, p.record)
    BY <1>1, <2>1, SeesAgrees DEF Running
  <2> QED
    BY <2>1, <2>2, <2>3 DEF VerifyInv
<1> QED
  BY <1>1, <1>2, <1>4, <1>5, <1>6, <1>7 DEF ProcessInv, Running, Keyed

-----------------------------------------------------------------------------
LEMMA RunsInvNext ==
  ASSUME run' \in [Runs -> {run'[r] : r \in Runs}],
         \A s \in Runs : \E p : p = run'[s] /\ ProcessInv(p)'
  PROVE  RunsInv'
<1>1. ASSUME NEW s \in Runs PROVE ProcessInv(run[s])'
  <2>1. PICK p : p = run'[s] /\ ProcessInv(p)'
    OBVIOUS
  <2>2. Shaped(run[s])' /\ run'[s].at \in Steps /\ run'[s].unit \in Units
    BY <2>1 DEF ProcessInv, Shaped
  <2>3. (IF Running(run[s]) THEN SinceInv(run[s]) ELSE DOMAIN run[s].manifest = {})'
    BY <2>1 DEF ProcessInv, Running, SinceInv
  <2>4. (Keyed(run[s]) => PrintsInv(run[s]))'
    BY <2>1 DEF ProcessInv, Keyed, PrintsInv, PrintOf, IsOld
  <2>5. DraftInv(run[s])'
    BY <2>1 DEF ProcessInv, DraftInv, Running, Drafting, Complete, PrintOf, Tells, IsOld
  <2>6. IncludedInv(run[s])'
    BY <2>1, SMTT(30) DEF ProcessInv, IncludedInv, Tells, IsOld
  <2>7. VerifyInv(run[s])'
    BY <2>1 DEF ProcessInv, VerifyInv, RecordInv, Agrees, PrintOf, Tells, IsOld
  <2> QED
    BY <2>2, <2>3, <2>4, <2>5, <2>6, <2>7 DEF ProcessInv
<1> QED
  BY <1>1 DEF RunsInv

LEMMA RecordsInvNext ==
  ASSUME records' \in [Units -> {records'[u] : u \in Units}],
         \A u \in Units : \A e \in records'[u] : RecordInv(u, e)'
  PROVE  RecordsInv'
BY DEF RecordsInv

LEMMA AgreementNext ==
  ASSUME \A r \in Runs : Holding(run'[r]) =>
           /\ \A e \in records'[run'[r].unit] : Agrees(run'[r], e)
           /\ \A s \in Runs : Drafting(run'[s]) /\ run'[s].unit = run'[r].unit
                              => Agrees(run'[r], run'[s])
  PROVE  AgreementInv'
BY DEF AgreementInv, Agrees, PrintOf, Holding, Drafting, Complete

(* One run moves on, and there may be other records.                       *)
LEMMA OneRunMoves ==
  ASSUME CacheInv, UNCHANGED <<world, raced>>, NEW r \in Runs, NEW p, ProcessInv(p),
         run' = [run EXCEPT ![r] = p],
         records' \in [Units -> {records'[u] : u \in Units}],
         \A u \in Units : \A e \in records'[u] :
            \/ e \in records[u]
            \/ /\ RecordInv(u, e)
               /\ \A s \in Runs \ {r} :
                     Holding(run[s]) /\ run[s].unit = u => Agrees(run[s], e),
         Holding(p) => /\ records' = records
                       /\ \A e \in records[p.unit] : Agrees(p, e)
                       /\ \A s \in Runs \ {r} : Drafting(run[s]) /\ run[s].unit = p.unit
                                                => Agrees(p, run[s]),
         Drafting(p) => \A s \in Runs \ {r} : Holding(run[s]) /\ run[s].unit = p.unit
                                              => Agrees(run[s], p)
  PROVE  CacheInv'
<1>1. WorldInv' /\ Kept /\ raced' = raced
  BY SameWorldKeeps DEF CacheInv
<1>2. /\ run'[r] = p /\ \A s \in Runs \ {r} : run'[s] = run[s]
      /\ run' \in [Runs -> {run'[s] : s \in Runs}]
  BY DEF CacheInv, RunsInv
<1>4. RunsInv'
  <2>1. ASSUME NEW q, ProcessInv(q) PROVE ProcessInv(q)'
    <3>1. UNCHANGED <<fs, changes, removed, clock, raced>>
      BY DEF world
    <3> QED
      BY <2>1, <3>1 DEF ProcessInv, Shaped, Running, Keyed, SinceInv, PrintsInv, DraftInv,
                IncludedInv, VerifyInv, RecordInv, Drafting, Complete, Tells, IsOld
  <2>2. ASSUME NEW s \in Runs PROVE \E q : q = run'[s] /\ ProcessInv(q)'
    BY <1>2, <2>1 DEF CacheInv, RunsInv
  <2> QED
    BY <1>2, <2>2, RunsInvNext
<1>5. RecordsInv'
  <2>1. ASSUME NEW u \in Units, NEW e \in records'[u] PROVE RecordInv(u, e)'
    <3>1. RecordInv(u, e)
      BY DEF CacheInv, RecordsInv
    <3> QED
      BY <1>1, <3>1, RecordKept
  <2> QED
    BY <2>1, RecordsInvNext
<1>6. AgreementInv'
  <2>1. ASSUME NEW s \in Runs, Holding(run'[s]), NEW e \in records'[run'[s].unit]
        PROVE  Agrees(run'[s], e)
    <3>1. CASE s = r
      BY <1>2, <2>1, <3>1
    <3>2. CASE s # r
      <4>1. run'[s] = run[s] /\ run[s].unit \in Units
        BY <1>2, <3>2 DEF CacheInv, RunsInv, ProcessInv
      <4>2. CASE e \in records[run[s].unit]
        BY <2>1, <4>1, <4>2 DEF CacheInv, AgreementInv
      <4>3. CASE e \notin records[run[s].unit]
        BY <2>1, <3>2, <4>1, <4>3
      <4> QED
        BY <4>2, <4>3
    <3> QED
      BY <3>1, <3>2
  <2>2. ASSUME NEW s \in Runs, Holding(run'[s]),
               NEW t \in Runs, Drafting(run'[t]), run'[t].unit = run'[s].unit
        PROVE  Agrees(run'[s], run'[t])
    <3>1. s # t
      BY <2>2 DEF Holding, Drafting, Complete
    <3>2. CASE s = r
      BY <1>2, <2>2, <3>1, <3>2
    <3>3. CASE t = r
      BY <1>2, <2>2, <3>1, <3>3
    <3>4. CASE s # r /\ t # r
      BY <1>2, <2>2, <3>4 DEF CacheInv, AgreementInv
    <3> QED
      BY <3>2, <3>3, <3>4
  <2> QED
    BY <2>1, <2>2, AgreementNext
<1> QED
  BY <1>1, <1>4, <1>5, <1>6 DEF CacheInv

(* The same where the records stay.                                        *)
LEMMA RunMoves ==
  ASSUME CacheInv, UNCHANGED <<world, records, raced>>, NEW r \in Runs, NEW p, ProcessInv(p),
         run' = [run EXCEPT ![r] = p],
         Holding(p) => /\ \A e \in records[p.unit] : Agrees(p, e)
                       /\ \A s \in Runs \ {r} : Drafting(run[s]) /\ run[s].unit = p.unit
                                                => Agrees(p, run[s]),
         Drafting(p) => \A s \in Runs \ {r} : Holding(run[s]) /\ run[s].unit = p.unit
                                              => Agrees(run[s], p)
  PROVE  CacheInv'
<1>1. records' \in [Units -> {records'[u] : u \in Units}]
  BY DEF CacheInv, RecordsInv
<1>2. \A u \in Units : \A e \in records'[u] : e \in records[u]
  OBVIOUS
<1>3. UNCHANGED <<world, raced>>
  OBVIOUS
<1>4. Holding(p) => records' = records
  OBVIOUS
<1> QED
  BY <1>1, <1>2, <1>3, <1>4, OneRunMoves

-----------------------------------------------------------------------------
LEMMA GoneShaped == Shaped(Gone) /\ DOMAIN Gone.manifest = {} /\ DOMAIN Gone.value = {}
<1>1. DOMAIN << >> = {}
  OBVIOUS
<1> QED
  BY <1>1 DEF Shaped, Gone

LEMMA GoneFine == ProcessInv(Gone)
BY GoneShaped DEF Gone, ProcessInv, Running, Keyed, Steps, Units, DraftInv, Drafting, Complete,
                  IncludedInv, VerifyInv

LEMMA InitHolds == ASSUME Init PROVE CacheInv
<1>1. Written(1, 0) \in File /\ Written(1, 0).version = 1
  BY StampFacts DEF Written, File
<1>2. WorldInv
  BY <1>1 DEF Init, WorldInv, Exists
<1>3. RecordsInv
  BY DEF Init, RecordsInv
<1>4. RunsInv
  BY GoneFine DEF Init, RunsInv
<1>5. AgreementInv
  BY DEF Init, AgreementInv, Gone, Holding
<1> QED
  BY <1>2, <1>3, <1>4, <1>5 DEF CacheInv

LEMMA BeginKeeps == ASSUME CacheInv, NEW r \in Runs, Begin(r) PROVE CacheInv'
<1> DEFINE p == [Gone EXCEPT !.at = "key", !.since = [f \in Files |-> {fs[f].version}]]
<1>1. /\ Shaped(p) /\ p.at = "key" /\ p.unit = "manifest"
      /\ p.value = Gone.value /\ p.manifest = Gone.manifest
      /\ p.since = [f \in Files |-> {fs[f].version}]
  BY GoneShaped DEF Shaped, Gone
<1>2. run' = [run EXCEPT ![r] = p] /\ UNCHANGED <<world, records, raced>>
  BY DEF Begin
<1> HIDE DEF p
<1>3. \A f \in Files : fs[f].version \in Nat
  BY DEF CacheInv, WorldInv, File
<1>4. SinceInv(p)
  BY <1>1, <1>3, GoneShaped DEF SinceInv
<1>5. ProcessInv(p)
  BY <1>1, <1>4, GoneShaped DEF ProcessInv, Running, Keyed, Steps, Units, DraftInv, Drafting,
                                Complete, IncludedInv, VerifyInv
<1> QED
  BY <1>1, <1>2, <1>5, RunMoves DEF Holding, Drafting, Complete

(* What a run holds of itself.                                             *)
LEMMA RunFacts ==
  ASSUME CacheInv, NEW r \in Runs
  PROVE  /\ ProcessInv(run[r]) /\ Shaped(run[r])
         /\ run[r].unit \in Units
         /\ Running(run[r]) => SinceInv(run[r])
BY DEF CacheInv, RunsInv, ProcessInv

LEMMA FailKeeps == ASSUME CacheInv, NEW r \in Runs, Fail(r) PROVE CacheInv'
<1> DEFINE p == [Gone EXCEPT !.at = "failed", !.since = run[r].since]
<1>1. Shaped(p) /\ p.at = "failed" /\ p.unit = "manifest" /\ DOMAIN p.manifest = {}
  BY GoneShaped DEF Shaped, Gone
<1>2. run' = [run EXCEPT ![r] = p] /\ UNCHANGED <<world, records, raced>>
  BY DEF Fail
<1> HIDE DEF p
<1>3. ProcessInv(p)
  BY <1>1 DEF ProcessInv, Running, Keyed, Steps, Units, DraftInv, Drafting, Complete,
              IncludedInv, VerifyInv
<1> QED
  BY <1>1, <1>2, <1>3, RunMoves DEF Holding, Drafting, Complete

LEMMA LeaveKeeps == ASSUME CacheInv, NEW r \in Runs, Leave(r) PROVE CacheInv'
<1>1. ProcessInv(Gone)
  BY GoneFine
<1>2. Gone.at = "idle"
  BY DEF Gone
<1> QED
  BY <1>1, <1>2, RunMoves DEF Leave, Holding, Drafting, Complete

-----------------------------------------------------------------------------
(* The fingerprint of a file that a run takes agrees with all there is.    *)
LEMMA FreshPrintAgrees ==
  ASSUME CacheInv, NEW r \in Runs, Running(run[r]), NEW f \in Files, NEW print \in Fingerprints,
         Fits(print, fs[f]), NEW version, Tells(f, print, version)
  PROVE  version \in run[r].since[f]
BY RunFacts DEF SinceInv, Tells

(* What records and drafts hold.                                           *)
LEMMA FindingsTell ==
  ASSUME CacheInv, NEW unit \in Units, NEW f \in Checked(unit)
  PROVE  /\ \A e \in records[unit] : Tells(f, PrintOf(e, f), e.value[f])
         /\ \A s \in Runs : Drafting(run[s]) /\ run[s].unit = unit /\ f \in DOMAIN run[s].value
                            => Tells(f, PrintOf(run[s], f), run[s].value[f])
BY DEF CacheInv, RecordsInv, RecordInv, RunsInv, ProcessInv, DraftInv

LEMMA KeyPrints ==
  ASSUME CacheInv, NEW r \in Runs, run[r].at = "key", NEW f \in Candidates
  PROVE  Key(run[r]).files[f] = Fingerprint(f)
<1>1. run[r].unit = "scan" => f \in DOMAIN run[r].manifest
  BY RunFacts DEF Running, SinceInv, ManifestFiles
<1>2. CASE run[r].unit = "manifest"
  <2>1. Key(run[r]).files = [g \in Candidates |-> Fingerprint(g)]
    BY <1>2 DEF Key
  <2> QED
    BY <2>1
<1>3. CASE run[r].unit = "scan"
  <2>1. Key(run[r]).files = ManifestInputs(run[r].manifest)
    BY <1>3 DEF Key
  <2>2. ManifestInputs(run[r].manifest)[f] = Fingerprint(f)
    BY <1>1, <1>3 DEF ManifestInputs
  <2> QED
    BY <2>1, <2>2
<1> QED
  BY <1>2, <1>3, RunFacts DEF Units

LEMMA TakeKeyKeeps == ASSUME CacheInv, NEW r \in Runs, TakeKey(r) PROVE CacheInv'
<1> DEFINE o == run[r]
           at == IF o.unit = "scan" THEN "inputs" ELSE "read"
           p == [o EXCEPT !.key = Key(o), !.at = at]
<1>1. run' = [run EXCEPT ![r] = p] /\ UNCHANGED <<world, records, raced>>
  BY RunFacts DEF TakeKey, Shaped
<1>2. /\ Shaped(p) /\ p.at = at /\ p.key = Key(o) /\ p.unit = o.unit /\ p.value = o.value
      /\ p.manifest = o.manifest /\ p.since = o.since
  BY RunFacts DEF Shaped
<1>3. o.at = "key" /\ Running(o) /\ SinceInv(o) /\ DOMAIN o.value = {} /\ o.unit \in Units
  BY RunFacts DEF TakeKey, ProcessInv, DraftInv, Running, Drafting, Complete
<1> HIDE DEF p
<1>4. ASSUME NEW f \in Candidates
      PROVE  /\ f \in Files /\ PrintOf(p, f) \in Fingerprints /\ IsOld(f, PrintOf(p, f))
             /\ Fits(PrintOf(p, f), fs[f])
  <2>1. PrintOf(p, f) = Fingerprint(f)
    BY <1>2, <1>3, KeyPrints DEF PrintOf
  <2>2. f \in Files
    BY DEF Files, ManifestFiles
  <2> QED
    BY <2>1, <2>2, PrintTaken DEF CacheInv
<1>5. \A f \in Checked(p.unit) : (p.at = "inputs" => f \in Candidates) => f \in Candidates
  BY <1>2, <1>3 DEF Checked, Units
<1>6. ProcessInv(p)
  <2>1. SinceInv(p)
    BY <1>2, <1>3 DEF SinceInv
  <2>2. PrintsInv(p)
    BY <1>4, <1>5 DEF PrintsInv
  <2>3. DraftInv(p) /\ IncludedInv(p) /\ VerifyInv(p)
    BY <1>2, <1>3 DEF DraftInv, IncludedInv, VerifyInv, Drafting, Complete
  <2> QED
    BY <1>2, <1>3, <2>1, <2>2, <2>3 DEF ProcessInv, Running, Steps
<1>7. ASSUME NEW x,
             \A f \in Checked(p.unit) \cap DOMAIN x.value : Tells(f, PrintOf(x, f), x.value[f])
      PROVE  Agrees(p, x)
  <2>1. ASSUME NEW f \in Checked(p.unit) \cap DOMAIN x.value, p.at = "inputs" => f \in Candidates,
               PrintOf(p, f) = PrintOf(x, f)
        PROVE  x.value[f] \in p.since[f]
    <3>1. f \in Candidates
      BY <1>5, <2>1
    <3>2. Tells(f, PrintOf(p, f), x.value[f])
      BY <1>7, <2>1
    <3> QED
      BY <1>2, <1>3, <1>4, <3>1, <3>2, FreshPrintAgrees
  <2> QED
    BY <2>1 DEF Agrees
<1>8. \A e \in records[p.unit] : Agrees(p, e)
  BY <1>2, <1>3, <1>7, FindingsTell
<1>9. \A s \in Runs \ {r} : Drafting(run[s]) /\ run[s].unit = p.unit => Agrees(p, run[s])
  BY <1>2, <1>3, <1>7, FindingsTell
<1>10. ~ Drafting(p)
  BY <1>2, <1>3 DEF Drafting, Complete
<1> QED
  BY <1>1, <1>6, <1>8, <1>9, <1>10, RunMoves

LEMMA TakeScanInputsKeeps == ASSUME CacheInv, NEW r \in Runs, TakeScanInputs(r) PROVE CacheInv'
<1> DEFINE o == run[r]
           p == [o EXCEPT !.inputs = ScanInputs, !.at = "read"]
<1>1. run' = [run EXCEPT ![r] = p] /\ UNCHANGED <<world, records, raced>>
  BY RunFacts DEF TakeScanInputs, Shaped
<1>2. /\ Shaped(p) /\ p.at = "read" /\ p.key = o.key /\ p.unit = o.unit /\ p.value = o.value
      /\ p.manifest = o.manifest /\ p.since = o.since /\ p.inputs = ScanInputs
  BY RunFacts DEF Shaped
<1>3. /\ o.at = "inputs" /\ o.unit = "scan" /\ Running(o) /\ SinceInv(o) /\ DOMAIN o.value = {}
      /\ PrintsInv(o) /\ Holding(o)
  BY RunFacts DEF TakeScanInputs, ProcessInv, DraftInv, Running, Drafting, Complete, Keyed,
                  Holding
<1> HIDE DEF p
<1>4. ASSUME NEW f \in Candidates
      PROVE  f \in Checked(o.unit) /\ PrintOf(p, f) = PrintOf(o, f)
  BY <1>2, <1>3 DEF Checked, PrintOf
<1>5. ASSUME NEW f \in Checked(p.unit), f \notin Candidates
      PROVE  /\ f \in Files /\ PrintOf(p, f) \in Fingerprints /\ IsOld(f, PrintOf(p, f))
             /\ Fits(PrintOf(p, f), fs[f])
  <2>1. f \in Scanned /\ f \in Files
    BY <1>2, <1>3, <1>5 DEF Checked, Files
  <2>2. PrintOf(p, f) = IF Exists(fs[f]) THEN FingerprintAt(fs[f], clock) ELSE AbsentFingerprint
    BY <1>2, <1>5, <2>1 DEF PrintOf, ScanInputs
  <2> QED
    BY <2>1, <2>2, PrintTaken DEF CacheInv
<1>6. ProcessInv(p)
  <2>1. SinceInv(p)
    BY <1>2, <1>3 DEF SinceInv
  <2>2. PrintsInv(p)
    BY <1>2, <1>3, <1>4, <1>5 DEF PrintsInv
  <2>3. DraftInv(p) /\ IncludedInv(p) /\ VerifyInv(p)
    BY <1>2, <1>3 DEF DraftInv, IncludedInv, VerifyInv, Drafting, Complete
  <2> QED
    BY <1>2, <1>3, <2>1, <2>2, <2>3 DEF ProcessInv, Running, Steps, Units
<1>7. ASSUME NEW x, Agrees(o, x),
             \A f \in Checked(p.unit) \cap DOMAIN x.value : Tells(f, PrintOf(x, f), x.value[f])
      PROVE  Agrees(p, x)
  <2>1. ASSUME NEW f \in Checked(p.unit) \cap DOMAIN x.value, PrintOf(p, f) = PrintOf(x, f)
        PROVE  x.value[f] \in p.since[f]
    <3>1. CASE f \in Candidates
      BY <1>2, <1>4, <1>7, <2>1, <3>1 DEF Agrees
    <3>2. CASE f \notin Candidates
      <4>1. Tells(f, PrintOf(p, f), x.value[f])
        BY <1>7, <2>1
      <4> QED
        BY <1>2, <1>3, <1>5, <2>1, <3>2, <4>1, FreshPrintAgrees
    <3> QED
      BY <3>1, <3>2
  <2> QED
    BY <2>1 DEF Agrees
<1>8. \A e \in records[p.unit] : Agrees(o, e)
  BY <1>2, <1>3 DEF CacheInv, AgreementInv
<1>9. \A s \in Runs \ {r} : Drafting(run[s]) /\ run[s].unit = p.unit => Agrees(o, run[s])
  BY <1>2, <1>3 DEF CacheInv, AgreementInv
<1>10. p.unit \in Units /\ ~ Drafting(p)
  BY <1>2, <1>3 DEF Drafting, Complete, Units
<1>11. \A e \in records[p.unit] : Agrees(p, e)
  BY <1>7, <1>8, <1>10, FindingsTell
<1>12. \A s \in Runs \ {r} : Drafting(run[s]) /\ run[s].unit = p.unit => Agrees(p, run[s])
  BY <1>7, <1>9, <1>10, FindingsTell
<1> QED
  BY <1>1, <1>6, <1>10, <1>11, <1>12, RunMoves

LEMMA ReadRecordKeeps == ASSUME CacheInv, NEW r \in Runs, ReadRecord(r) PROVE CacheInv'
<1> DEFINE o == run[r]
<1>1. /\ o.at = "read" /\ Running(o) /\ Keyed(o) /\ Holding(o) /\ SinceInv(o)
      /\ DOMAIN o.value = {} /\ PrintsInv(o) /\ o.unit \in Units /\ Shaped(o)
  BY RunFacts DEF ReadRecord, ProcessInv, DraftInv, Running, Drafting, Complete, Keyed, Holding
<1>2. UNCHANGED <<world, records, raced>>
  BY DEF ReadRecord
<1>3. CASE run' = [run EXCEPT ![r].at = "extract"]
  <2> DEFINE p == [o EXCEPT !.at = "extract"]
  <2>1. run' = [run EXCEPT ![r] = p]
    BY <1>3
  <2>2. /\ Shaped(p) /\ p.at = "extract" /\ p.key = o.key /\ p.unit = o.unit
        /\ p.value = o.value /\ p.manifest = o.manifest /\ p.since = o.since
        /\ p.inputs = o.inputs
    BY <1>1 DEF Shaped
  <2> HIDE DEF p
  <2>3. SinceInv(p)
    BY <1>1, <2>2 DEF SinceInv
  <2>4. PrintsInv(p)
    BY <1>1, <2>2 DEF PrintsInv, PrintOf
  <2>5. DraftInv(p) /\ IncludedInv(p) /\ VerifyInv(p)
    BY <1>1, <2>2 DEF DraftInv, IncludedInv, VerifyInv, Drafting, Complete
  <2>6. ProcessInv(p)
    BY <1>1, <2>2, <2>3, <2>4, <2>5 DEF ProcessInv, Running, Steps
  <2>7. \A s \in Runs : Agrees(run[s], p)
    BY <1>1, <2>2 DEF Agrees
  <2>8. ~ Holding(p)
    BY <2>2 DEF Holding
  <2> QED
    BY <1>2, <2>1, <2>6, <2>7, <2>8, RunMoves
<1>4. ASSUME NEW e \in Found(o), run' = [run EXCEPT ![r].record = e, ![r].at = "verify"]
      PROVE  CacheInv'
  <2> DEFINE p == [o EXCEPT !.record = e, !.at = "verify"]
  <2>1. run' = [run EXCEPT ![r] = p]
    BY <1>4 DEF CacheInv, RunsInv
  <2>2. /\ Shaped(p) /\ p.at = "verify" /\ p.key = o.key /\ p.unit = o.unit
        /\ p.value = o.value /\ p.manifest = o.manifest /\ p.since = o.since
        /\ p.inputs = o.inputs /\ p.record = e
    BY <1>1 DEF Shaped
  <2> HIDE DEF p
  <2>3. SinceInv(p)
    BY <1>1, <2>2 DEF SinceInv
  <2>4. PrintsInv(p)
    BY <1>1, <2>2 DEF PrintsInv, PrintOf
  <2>5. DraftInv(p) /\ IncludedInv(p)
    BY <1>1, <2>2 DEF DraftInv, IncludedInv, Drafting, Complete
  <2>6. e \in records[o.unit] /\ e.key = o.key
    BY <1>4 DEF Found
  <2>7. RecordInv(o.unit, e) /\ Agrees(o, e)
    BY <1>1, <2>6 DEF CacheInv, RecordsInv, AgreementInv
  <2>8. Agrees(p, e)
    BY <1>1, <2>2, <2>7 DEF Agrees, PrintOf
  <2>9. VerifyInv(p)
    BY <2>2, <2>6, <2>7, <2>8 DEF VerifyInv
  <2>10. ProcessInv(p)
    BY <1>1, <2>2, <2>3, <2>4, <2>5, <2>9 DEF ProcessInv, Running, Steps
  <2>11. ~ Holding(p) /\ ~ Drafting(p)
    BY <2>2 DEF Holding, Drafting, Complete
  <2> QED
    BY <1>2, <2>1, <2>10, <2>11, RunMoves
<1> QED
  BY <1>3, <1>4 DEF ReadRecord

-----------------------------------------------------------------------------
(* A run that is through with a unit holds what was there since it began.  *)
LEMMA FinishedFine ==
  ASSUME CacheInv, NEW r \in Runs, Running(run[r]), NEW value, NEW from,
         DOMAIN value = Reads(run[r].unit),
         \A f \in DOMAIN value : (run[r].unit = "manifest" => f \notin raced)
                                 => value[f] \in run[r].since[f]
  PROVE  LET p == Finished(run[r], value, from)
         IN  ProcessInv(p) /\ ~ Holding(p) /\ ~ Drafting(p)
<1> DEFINE o == run[r]
           p == Finished(o, value, from)
<1>1. o.unit \in Units /\ Shaped(o) /\ SinceInv(o)
  BY RunFacts
<1>2. DOMAIN << >> = {}
  OBVIOUS
<1>3. CASE o.unit = "manifest"
  <2>1. /\ Shaped(p) /\ p.at = "key" /\ p.unit = "scan" /\ p.manifest = value /\ p.value = << >>
        /\ p.since = o.since
    BY <1>1, <1>3 DEF Finished, Shaped
  <2> HIDE DEF p
  <2>2. SinceInv(p)
    BY <1>1, <1>2, <1>3, <2>1 DEF SinceInv, Reads
  <2> QED
    BY <1>2, <2>1, <2>2 DEF p, ProcessInv, Running, Keyed, Steps, Units, DraftInv, Drafting,
                            Complete, IncludedInv, VerifyInv, Holding
<1>4. CASE o.unit = "scan"
  <2>1. /\ Shaped(p) /\ p.at = "done" /\ p.unit = "scan" /\ p.manifest = o.manifest
        /\ p.value = value /\ p.since = o.since
    BY <1>1, <1>4 DEF Finished, Shaped
  <2> HIDE DEF p
  <2>2. SinceInv(p)
    BY <1>1, <1>4, <2>1 DEF SinceInv
  <2> QED
    BY <2>1, <2>2 DEF p, ProcessInv, Running, Keyed, Steps, Units, DraftInv, Drafting, Complete,
                      IncludedInv, VerifyInv, Holding
<1> QED
  BY <1>1, <1>3, <1>4 DEF Units

LEMMA VerifyKeeps == ASSUME CacheInv, NEW r \in Runs, Verify(r) PROVE CacheInv'
<1> DEFINE o == run[r]
           e == o.record
<1>1. /\ o.at = "verify" /\ Running(o) /\ Keyed(o) /\ SinceInv(o) /\ DOMAIN o.value = {}
      /\ PrintsInv(o) /\ o.unit \in Units /\ Shaped(o)
      /\ RecordInv(o.unit, e) /\ e.key = o.key /\ Agrees(o, e)
  BY RunFacts DEF Verify, ProcessInv, DraftInv, Running, Drafting, Complete, Keyed, VerifyInv
<1>2. UNCHANGED <<world, records, raced>>
  BY DEF Verify
<1>3. CASE e.inputs = CurrentInputs(o)
  <2>1. run' = [run EXCEPT ![r] = Finished(o, e.value, e.from)]
    BY <1>3 DEF Verify
  <2>2. ASSUME NEW f \in DOMAIN e.value, o.unit = "manifest" => f \notin raced
        PROVE  e.value[f] \in o.since[f]
    <3>1. f \in Reads(o.unit) /\ f \in Files
      BY <1>1, FileSets DEF RecordInv
    <3>2. CASE f \in Checked(o.unit)
      <4>1. PrintOf(e, f) = PrintOf(o, f)
        BY <1>1, <1>3, <3>2 DEF PrintOf, CurrentInputs, Checked
      <4> QED
        BY <1>1, <2>2, <3>2, <4>1 DEF Agrees
    <3>3. CASE f \notin Checked(o.unit)
      <4>1. o.unit = "manifest" /\ f \in Included \ raced
        BY <1>1, <2>2, <3>1, <3>3, FileSets DEF Reads, ManifestFiles, Checked, Units
      <4>2. e.inputs[f] = Fingerprint(f)
        BY <1>3, <2>2, <4>1 DEF CurrentInputs, ManifestInputs
      <4>3. Fits(e.inputs[f], fs[f]) /\ e.inputs[f] \in Fingerprints
        BY <3>1, <4>2, PrintTaken DEF CacheInv
      <4>4. Tells(f, e.inputs[f], e.value[f])
        BY <1>1, <4>1 DEF RecordInv
      <4> QED
        BY <1>1, <3>1, <4>3, <4>4, FreshPrintAgrees
    <3> QED
      BY <3>2, <3>3
  <2>3. DOMAIN e.value = Reads(o.unit)
    BY <1>1 DEF RecordInv
  <2> DEFINE p == Finished(o, e.value, e.from)
  <2>4. ProcessInv(p) /\ ~ Holding(p) /\ ~ Drafting(p)
    BY <1>1, <2>2, <2>3, FinishedFine
  <2> HIDE DEF p
  <2>5. run' = [run EXCEPT ![r] = p]
    BY <2>1 DEF p
  <2> QED
    BY <1>2, <2>4, <2>5, RunMoves
<1>4. CASE e.inputs # CurrentInputs(o)
  <2> DEFINE p == [o EXCEPT !.record = None, !.at = "extract"]
  <2>1. run' = [run EXCEPT ![r] = p]
    BY <1>4 DEF Verify
  <2>2. /\ Shaped(p) /\ p.at = "extract" /\ p.key = o.key /\ p.unit = o.unit
        /\ p.value = o.value /\ p.manifest = o.manifest /\ p.since = o.since
        /\ p.inputs = o.inputs
    BY <1>1 DEF Shaped
  <2> HIDE DEF p
  <2>3. SinceInv(p)
    BY <1>1, <2>2 DEF SinceInv
  <2>4. PrintsInv(p)
    BY <1>1, <2>2 DEF PrintsInv, PrintOf
  <2>5. DraftInv(p) /\ IncludedInv(p) /\ VerifyInv(p)
    BY <1>1, <2>2 DEF DraftInv, IncludedInv, VerifyInv, Drafting, Complete
  <2>6. ProcessInv(p)
    BY <1>1, <2>2, <2>3, <2>4, <2>5 DEF ProcessInv, Running, Steps
  <2>7. \A s \in Runs : Agrees(run[s], p)
    BY <1>1, <2>2 DEF Agrees
  <2>8. ~ Holding(p)
    BY <2>2 DEF Holding
  <2> QED
    BY <1>2, <2>1, <2>6, <2>7, <2>8, RunMoves
<1> QED
  BY <1>3, <1>4

-----------------------------------------------------------------------------
LEMMA ExtractKeeps ==
  ASSUME CacheInv, NEW r \in Runs, NEW f \in Files, Extract(r, f)
  PROVE  CacheInv'
<1> DEFINE o == run[r]
           value == [g \in DOMAIN o.value \cup {f} |->
                       IF g = f THEN fs[f].version ELSE o.value[g]]
           at == IF Unread(o) # {f} THEN o.at
                 ELSE IF o.unit = "manifest" THEN "inputs" ELSE "write"
           p == [o EXCEPT !.value = value, !.at = at]
<1>1. /\ o.at = "extract" /\ f \in Unread(o) /\ Running(o) /\ Keyed(o) /\ Drafting(o)
      /\ SinceInv(o) /\ PrintsInv(o) /\ DraftInv(o) /\ IncludedInv(o)
      /\ o.unit \in Units /\ Shaped(o)
  BY RunFacts DEF Extract, ProcessInv, Running, Drafting, Keyed
<1>2. UNCHANGED <<world, records, raced>> /\ run' = [run EXCEPT ![r] = p]
  BY <1>1 DEF Extract, Shaped, CacheInv, RunsInv
<1>3. /\ Shaped(p) /\ p.at = at /\ p.key = o.key /\ p.unit = o.unit /\ p.value = value
      /\ p.manifest = o.manifest /\ p.since = o.since /\ p.inputs = o.inputs
  BY <1>1 DEF Shaped
<1>4. /\ DOMAIN value = DOMAIN o.value \cup {f} /\ value[f] = fs[f].version
      /\ \A g \in DOMAIN o.value : g # f => value[g] = o.value[g]
  OBVIOUS
<1>5. f \in Reads(o.unit) /\ f \notin DOMAIN o.value
  BY <1>1 DEF Unread
<1>6. at \in {"extract", "inputs", "write"} /\ (at = "inputs" => o.unit = "manifest")
  BY <1>1
<1>7. at = "write" => o.unit = "scan"
  BY <1>1 DEF Units
<1>8. at # "extract" => DOMAIN value = Reads(o.unit)
  <2>1. at # "extract" => Unread(o) = {f}
    BY <1>1
  <2> QED
    BY <1>1, <1>4, <2>1 DEF Unread, SinceInv
<1> HIDE DEF p, value, at
<1>9. SinceInv(p)
  BY <1>1, <1>3, <1>4, <1>5 DEF SinceInv
<1>10. \A g : PrintOf(p, g) = PrintOf(o, g)
  BY <1>3 DEF PrintOf
<1>11. PrintsInv(p)
  BY <1>1, <1>3, <1>10 DEF PrintsInv
<1>12. DraftInv(p)
  <2>1. ASSUME NEW g \in Checked(o.unit) \cap DOMAIN value
        PROVE  Tells(g, PrintOf(p, g), value[g])
    <3>1. CASE g = f
      <4>1. IsOld(g, PrintOf(p, g))
        BY <1>1, <1>10, <2>1 DEF PrintsInv
      <4> QED
        BY <1>4, <3>1, <4>1 DEF Tells
    <3>2. CASE g # f
      BY <1>1, <1>4, <1>10, <2>1, <3>2 DEF DraftInv
    <3> QED
      BY <3>1, <3>2
  <2>2. Complete(p) => at # "extract"
    BY <1>3, <1>6 DEF Complete
  <2>3. Drafting(p)
    BY <1>3, <1>6 DEF Drafting, Complete
  <2> QED
    BY <1>3, <1>8, <2>1, <2>2, <2>3 DEF DraftInv
<1>13. IncludedInv(p)
  <2>1. ASSUME o.unit = "manifest", NEW g \in (Included \cap DOMAIN value) \ raced
        PROVE  value[g] = fs[g].version
    BY <1>1, <1>4, <2>1 DEF IncludedInv
  <2> QED
    BY <1>3, <1>6, <1>7, <2>1 DEF IncludedInv, Units
<1>14. ProcessInv(p)
  BY <1>1, <1>3, <1>6, <1>9, <1>11, <1>12, <1>13 DEF ProcessInv, Running, Steps, VerifyInv
<1>15. ASSUME NEW s \in Runs \ {r}, Holding(run[s]), run[s].unit = p.unit
       PROVE  Agrees(run[s], p)
  <2>1. Agrees(run[s], o)
    BY <1>1, <1>3, <1>15 DEF CacheInv, AgreementInv
  <2>2. Running(run[s]) /\ fs[f].version \in run[s].since[f]
    BY <1>15, RunFacts DEF Holding, Running, SinceInv
  <2> QED
    BY <1>3, <1>4, <1>10, <1>15, <2>1, <2>2 DEF Agrees
<1>16. ~ Holding(p)
  BY <1>1, <1>3, <1>6 DEF Holding
<1> QED
  BY <1>2, <1>14, <1>15, <1>16, RunMoves

LEMMA TakeManifestInputsKeeps ==
  ASSUME CacheInv, NEW r \in Runs, TakeManifestInputs(r)
  PROVE  CacheInv'
<1> DEFINE o == run[r]
           p == [o EXCEPT !.inputs = ManifestInputs(o.value), !.at = "write"]
<1>1. /\ o.at = "inputs" /\ o.unit = "manifest" /\ Running(o) /\ Keyed(o) /\ Complete(o)
      /\ Drafting(o) /\ SinceInv(o) /\ PrintsInv(o) /\ DraftInv(o) /\ IncludedInv(o)
      /\ o.unit \in Units /\ Shaped(o)
  BY RunFacts DEF TakeManifestInputs, ProcessInv, Running, Drafting, Keyed, Complete
<1>2. UNCHANGED <<world, records, raced>> /\ run' = [run EXCEPT ![r] = p]
  BY DEF TakeManifestInputs
<1>3. /\ Shaped(p) /\ p.at = "write" /\ p.key = o.key /\ p.unit = o.unit /\ p.value = o.value
      /\ p.manifest = o.manifest /\ p.since = o.since /\ p.inputs = ManifestInputs(o.value)
  BY <1>1 DEF Shaped
<1> HIDE DEF p
<1>4. \A f \in Checked(o.unit) : f \in Candidates /\ PrintOf(p, f) = PrintOf(o, f)
  BY <1>1, <1>3 DEF PrintOf, Checked
<1>5. SinceInv(p)
  BY <1>1, <1>3 DEF SinceInv
<1>6. PrintsInv(p)
  BY <1>1, <1>3, <1>4 DEF PrintsInv
<1>7. DraftInv(p)
  BY <1>1, <1>3, <1>4 DEF DraftInv, Drafting, Complete
<1>8. IncludedInv(p)
  <2>1. ASSUME NEW f \in Included \ raced
        PROVE  p.inputs[f] \in Fingerprints /\ Tells(f, p.inputs[f], p.value[f])
    <3>1. f \in Files /\ f \in DOMAIN o.value
      BY <1>1, FileSets DEF DraftInv
    <3>2. p.inputs[f] = Fingerprint(f)
      BY <1>3, <3>1 DEF ManifestInputs
    <3>3. p.value[f] = fs[f].version
      BY <1>1, <1>3, <2>1, <3>1 DEF IncludedInv
    <3> QED
      BY <3>1, <3>2, <3>3, PrintTaken DEF Tells, CacheInv
  <2> QED
    BY <1>3, <2>1 DEF IncludedInv
<1>9. ProcessInv(p)
  BY <1>1, <1>3, <1>5, <1>6, <1>7, <1>8 DEF ProcessInv, Running, Steps, VerifyInv
<1>10. ASSUME NEW s \in Runs \ {r}, Holding(run[s]), run[s].unit = p.unit
       PROVE  Agrees(run[s], p)
  <2>1. Agrees(run[s], o)
    BY <1>1, <1>3, <1>10 DEF CacheInv, AgreementInv
  <2> QED
    BY <1>1, <1>3, <1>4, <1>10, <2>1 DEF Agrees
<1>11. ~ Holding(p)
  BY <1>3 DEF Holding
<1> QED
  BY <1>2, <1>9, <1>10, <1>11, RunMoves

-----------------------------------------------------------------------------
LEMMA WriteRecordKeeps == ASSUME CacheInv, NEW r \in Runs, WriteRecord(r) PROVE CacheInv'
<1> DEFINE o == run[r]
           e == RecordOf(o)
           p == [o EXCEPT !.at = "sweep"]
<1>1. /\ o.at = "write" /\ Running(o) /\ Keyed(o) /\ Complete(o) /\ Drafting(o)
      /\ SinceInv(o) /\ PrintsInv(o) /\ DraftInv(o) /\ IncludedInv(o)
      /\ o.unit \in Units /\ Shaped(o)
  BY RunFacts DEF WriteRecord, ProcessInv, Running, Drafting, Keyed, Complete
<1>2. /\ UNCHANGED <<world, raced>> /\ run' = [run EXCEPT ![r] = p]
      /\ records' = [records EXCEPT ![o.unit] = {x \in @ : x.key # o.key} \cup {e}]
  BY DEF WriteRecord
<1>3. /\ Shaped(p) /\ p.at = "sweep" /\ p.key = o.key /\ p.unit = o.unit /\ p.value = o.value
      /\ p.manifest = o.manifest /\ p.since = o.since /\ p.inputs = o.inputs
  BY <1>1 DEF Shaped
<1>4. e.key = o.key /\ e.value = o.value /\ e.inputs = o.inputs
  BY DEF RecordOf
<1>5. \A f : PrintOf(p, f) = PrintOf(o, f) /\ PrintOf(e, f) = PrintOf(o, f)
  BY <1>3, <1>4 DEF PrintOf
<1> HIDE DEF p, e
<1>6. ProcessInv(p)
  <2>1. SinceInv(p)
    BY <1>1, <1>3 DEF SinceInv
  <2>2. PrintsInv(p)
    BY <1>1, <1>3, <1>5 DEF PrintsInv
  <2>3. DraftInv(p) /\ IncludedInv(p) /\ VerifyInv(p)
    BY <1>1, <1>3, <1>5 DEF DraftInv, Drafting, Complete, IncludedInv, VerifyInv
  <2> QED
    BY <1>1, <1>3, <2>1, <2>2, <2>3 DEF ProcessInv, Running, Steps
<1>7. RecordInv(o.unit, e)
  <2>1. DOMAIN e.value = Reads(o.unit)
    BY <1>1, <1>4 DEF DraftInv
  <2>2. \A f \in Reads(o.unit) : e.value[f] \in Nat
    <3>1. \A f \in Reads(o.unit) : f \in Files /\ e.value[f] \in o.since[f]
      BY <1>1, <1>4, <2>1, FileSets DEF SinceInv
    <3> QED
      BY <1>1, <3>1 DEF SinceInv
  <2>3. ASSUME NEW f \in Checked(o.unit)
        PROVE  PrintOf(e, f) \in Fingerprints /\ Tells(f, PrintOf(e, f), e.value[f])
    <3>1. f \in DOMAIN o.value
      BY <1>1, FileSets DEF DraftInv
    <3> QED
      BY <1>1, <1>4, <1>5, <3>1 DEF PrintsInv, DraftInv
  <2> QED
    BY <1>1, <1>4, <2>1, <2>2, <2>3 DEF RecordInv, IncludedInv
<1>8. ASSUME NEW s \in Runs \ {r}, Holding(run[s]), run[s].unit = o.unit
      PROVE  Agrees(run[s], e) /\ Agrees(run[s], p)
  <2>1. Agrees(run[s], o)
    BY <1>1, <1>8 DEF CacheInv, AgreementInv
  <2> QED
    BY <1>3, <1>4, <1>5, <2>1 DEF Agrees
<1>9. records' \in [Units -> {records'[u] : u \in Units}]
  BY <1>2 DEF CacheInv, RecordsInv
<1>10. \A u \in Units : \A x \in records'[u] :
          \/ x \in records[u]
          \/ /\ RecordInv(u, x)
             /\ \A s \in Runs \ {r} : Holding(run[s]) /\ run[s].unit = u => Agrees(run[s], x)
  BY <1>1, <1>2, <1>7, <1>8 DEF CacheInv, RecordsInv
<1>11. ~ Holding(p)
  BY <1>3 DEF Holding
<1> QED
  BY <1>2, <1>3, <1>6, <1>8, <1>9, <1>10, <1>11, OneRunMoves

LEMMA SweepKeeps == ASSUME CacheInv, NEW r \in Runs, Sweep(r) PROVE CacheInv'
<1> DEFINE o == run[r]
           p == Finished(o, o.value, o.manifest)
<1>1. /\ o.at = "sweep" /\ Running(o) /\ Complete(o) /\ SinceInv(o) /\ DraftInv(o)
      /\ o.unit \in Units
  BY RunFacts DEF Sweep, ProcessInv, Running, Complete
<1>2. /\ UNCHANGED <<world, raced>> /\ run' = [run EXCEPT ![r] = p]
      /\ records' = [records EXCEPT ![o.unit] = {e \in @ : e.key = o.key}]
  BY DEF Sweep
<1>3. ProcessInv(p) /\ ~ Holding(p) /\ ~ Drafting(p)
  <2>1. DOMAIN o.value = Reads(o.unit)
    BY <1>1 DEF DraftInv
  <2>2. \A f \in DOMAIN o.value : o.value[f] \in o.since[f]
    BY <1>1 DEF SinceInv
  <2> QED
    BY <1>1, <2>1, <2>2, FinishedFine
<1> HIDE DEF p
<1>4. records' \in [Units -> {records'[u] : u \in Units}]
  BY <1>2 DEF CacheInv, RecordsInv
<1>5. \A u \in Units : \A e \in records'[u] : e \in records[u]
  BY <1>1, <1>2 DEF CacheInv, RecordsInv
<1> QED
  BY <1>2, <1>3, <1>4, <1>5, OneRunMoves

-----------------------------------------------------------------------------
(* The runs look on while the world changes.                               *)
LEMMA WorldMoves ==
  ASSUME CacheInv, WorldInv', Kept, raced \subseteq raced', records' = records,
         run' \in [Runs -> {run'[s] : s \in Runs}],
         \A s \in Runs :
           /\ Sees(run[s], run'[s])
           /\ Running(run[s]) => \A f \in Files : fs'[f].version \in run'[s].since[f]
           /\ \A f \in Included : Racing(run[s], f) /\ f \notin raced' => fs'[f] = fs[f]
  PROVE  CacheInv'
<1>1. RunsInv'
  <2>1. ASSUME NEW s \in Runs PROVE \E q : q = run'[s] /\ ProcessInv(q)'
    <3> DEFINE q == run'[s]
    <3>1. /\ Sees(run[s], q)
          /\ Running(run[s]) => \A f \in Files : fs'[f].version \in q.since[f]
          /\ \A f \in Included : Racing(run[s], f) /\ f \notin raced' => fs'[f] = fs[f]
      OBVIOUS
    <3>2. ProcessInv(run[s])
      BY RunFacts
    <3>3. \A z : z = q => ProcessInv(z)'
      <4> TAKE z
      <4> HAVE z = q
      <4>1. /\ Sees(run[s], z)
            /\ Running(run[s]) => \A f \in Files : fs'[f].version \in z.since[f]
        BY <3>1
      <4> QED
        BY <3>1, <3>2, <4>1, ProcessKept
    <3> QED
      BY <3>3
  <2> QED
    BY <2>1, RunsInvNext
<1>2. RecordsInv'
  <2>1. ASSUME NEW u \in Units, NEW e \in records'[u] PROVE RecordInv(u, e)'
    <3>1. RecordInv(u, e)
      BY DEF CacheInv, RecordsInv
    <3> QED
      BY <3>1, RecordKept
  <2>2. records' \in [Units -> {records'[u] : u \in Units}]
    BY DEF CacheInv, RecordsInv
  <2> QED
    BY <2>1, <2>2, RecordsInvNext
<1>3. AgreementInv'
  <2>1. \A s \in Runs : /\ Holding(run'[s]) => Holding(run[s]) /\ Running(run[s])
                        /\ Drafting(run'[s]) => Drafting(run[s])
                        /\ run'[s].unit = run[s].unit /\ run[s].unit \in Units
    BY RunFacts DEF Sees, Holding, Running, Drafting, Complete
  <2>2. ASSUME NEW s \in Runs, Holding(run'[s]), NEW e \in records'[run'[s].unit]
        PROVE  Agrees(run'[s], e)
    <3>1. Agrees(run[s], e)
      BY <2>1, <2>2 DEF CacheInv, AgreementInv
    <3> QED
      BY <2>1, <2>2, <3>1, SeesAgrees
  <2>3. ASSUME NEW s \in Runs, Holding(run'[s]),
               NEW t \in Runs, Drafting(run'[t]), run'[t].unit = run'[s].unit
        PROVE  Agrees(run'[s], run'[t])
    <3>1. Agrees(run[s], run[t])
      BY <2>1, <2>3 DEF CacheInv, AgreementInv
    <3>2. /\ run'[t].key = run[t].key /\ run'[t].inputs = run[t].inputs
          /\ run'[t].value = run[t].value
      BY DEF Sees
    <3> QED
      BY <2>1, <2>3, <3>1, <3>2, SeesAgrees
  <2> QED
    BY <2>2, <2>3, AgreementNext
<1> QED
  BY <1>1, <1>2, <1>3 DEF CacheInv

LEMMA SeesItself == ASSUME CacheInv, NEW s \in Runs PROVE Sees(run[s], run[s])
BY RunFacts DEF Sees, SinceInv

LEMMA PassPreserves == ASSUME CacheInv, Pass PROVE CacheInv'
<1>1. WorldInv' /\ Kept
  BY PassKeeps DEF CacheInv
<1>2. UNCHANGED <<fs, records, run, raced>>
  BY DEF Pass
<1>3. run' \in [Runs -> {run'[s] : s \in Runs}]
  BY <1>2 DEF CacheInv, RunsInv
<1>4. ASSUME NEW s \in Runs
      PROVE  /\ Sees(run[s], run'[s])
             /\ Running(run[s]) => \A f \in Files : fs'[f].version \in run'[s].since[f]
             /\ \A f \in Included : Racing(run[s], f) /\ f \notin raced' => fs'[f] = fs[f]
  BY <1>2, SeesItself, RunFacts DEF SinceInv
<1> QED
  BY <1>1, <1>2, <1>3, <1>4, WorldMoves

LEMMA ChangePreserves ==
  ASSUME CacheInv, NEW f \in Files, NEW file, Change(f, file), Changes(f, file)
  PROVE  CacheInv'
<1>1. WorldInv' /\ Kept
  BY ChangeKeeps DEF CacheInv
<1>2. /\ fs' = [fs EXCEPT ![f] = file] /\ records' = records
      /\ run' = [s \in Runs |-> IF run[s].at \in {"idle", "failed"} THEN run[s]
                                ELSE [run[s] EXCEPT !.since[f] = @ \cup {file.version}]]
      /\ raced' = raced \cup {g \in Included \cap {f} : \E s \in Runs : Racing(run[s], g)}
  BY DEF Change
<1>3. file.version \in Nat /\ fs'[f] = file /\ \A g \in Files : g # f => fs'[g] = fs[g]
  BY <1>2 DEF Changes, File, CacheInv, WorldInv
<1>4. run' \in [Runs -> {run'[s] : s \in Runs}] /\ raced \subseteq raced'
  BY <1>2
<1>5. ASSUME NEW s \in Runs
      PROVE  /\ Sees(run[s], run'[s])
             /\ Running(run[s]) => \A g \in Files : fs'[g].version \in run'[s].since[g]
             /\ \A g \in Included : Racing(run[s], g) /\ g \notin raced' => fs'[g] = fs[g]
  <2>1. ASSUME NEW g \in Included, Racing(run[s], g), g \notin raced' PROVE fs'[g] = fs[g]
    <3>1. g \in Files /\ g # f
      BY <1>2, <2>1, FileSets DEF Files, ManifestFiles
    <3> QED
      BY <1>3, <3>1
  <2>2. CASE ~ Running(run[s])
    <3>1. run'[s] = run[s]
      BY <1>2, <2>2 DEF Running
    <3> QED
      BY <2>1, <2>2, <3>1, SeesItself
  <2>3. CASE Running(run[s])
    <3>1. /\ Shaped(run[s]) /\ run[s].since \in [Files -> SUBSET Nat]
          /\ \A g \in Files : fs[g].version \in run[s].since[g]
      BY <2>3, RunFacts DEF SinceInv
    <3> DEFINE o == run[s]
               q == [o EXCEPT !.since[f] = @ \cup {file.version}]
    <3>2. run'[s] = q
      BY <1>2, <2>3 DEF Running
    <3>3. /\ Shaped(q) /\ q.at = o.at /\ q.unit = o.unit /\ q.key = o.key
          /\ q.inputs = o.inputs /\ q.record = o.record /\ q.value = o.value
          /\ q.manifest = o.manifest
          /\ q.since = [o.since EXCEPT ![f] = @ \cup {file.version}]
      BY <3>1 DEF Shaped
    <3> HIDE DEF q
    <3>4. /\ q.since \in [Files -> SUBSET Nat] /\ file.version \in q.since[f]
          /\ \A g \in Files : o.since[g] \subseteq q.since[g]
      BY <1>3, <3>1, <3>3
    <3>5. \A g \in Files : fs'[g].version \in q.since[g]
      BY <1>3, <3>1, <3>4
    <3> QED
      BY <2>1, <3>2, <3>3, <3>4, <3>5 DEF Sees
  <2> QED
    BY <2>2, <2>3
<1> QED
  BY <1>1, <1>2, <1>4, <1>5, WorldMoves

LEMMA CorruptPreserves == ASSUME CacheInv, NEW u \in Units, Corrupt(u) PROVE CacheInv'
<1>1. /\ UNCHANGED <<world, raced>> /\ run' = [r \in Runs |-> Gone]
      /\ records' = [records EXCEPT ![u] = {}]
  BY DEF Corrupt
<1>2. WorldInv' /\ Kept
  BY <1>1, SameWorldKeeps DEF CacheInv
<1>3. RecordsInv'
  <2>1. records' \in [Units -> {records'[v] : v \in Units}]
    BY <1>1 DEF CacheInv, RecordsInv
  <2>2. ASSUME NEW v \in Units, NEW e \in records'[v] PROVE RecordInv(v, e)'
    <3>1. RecordInv(v, e)
      BY <1>1 DEF CacheInv, RecordsInv
    <3> QED
      BY <1>1, <1>2, <3>1, RecordKept
  <2> QED
    BY <2>1, <2>2, RecordsInvNext
<1>4. RunsInv'
  <2>1. run' \in [Runs -> {run'[r] : r \in Runs}]
    BY <1>1
  <2>2. ProcessInv(Gone)'
    BY GoneShaped DEF Gone, ProcessInv, Running, Keyed, Steps, Units, DraftInv, Drafting,
                      Complete, IncludedInv, VerifyInv
  <2>3. \A s \in Runs : \E p : p = run'[s] /\ ProcessInv(p)'
    BY <1>1, <2>2
  <2> QED
    BY <2>1, <2>3, RunsInvNext
<1>5. AgreementInv'
  <2>1. \A r \in Runs : ~ Holding(run'[r])
    BY <1>1 DEF Holding, Gone
  <2> QED
    BY <2>1, AgreementNext
<1> QED
  BY <1>2, <1>3, <1>4, <1>5 DEF CacheInv

-----------------------------------------------------------------------------
LEMMA WorkPreserves == ASSUME CacheInv, NEW r \in Runs, Work(r) PROVE CacheInv'
BY BeginKeeps, TakeKeyKeeps, TakeScanInputsKeeps, ReadRecordKeeps, VerifyKeeps,
   TakeManifestInputsKeeps, FailKeeps, WriteRecordKeeps, SweepKeeps, LeaveKeeps, ExtractKeeps
   DEF Work

LEMMA StutterPreserves == ASSUME CacheInv, UNCHANGED vars PROVE CacheInv'
<1>1. UNCHANGED <<world, records, run, raced>> /\ UNCHANGED fs
  BY DEF vars, world
<1>2. WorldInv' /\ Kept
  BY <1>1, SameWorldKeeps DEF CacheInv
<1>3. run' \in [Runs -> {run'[s] : s \in Runs}]
  BY <1>1 DEF CacheInv, RunsInv
<1>4. ASSUME NEW s \in Runs
      PROVE  /\ Sees(run[s], run'[s])
             /\ Running(run[s]) => \A f \in Files : fs'[f].version \in run'[s].since[f]
             /\ \A f \in Included : Racing(run[s], f) /\ f \notin raced' => fs'[f] = fs[f]
  BY <1>1, SeesItself, RunFacts DEF SinceInv
<1> QED
  BY <1>1, <1>2, <1>3, <1>4, WorldMoves

LEMMA NextPreserves == ASSUME CacheInv, [Next]_vars PROVE CacheInv'
<1>1. ASSUME NEW r \in Runs, Work(r) PROVE CacheInv'
  BY <1>1, WorkPreserves
<1>2. ASSUME NEW f \in Files, Edit(f) PROVE CacheInv'
  BY <1>2, EditChanges, ChangePreserves DEF CacheInv
<1>3. ASSUME NEW f \in Files, Remove(f) PROVE CacheInv'
  BY <1>3, RemoveChanges, ChangePreserves DEF CacheInv
<1>4. CASE Pass
  BY <1>4, PassPreserves
<1>5. ASSUME NEW u \in Units, Corrupt(u) PROVE CacheInv'
  BY <1>5, CorruptPreserves
<1>6. CASE UNCHANGED vars
  BY <1>6, StutterPreserves
<1> QED
  BY <1>1, <1>2, <1>3, <1>4, <1>5, <1>6 DEF Next

LEMMA CacheInvHolds == Spec => []CacheInv
<1>1. Init => CacheInv
  BY InitHolds
<1>2. CacheInv /\ [Next]_vars => CacheInv'
  BY NextPreserves
<1> QED
  BY <1>1, <1>2, PTL DEF Spec

(* The manifest a run goes on with, whether from the cache or extracted,   *)
(* has of each file a version the file had while the run was running: the  *)
(* promise of extract_manifest_with_cache and tests/prop_cache_warm.rs.    *)
THEOREM ManifestNeverOutdated == Spec => []ManifestIsCurrent
<1>1. CacheInv => ManifestIsCurrent
  <2> SUFFICES ASSUME CacheInv, NEW r \in Runs, NEW f \in DOMAIN run[r].manifest \ raced
               PROVE  run[r].manifest[f] \in run[r].since[f]
    BY DEF ManifestIsCurrent
  <2> QED
    BY DEF CacheInv, RunsInv, ProcessInv, SinceInv
<1> QED
  BY <1>1, CacheInvHolds, PTL

(* The same of the scan of the configuration files (cached_config_scan),   *)
(* whose inputs are fingerprinted before the files are read.               *)
THEOREM ScanNeverOutdated == Spec => []ScanIsCurrent
<1>1. CacheInv => ScanIsCurrent
  BY RunFacts DEF ScanIsCurrent, SinceInv, Running
<1> QED
  BY <1>1, CacheInvHolds, PTL

----------------------------------------------------------------------------
(***************************************************************************)
(* RequirementsFiles, for any names, files and include lines.              *)
(*                                                                         *)
(* The parser walks the include graph depth first, with the stack of open  *)
(* files and no set of files that are done with.  FrameInv says that each  *)
(* open file is taken in up to its line, and whole the files that the      *)
(* lines before it include, except for the one that is open above it.      *)
(* LinkInv and ChainInv say that each open file leads to all above it, so  *)
(* a file that is met on the stack again closes a cycle, and RootInv that  *)
(* nothing is taken in for what the last include on the way to it does not *)
(* make of it.  When a fixed file ends, it is whole: SourcesInv keeps this *)
(* of all that have ended, and that an error ends the extraction for a     *)
(* fault that a fixed file leads to.                                       *)
(*                                                                         *)
(* What a file leads to is the least set closed under the include lines,   *)
(* and Sound passes from the included files to the file: it cannot be on a *)
(* cycle when none of those it includes is.                                *)
(***************************************************************************)
Options == {"-r", "-c"}

Modes == {"dependencies", "constraints"}

ModeOf(option) == IF option = "-c" THEN "constraints" ELSE "dependencies"

Last(f) == Len(disk[f].lines)

OptionAt(f, k) == disk[f].lines[k].option

LedAt(f, k) == Leads(disk[f].lines[k])

Below(f, option) == Led(ReachedFrom({f}), {option})

(* Nothing a file leads to is at fault.                                    *)
Sound(f) ==
  \A g \in ReachedFrom({f}) : ~ Cyclic(g) /\ ~ LeadsNowhere(g) /\ disk[g].is # "unreadable"

DiskOK == \A p \in Paths : IsState(disk[p])

(* The lines the file being parsed gave so far, by what they are taken for. *)
Got(m) == Names(IF m = "dependencies" THEN parsed.declared ELSE parsed.constraints)

(* All a file says has been taken in, and all its includes say.            *)
Given(f, m) ==
  /\ Lines({f}) \subseteq Got(m)
  /\ Lines(Below(f, "-c")) \subseteq Got("constraints")
  /\ Lines(Below(f, "-r")) \subseteq Got("dependencies")

Whole(f, m) == Sound(f) /\ Given(f, m)

(* A line is taken in: a requirement, or the file that it includes.        *)
LineRead(f, k, m) ==
  /\ OptionAt(f, k) = "none" => <<f, k>> \in Got(m)
  /\ OptionAt(f, k) = "-r" => LedAt(f, k) # {}
  /\ OptionAt(f, k) \in Options => \A g \in LedAt(f, k) : Whole(g, ModeOf(OptionAt(f, k)))

IsAt(i, f, l, m) ==
  i \in 1 .. Len(frames) /\ frames[i].file = f /\ frames[i].line = l /\ frames[i].mode = m

(* A file on the stack is read up to its line, but for the include that    *)
(* led to the file above it.                                               *)
FrameInv ==
  \A i \in Nat, f \in Paths, l \in Nat, m \in Modes :
    IsAt(i, f, l, m) =>
      /\ disk[f].is # "unreadable" /\ f \in parsed.read
      /\ l \in 1 .. Last(f) + 1
      /\ \A k \in 1 .. l - 1 : i = Len(frames) \/ k # l - 1 => LineRead(f, k, m)

(* Of two files next to each other on the stack, the lower includes the    *)
(* upper in the line before the one it is at, and so as its mode says.     *)
LinkInv ==
  \A i \in Nat, f \in Paths, l \in Nat, m \in Modes, g \in Paths, n \in Modes :
    IsAt(i, f, l, m) /\ (\E k \in Nat : IsAt(i + 1, g, k, n)) =>
      /\ l > 1 /\ OptionAt(f, l - 1) \in Options
      /\ g \in LedAt(f, l - 1) /\ n = ModeOf(OptionAt(f, l - 1))

OnStackAt(i, f) == i \in 1 .. Len(frames) /\ frames[i].file = f

(* An open file leads to all above it.                                     *)
ChainInv ==
  \A i \in Nat, j \in Nat, f \in Paths, g \in Paths :
    i <= j /\ OnStackAt(i, f) /\ OnStackAt(j, g) => g \in ReachedFrom({f})

(* What the lines of a file below r are taken for.                         *)
Belongs(r, f, m) ==
  /\ f \in ReachedFrom({r})
  /\ m = "dependencies" => f \in {r} \cup Below(r, "-r")
  /\ m = "constraints" => f \in Below(r, "-c")

(* Something S leads to is at fault in the way that why names.             *)
Fault(why, S) ==
  /\ why = "cycle" => \E f \in ReachedFrom(S) : Cyclic(f)
  /\ why = "unreadable" => \E f \in ReachedFrom(S) : disk[f].is = "unreadable"
  /\ why \in {"missing", "outside"} => \E f \in ReachedFrom(S) : LeadsNowhere(f)

(* r is the root being read, or just read.                                 *)
Starts(r) == parsed.read # {} /\ next > 1 /\ r = Roots[next - 1]

RootInv ==
  \A r \in Paths :
    Starts(r) =>
      /\ IsFile(r)
      /\ \A i \in Nat, f \in Paths, l \in Nat, m \in Modes :
            IsAt(i, f, l, m) => Belongs(r, f, m) /\ (i = 1 => f = r /\ m = "dependencies")
      /\ Got("dependencies") \subseteq Lines({r} \cup Below(r, "-r"))
      /\ Got("constraints") \subseteq Lines(Below(r, "-c"))
      /\ frames = << >> /\ failed = "no" => Whole(r, "dependencies")
      /\ \A why : failed = why => Fault(why, {r})

(* Between two roots nothing is parsed, and an outcome comes only then.    *)
IdleInv ==
  /\ frames # << >> => parsed.read # {} /\ failed = "no"
  /\ parsed.read = {} => parsed = NothingParsed /\ failed = "no"
  /\ parsed.read # {} => outcome = "running" /\ next > 1
  /\ outcome = "done" => next > Len(Roots)
  /\ \A e \in Elements(parsed.declared) : e.file \in parsed.read

(* The i-th root is done with, and what it gave is in sources.             *)
Handled(i) ==
  outcome \in {"running", "done"} /\ i < next /\ (parsed.read # {} => i < next - 1)

Taken(f) ==
  /\ Sound(f)
  /\ Lines({f}) \subseteq Names(sources.declared)
  /\ Lines(Below(f, "-r")) \subseteq Names(sources.declared)
  /\ Lines(Below(f, "-c")) \subseteq Names(sources.constraints)

Declarable == RootFiles \cup Led(ReachedFrom(RootFiles), {"-r"})

SourcesInv ==
  /\ \A i \in 1 .. Len(Fixed) : Handled(i) /\ IsFile(Fixed[i]) => Taken(Fixed[i])
  /\ Names(sources.constraints) \subseteq Lines(Led(ReachedFrom(FixedFiles), {"-c"}))
  /\ Names(sources.declared) \subseteq Lines(Declarable) /\ sources.names \subseteq Lines(Declarable)
  /\ \A why : outcome = why => Fault(why, FixedFiles)

(* An entry is grouped by its file only when an extra file gave it.        *)
GroupedInv ==
  \A e \in Elements(sources.declared) :
    \/ e.context \in Contexts /\ e.file \in sources.read
    \/ e.context = e.file /\ ~ InFixed(next - 1)

Entry == [file : Paths, line : Nat, context : Contexts]

Frame == [file : Paths, line : Nat \ {0}, mode : Modes, context : Contexts]

RequirementsExtraction ==
  [declared : Seq(Entry), constraints : Seq(Entry), read : SUBSET Paths,
   missing : SUBSET Paths, skipped : BOOLEAN]

TypeInv ==
  /\ disk \in [Paths -> UNION {States[p] : p \in Paths}] /\ \A p \in Paths : disk[p] \in States[p]
  /\ next \in 1 .. Len(Roots) + 1
  /\ frames \in Seq(Frame)
  /\ parsed \in RequirementsExtraction
  /\ failed \in {"no", "cycle", "unreadable", "missing", "outside"}
  /\ sources.declared \in Seq([file : Paths, line : Nat, context : Contexts \cup Paths])
  /\ sources.constraints \in Seq(Entry)
  /\ sources = [declared |-> sources.declared, constraints |-> sources.constraints,
       names |-> sources.names, read |-> sources.read, missing |-> sources.missing,
       unwatched |-> sources.unwatched]
  /\ outcome \in {"running", "done", "cycle", "unreadable", "missing", "outside"}

ExtractInv ==
  TypeInv /\ IdleInv /\ FrameInv /\ LinkInv /\ ChainInv /\ RootInv /\ SourcesInv /\ GroupedInv

----------------------------------------------------------------------------
LEMMA ElementsConcat ==
  ASSUME NEW S, NEW s \in Seq(S), NEW t \in Seq(S)
  PROVE  Elements(s \o t) = Elements(s) \cup Elements(t)
<1>1. /\ Len(s \o t) = Len(s) + Len(t) /\ Len(s) \in Nat /\ Len(t) \in Nat
      /\ \A i \in 1 .. Len(s) : (s \o t)[i] = s[i]
      /\ \A i \in 1 .. Len(t) : (s \o t)[Len(s) + i] = t[i]
  OBVIOUS
<1> DEFINE u == s \o t
<1> HIDE DEF u
<1>2. /\ Len(u) = Len(s) + Len(t)
      /\ \A i \in 1 .. Len(s) : u[i] = s[i]
      /\ \A i \in 1 .. Len(t) : u[Len(s) + i] = t[i]
  BY <1>1 DEF u
<1>3. ASSUME NEW i \in 1 .. Len(u)
      PROVE  u[i] \in Elements(s) \cup Elements(t)
  <2>1. CASE i \in 1 .. Len(s)
    BY <1>2, <2>1 DEF Elements
  <2>2. CASE i \notin 1 .. Len(s)
    <3>1. i - Len(s) \in 1 .. Len(t) /\ Len(s) + (i - Len(s)) = i
      BY <1>1, <1>2, <2>2
    <3>2. u[i] = t[i - Len(s)]
      BY <1>2, <3>1
    <3> QED
      BY <3>1, <3>2 DEF Elements
  <2> QED
    BY <2>1, <2>2
<1>4. \A i \in 1 .. Len(s) : i \in 1 .. Len(u)
  BY <1>1, <1>2
<1>5. \A i \in 1 .. Len(t) : Len(s) + i \in 1 .. Len(u)
  BY <1>1, <1>2
<1>6. \A e \in Elements(u) : e \in Elements(s) \cup Elements(t)
  BY <1>3 DEF Elements
<1>7. \A e \in Elements(s) : e \in Elements(u)
  BY <1>2, <1>4 DEF Elements
<1>8. \A e \in Elements(t) : e \in Elements(u)
  BY <1>2, <1>5 DEF Elements
<1> QED
  BY <1>6, <1>7, <1>8 DEF u

LEMMA ElementsAppend ==
  ASSUME NEW S, NEW s \in Seq(S), NEW e \in S
  PROVE  Elements(Append(s, e)) = Elements(s) \cup {e}
<1>1. /\ Len(Append(s, e)) = Len(s) + 1 /\ Len(s) \in Nat
      /\ \A i \in 1 .. Len(s) : Append(s, e)[i] = s[i]
      /\ Append(s, e)[Len(s) + 1] = e
  OBVIOUS
<1>2. 1 .. Len(s) + 1 = (1 .. Len(s)) \cup {Len(s) + 1}
  BY <1>1
<1> QED
  BY <1>1, <1>2 DEF Elements

----------------------------------------------------------------------------
(* What the lines of a file are, and lead to.                              *)
LEMMA LineTypes ==
  ASSUME DiskOK, NEW f \in Paths
  PROVE  /\ disk[f].lines \in Seq(Line) /\ Last(f) \in Nat
         /\ disk[f].is \in {"absent", "outside", "unreadable", "undecodable", "text"}
         /\ disk[f].is # "text" => Last(f) = 0
         /\ \A k \in 1 .. Last(f) :
               /\ disk[f].lines[k] \in Line
               /\ OptionAt(f, k) \in {"none", "-r", "-c", "url"}
               /\ LedAt(f, k) \subseteq Paths
<1>1. /\ disk[f].lines \in Seq(Line)
      /\ disk[f].is \in {"absent", "outside", "unreadable", "undecodable", "text"}
      /\ disk[f].is # "text" => disk[f].lines = << >>
  <2>1. CASE \E is \in {"absent", "outside", "unreadable", "undecodable"} : disk[f] = NotText(is)
    <3>1. << >> \in Seq(Line)
      OBVIOUS
    <3> QED
      BY <2>1, <3>1 DEF NotText
  <2>2. CASE disk[f].is = "text" /\ disk[f].lines \in Seq(Line)
    BY <2>2
  <2> QED
    BY <2>1, <2>2 DEF DiskOK, IsState
<1>2. \A k \in 1 .. Last(f) : disk[f].lines[k] \in Line
  BY <1>1 DEF Last
<1>3. ASSUME NEW line \in Line PROVE Leads(line) \subseteq Paths
  <2>1. line.tries \in Seq(Paths)
    BY DEF Line
  <2>2. \A i \in 1 .. Len(line.tries) : line.tries[i] \in Paths
    BY <2>1
  <2> QED
    BY <2>2 DEF Leads
<1> QED
  BY <1>1, <1>2, <1>3 DEF Last, OptionAt, LedAt, Line

LEMMA LeadsIsOne ==
  ASSUME NEW line \in Line, NEW p \in Leads(line), NEW q \in Leads(line)
  PROVE  p = q
<1>1. Len(line.tries) \in Nat
  BY DEF Line
<1>2. PICK i \in 1 .. Len(line.tries) :
        /\ Within(line.tries[i]) /\ \A k \in 1 .. i - 1 : ~ Within(line.tries[k])
        /\ p = line.tries[i]
  BY DEF Leads
<1>3. PICK j \in 1 .. Len(line.tries) :
        /\ Within(line.tries[j]) /\ \A k \in 1 .. j - 1 : ~ Within(line.tries[k])
        /\ q = line.tries[j]
  BY DEF Leads
<1>4. ~ (i < j) /\ ~ (j < i)
  BY <1>1, <1>2, <1>3
<1> QED
  BY <1>1, <1>2, <1>3, <1>4

LEMMA LedIs ==
  ASSUME DiskOK, NEW S \in SUBSET Paths, NEW O
  PROVE  /\ \A q : q \in Led(S, O) <=>
               \E f \in S : \E k \in 1 .. Last(f) : OptionAt(f, k) \in O /\ q \in LedAt(f, k)
         /\ Led(S, O) \subseteq Paths
<1>1. \A q : q \in Led(S, O) <=>
               \E f \in S : \E k \in 1 .. Last(f) : OptionAt(f, k) \in O /\ q \in LedAt(f, k)
  BY DEF Led, Elements, Last, OptionAt, LedAt
<1> QED
  BY <1>1, LineTypes

LEMMA LedIsLed ==
  ASSUME DiskOK, NEW S \in SUBSET Paths, NEW T \in SUBSET Paths, NEW O, NEW P
  PROVE  /\ S \subseteq T /\ O \subseteq P => Led(S, O) \subseteq Led(T, P)
         /\ \A q \in Led(S, O) : \E f \in S : q \in Led({f}, O)
<1>1. ASSUME S \subseteq T, O \subseteq P PROVE Led(S, O) \subseteq Led(T, P)
  BY <1>1, LedIs
<1>2. ASSUME NEW q \in Led(S, O) PROVE \E f \in S : q \in Led({f}, O)
  <2>1. PICK f \in S : \E k \in 1 .. Last(f) : OptionAt(f, k) \in O /\ q \in LedAt(f, k)
    BY LedIs
  <2>2. {f} \in SUBSET Paths
    OBVIOUS
  <2>3. q \in Led({f}, O)
    BY <2>1, <2>2, LedIs
  <2> QED
    BY <2>3
<1> QED
  BY <1>1, <1>2

----------------------------------------------------------------------------
LEMMA ReachFacts ==
  ASSUME DiskOK, NEW S \in SUBSET Paths
  PROVE  /\ S \subseteq ReachedFrom(S) /\ ReachedFrom(S) \subseteq Paths
         /\ Led(ReachedFrom(S), Options) \subseteq ReachedFrom(S)
         /\ \A C \in SUBSET Paths :
               S \subseteq C /\ Led(C, Options) \subseteq C => ReachedFrom(S) \subseteq C
<1>1. S \subseteq ReachedFrom(S) /\ ReachedFrom(S) \subseteq Paths
  BY DEF ReachedFrom
<1>2. \A C \in SUBSET Paths :
         S \subseteq C /\ Led(C, Options) \subseteq C => ReachedFrom(S) \subseteq C
  BY DEF ReachedFrom, Options
<1>3. ASSUME NEW q \in Led(ReachedFrom(S), Options) PROVE q \in ReachedFrom(S)
  <2>1. q \in Paths
    BY <1>1, LedIs
  <2>2. ASSUME NEW C \in SUBSET Paths, S \subseteq C, Led(C, Options) \subseteq C
        PROVE  q \in C
    <3>1. ReachedFrom(S) \subseteq C
      BY <1>2, <2>2
    <3> QED
      BY <1>1, <2>2, <3>1, LedIsLed
  <2> QED
    BY <2>1, <2>2 DEF ReachedFrom, Options
<1> QED
  BY <1>1, <1>2, <1>3

LEMMA ReachGoesOn ==
  ASSUME DiskOK, NEW S \in SUBSET Paths, NEW p \in ReachedFrom(S)
  PROVE  /\ ReachedFrom({p}) \subseteq ReachedFrom(S)
         /\ Led({p}, Options) \subseteq ReachedFrom(S)
<1>1. p \in Paths /\ {p} \in SUBSET Paths /\ ReachedFrom(S) \in SUBSET Paths
  BY ReachFacts
<1>2. {p} \subseteq ReachedFrom(S)
  OBVIOUS
<1>3. ReachedFrom({p}) \subseteq ReachedFrom(S)
  BY <1>1, <1>2, ReachFacts
<1>4. Led({p}, Options) \subseteq Led(ReachedFrom(S), Options)
  BY <1>1, <1>2, LedIsLed
<1> QED
  BY <1>3, <1>4, ReachFacts

LEMMA ReachIsUnion ==
  ASSUME DiskOK, NEW S \in SUBSET Paths, NEW p \in ReachedFrom(S)
  PROVE  \E f \in S : p \in ReachedFrom({f})
<1> DEFINE C == {q \in Paths : \E f \in S : q \in ReachedFrom({f})}
<1>1. S \subseteq C
  BY ReachFacts
<1>2. ASSUME NEW q \in Led(C, Options) PROVE q \in C
  <2>1. PICK g \in C : q \in Led({g}, Options)
    BY LedIsLed
  <2>2. PICK f \in S : g \in ReachedFrom({f})
    OBVIOUS
  <2>3. {f} \in SUBSET Paths
    OBVIOUS
  <2>4. q \in ReachedFrom({f}) /\ q \in Paths
    BY <2>1, <2>2, <2>3, ReachGoesOn, ReachFacts
  <2> QED
    BY <2>4
<1>3. ReachedFrom(S) \subseteq C
  BY <1>1, <1>2, ReachFacts
<1> QED
  BY <1>3

LEMMA ReachBegins ==
  ASSUME DiskOK, NEW f \in Paths, NEW p \in ReachedFrom({f})
  PROVE  \/ p = f
         \/ /\ p \in ReachedFrom(Led({f}, Options))
            /\ \E g \in Led({f}, Options) : p \in ReachedFrom({g})
<1> DEFINE L == Led({f}, Options)
           C == {f} \cup ReachedFrom(L)
<1>1. {f} \in SUBSET Paths /\ L \in SUBSET Paths
  BY LedIs
<1> HIDE DEF L
<1>2. C \in SUBSET Paths /\ {f} \subseteq C /\ L \subseteq ReachedFrom(L)
  BY <1>1, ReachFacts
<1>3. ASSUME NEW q \in Led(C, Options) PROVE q \in C
  <2>1. PICK g \in C : q \in Led({g}, Options)
    BY <1>2, LedIsLed
  <2>2. CASE g = f
    BY <1>2, <2>1, <2>2 DEF L
  <2>3. CASE g \in ReachedFrom(L)
    BY <1>1, <2>1, <2>3, ReachGoesOn
  <2> QED
    BY <2>2, <2>3
<1>4. ReachedFrom({f}) \subseteq C
  BY <1>1, <1>2, <1>3, ReachFacts
<1> QED
  BY <1>1, <1>4, ReachIsUnion DEF L

LEMMA SoundFacts ==
  ASSUME DiskOK, NEW f \in Paths
  PROVE  /\ disk[f].is # "unreadable" /\ ~ LeadsNowhere(f)
               /\ (\A g \in Led({f}, Options) : Sound(g))
            => Sound(f)
         /\ Sound(f) => \A g \in ReachedFrom({f}) : Sound(g)
<1>1. ASSUME disk[f].is # "unreadable", ~ LeadsNowhere(f), \A g \in Led({f}, Options) : Sound(g)
      PROVE  Sound(f)
  <2>1. ASSUME NEW p \in ReachedFrom({f}), p # f
        PROVE  ~ Cyclic(p) /\ ~ LeadsNowhere(p) /\ disk[p].is # "unreadable"
    <3>1. PICK g \in Led({f}, Options) : p \in ReachedFrom({g})
      BY <2>1, ReachBegins
    <3> QED
      BY <1>1, <3>1 DEF Sound
  <2>2. ~ Cyclic(f)
    <3>1. SUFFICES ASSUME f \in ReachedFrom(Led({f}, Options)) PROVE FALSE
      BY DEF Cyclic, Options
    <3>2. {f} \in SUBSET Paths /\ Led({f}, Options) \in SUBSET Paths
      BY LedIs
    <3>3. PICK g \in Led({f}, Options) : f \in ReachedFrom({g})
      BY <3>1, <3>2, ReachIsUnion
    <3>4. ~ Cyclic(f)
      BY <1>1, <3>3 DEF Sound
    <3> QED
      BY <3>1, <3>4 DEF Cyclic, Options
  <2> QED
    BY <1>1, <2>1, <2>2 DEF Sound
<1>2. ASSUME Sound(f), NEW g \in ReachedFrom({f})
      PROVE  Sound(g)
  <2>1. {f} \in SUBSET Paths
    OBVIOUS
  <2>2. ReachedFrom({g}) \subseteq ReachedFrom({f})
    BY <2>1, ReachGoesOn
  <2> QED
    BY <1>2, <2>2 DEF Sound
<1> QED
  BY <1>1, <1>2

(* Nothing of this changes while the disk does not.                        *)
LEMMA DiskRests ==
  ASSUME disk' = disk
  PROVE  /\ \A f : IsFile(f)' = IsFile(f) /\ Last(f)' = Last(f)
         /\ \A f, k : OptionAt(f, k)' = OptionAt(f, k) /\ LedAt(f, k)' = LedAt(f, k)
         /\ \A S, O : Led(S, O)' = Led(S, O)
         /\ \A S : ReachedFrom(S)' = ReachedFrom(S)
         /\ \A f, o : Below(f, o)' = Below(f, o)
         /\ \A f : /\ Cyclic(f)' <=> Cyclic(f)
                   /\ LeadsNowhere(f)' <=> LeadsNowhere(f)
                   /\ Sound(f)' <=> Sound(f)
         /\ \A S : Lines(S)' = Lines(S)
         /\ FixedFiles' = FixedFiles
BY DEF IsFile, Last, OptionAt, LedAt, Leads, Within, Led, ReachedFrom, Below, Cyclic,
       LeadsNowhere, Sound, Lines, RequirementLines, FixedFiles

----------------------------------------------------------------------------
LEMMA DiskIsOK ==
  ASSUME TypeInv
  PROVE  DiskOK
BY StatesAssumption DEF DiskOK, TypeInv

LEMMA DiskRestsToo ==
  ASSUME disk' = disk
  PROVE  /\ \A r, f, m : Belongs(r, f, m)' <=> Belongs(r, f, m)
         /\ \A why, S : Fault(why, S)' <=> Fault(why, S)
         /\ Declarable' = Declarable
         /\ Led(ReachedFrom(FixedFiles), {"-c"})' = Led(ReachedFrom(FixedFiles), {"-c"})
<1>1. \A r, f, m : Belongs(r, f, m)' <=> Belongs(r, f, m)
  BY DiskRests DEF Belongs
<1>2. \A why, S : Fault(why, S)' <=> Fault(why, S)
  BY DiskRests DEF Fault
<1>3. \A S, O : Led(ReachedFrom(S), O)' = Led(ReachedFrom(S), O)
  BY DEF Led, ReachedFrom, Leads, Within
<1>4. Declarable' = Declarable
  BY <1>3 DEF Declarable
<1>5. Led(ReachedFrom(FixedFiles), {"-c"})' = Led(ReachedFrom(FixedFiles), {"-c"})
  BY DEF Led, ReachedFrom, Leads, Within, FixedFiles, IsFile
<1> QED
  BY <1>1, <1>2, <1>4, <1>5

LEMMA TopFacts ==
  ASSUME TypeInv, frames # << >>
  PROVE  /\ Len(frames) \in Nat /\ Len(frames) > 0
         /\ Top \in Frame /\ Top.file \in Paths /\ Top.line \in Nat /\ Top.line > 0
         /\ Top.mode \in Modes /\ Top.context \in Contexts
         /\ IsAt(Len(frames), Top.file, Top.line, Top.mode)
         /\ \A f, l, m : IsAt(Len(frames), f, l, m) => f = Top.file /\ l = Top.line /\ m = Top.mode
<1>1. frames \in Seq(Frame)
  BY DEF TypeInv
<1>2. Len(frames) \in Nat /\ Len(frames) > 0 /\ Top \in Frame
  BY <1>1 DEF Top
<1> QED
  BY <1>2 DEF Top, Frame, IsAt

(* What becomes of the stack.                                              *)
LEMMA StackPast ==
  ASSUME TypeInv, frames # << >>, frames' = PastLine
  PROVE  /\ frames' \in Seq(Frame) /\ Len(frames)' = Len(frames) /\ frames' # << >>
         /\ \A i, f, l, m :
              IsAt(i, f, l, m)' =>
                \/ i < Len(frames) /\ IsAt(i, f, l, m)
                \/ i = Len(frames) /\ f = Top.file /\ l = Top.line + 1 /\ m = Top.mode
         /\ \A i, f : OnStackAt(i, f)' => OnStackAt(i, f)
<1>1. frames \in Seq(Frame) /\ Len(frames) \in Nat /\ Len(frames) > 0 /\ Top \in Frame
  BY TopFacts DEF TypeInv
<1>2. frames' = [frames EXCEPT ![Len(frames)] = [Top EXCEPT !.line = Top.line + 1]]
  BY DEF PastLine, Top
<1>3. [Top EXCEPT !.line = Top.line + 1] \in Frame
  BY <1>1 DEF Frame
<1> DEFINE new == [Top EXCEPT !.line = Top.line + 1]
<1>4. new.file = Top.file /\ new.line = Top.line + 1 /\ new.mode = Top.mode
  BY <1>1 DEF Frame
<1> HIDE DEF new
<1>5. /\ frames' \in Seq(Frame) /\ Len(frames') = Len(frames)
      /\ \A i \in 1 .. Len(frames) : frames'[i] = IF i = Len(frames) THEN new ELSE frames[i]
  BY <1>1, <1>2, <1>3 DEF new
<1>6. frames' # << >>
  BY <1>1, <1>5
<1> QED
  BY <1>1, <1>4, <1>5, <1>6 DEF IsAt, OnStackAt, Top

LEMMA StackPush ==
  ASSUME TypeInv, NEW frame \in Frame, frames' = Append(PastLine, frame)
  PROVE  /\ frames' \in Seq(Frame) /\ Len(frames)' = Len(frames) + 1 /\ frames' # << >>
         /\ Len(frames) \in Nat
         /\ \A i, f, l, m :
              IsAt(i, f, l, m)' =>
                \/ i < Len(frames) /\ IsAt(i, f, l, m)
                \/ /\ i = Len(frames) /\ frames # << >>
                   /\ f = Top.file /\ l = Top.line + 1 /\ m = Top.mode
                \/ i = Len(frames) + 1 /\ f = frame.file /\ l = frame.line /\ m = frame.mode
         /\ \A i, f : OnStackAt(i, f)' =>
                \/ OnStackAt(i, f)
                \/ i = Len(frames) + 1 /\ f = frame.file
<1> DEFINE past == PastLine
<1>1. frames \in Seq(Frame) /\ Len(frames) \in Nat
  BY DEF TypeInv
<1>2. /\ past \in Seq(Frame) /\ Len(past) = Len(frames)
      /\ \A i \in 1 .. Len(frames) :
           /\ i < Len(frames) => past[i] = frames[i]
           /\ i = Len(frames) => /\ past[i].file = Top.file /\ past[i].line = Top.line + 1
                                 /\ past[i].mode = Top.mode
  <2>1. CASE frames = << >>
    BY <1>1, <2>1 DEF PastLine
  <2>2. CASE frames # << >>
    <3>1. Len(frames) > 0 /\ Top \in Frame
      BY <2>2, TopFacts
    <3>2. past = [frames EXCEPT ![Len(frames)] = [Top EXCEPT !.line = Top.line + 1]]
      BY <2>2 DEF PastLine, Top
    <3> DEFINE new == [Top EXCEPT !.line = Top.line + 1]
    <3>3. /\ new \in Frame
          /\ new.file = Top.file /\ new.line = Top.line + 1 /\ new.mode = Top.mode
      BY <3>1 DEF Frame
    <3>4. past = [frames EXCEPT ![Len(frames)] = new]
      BY <3>2
    <3> HIDE DEF new, past
    <3> QED
      BY <1>1, <3>1, <3>3, <3>4
  <2> QED
    BY <2>1, <2>2
<1>3. frames' = Append(past, frame)
  OBVIOUS
<1> HIDE DEF past
<1>4. /\ frames' \in Seq(Frame) /\ Len(frames') = Len(frames) + 1
      /\ \A i \in 1 .. Len(frames) : frames'[i] = past[i]
      /\ frames'[Len(frames) + 1] = frame
  BY <1>1, <1>2, <1>3
<1>5. frames' # << >>
  BY <1>1, <1>4
<1>6. ASSUME NEW i, NEW f, NEW l, NEW m, IsAt(i, f, l, m)'
      PROVE  \/ i < Len(frames) /\ IsAt(i, f, l, m)
             \/ /\ i = Len(frames) /\ frames # << >>
                /\ f = Top.file /\ l = Top.line + 1 /\ m = Top.mode
             \/ i = Len(frames) + 1 /\ f = frame.file /\ l = frame.line /\ m = frame.mode
  <2>1. /\ i \in 1 .. Len(frames) + 1 /\ frames'[i].file = f /\ frames'[i].line = l
        /\ frames'[i].mode = m
    BY <1>4, <1>6 DEF IsAt
  <2>2. CASE i = Len(frames) + 1
    BY <1>4, <2>1, <2>2
  <2>3. CASE i \in 1 .. Len(frames)
    BY <1>1, <1>2, <1>4, <2>1, <2>3 DEF IsAt
  <2> QED
    BY <1>1, <2>1, <2>2, <2>3
<1>7. ASSUME NEW i, NEW f, OnStackAt(i, f)'
      PROVE  OnStackAt(i, f) \/ (i = Len(frames) + 1 /\ f = frame.file)
  <2>1. i \in 1 .. Len(frames) + 1 /\ frames'[i].file = f
    BY <1>4, <1>7 DEF OnStackAt
  <2>2. CASE i = Len(frames) + 1
    BY <1>4, <2>1, <2>2
  <2>3. CASE i \in 1 .. Len(frames)
    BY <1>1, <1>2, <1>4, <2>1, <2>3 DEF OnStackAt, Top
  <2> QED
    BY <1>1, <2>1, <2>2, <2>3
<1> QED
  BY <1>1, <1>4, <1>5, <1>6, <1>7

LEMMA PrefixOf ==
  ASSUME NEW S, NEW s \in Seq(S), NEW k \in 0 .. Len(s)
  PROVE  /\ SubSeq(s, 1, k) \in Seq(S) /\ Len(SubSeq(s, 1, k)) = k
         /\ \A i \in 1 .. k : SubSeq(s, 1, k)[i] = s[i]
OBVIOUS

LEMMA StackPop ==
  ASSUME TypeInv, frames # << >>, frames' = SubSeq(frames, 1, Len(frames) - 1)
  PROVE  /\ frames' \in Seq(Frame) /\ Len(frames)' = Len(frames) - 1
         /\ \A i, f, l, m : IsAt(i, f, l, m)' => i < Len(frames) /\ IsAt(i, f, l, m)
         /\ \A i, f : OnStackAt(i, f)' => OnStackAt(i, f)
<1>1. frames \in Seq(Frame) /\ Len(frames) \in Nat /\ Len(frames) > 0
  BY TopFacts DEF TypeInv
<1>2. /\ frames' \in Seq(Frame) /\ Len(frames') = Len(frames) - 1
      /\ \A i \in 1 .. Len(frames) - 1 : frames'[i] = frames[i]
  <2>1. Len(frames) - 1 \in 0 .. Len(frames)
    BY <1>1
  <2> QED
    BY <1>1, <2>1, PrefixOf
<1> QED
  BY <1>1, <1>2 DEF IsAt, OnStackAt

LEMMA StackEmpty ==
  ASSUME frames' = << >>
  PROVE  /\ frames' \in Seq(Frame) /\ Len(frames)' = 0
         /\ \A i, f, l, m : ~ IsAt(i, f, l, m)'
         /\ \A i, f : ~ OnStackAt(i, f)'
BY DEF IsAt, OnStackAt

----------------------------------------------------------------------------
(* Nothing taken in is forgotten.                                          *)
Grown == Got("dependencies") \subseteq Got("dependencies")' /\ Got("constraints") \subseteq Got("constraints")'

LEMMA GrownKeeps ==
  ASSUME disk' = disk, Grown
  PROVE  /\ \A f : \A m \in Modes : Given(f, m) => Given(f, m)'
         /\ \A f : \A m \in Modes : Whole(f, m) => Whole(f, m)'
         /\ \A f, k : \A m \in Modes : LineRead(f, k, m) => LineRead(f, k, m)'
<1>1. \A m \in Modes : Got(m) \subseteq Got(m)'
  BY DEF Grown, Modes
<1>2. /\ \A f, o : Lines(Below(f, o))' = Lines(Below(f, o))
      /\ \A S : Lines(S)' = Lines(S)
  BY DEF Lines, RequirementLines, Below, Led, ReachedFrom, Leads, Within
<1>3. \A f : \A m \in Modes : Given(f, m) => Given(f, m)'
  BY <1>1, <1>2 DEF Given, Modes
<1>4. \A f : \A m \in Modes : Whole(f, m) => Whole(f, m)'
  BY <1>3, DiskRests DEF Whole
<1>5. ASSUME NEW f, NEW k, NEW m \in Modes, LineRead(f, k, m)
      PROVE  LineRead(f, k, m)'
  <2>1. OptionAt(f, k)' = OptionAt(f, k) /\ LedAt(f, k)' = LedAt(f, k)
    BY DiskRests
  <2>2. OptionAt(f, k) = "none" => <<f, k>> \in Got(m)'
    BY <1>1, <1>5 DEF LineRead
  <2>3. \A g \in LedAt(f, k) : OptionAt(f, k) \in Options => Whole(g, ModeOf(OptionAt(f, k)))'
    <3>1. SUFFICES ASSUME NEW g \in LedAt(f, k), OptionAt(f, k) \in Options,
                          NEW n, n = ModeOf(OptionAt(f, k))
                   PROVE  Whole(g, n)'
      BY <2>1
    <3>2. n \in Modes /\ Whole(g, n)
      BY <1>5, <3>1 DEF LineRead, ModeOf, Modes
    <3> QED
      BY <1>4, <3>2
  <2> QED
    BY <1>5, <2>1, <2>2, <2>3 DEF LineRead
<1> QED
  BY <1>3, <1>4, <1>5

----------------------------------------------------------------------------
(* The line the file on top is at, and what it leads to.                   *)
LEMMA LineFacts ==
  ASSUME TypeInv, AtLine
  PROVE  /\ frames # << >> /\ Top.file \in Paths /\ Top.line \in 1 .. Last(Top.file)
         /\ TheLine \in Line /\ TheLine.option = OptionAt(Top.file, Top.line)
         /\ Leads(TheLine) = LedAt(Top.file, Top.line)
         /\ Tried \in Seq(Paths)
<1>1. frames # << >> /\ Top.file \in Paths /\ Top.line \in Nat /\ Top.line > 0
  BY TopFacts DEF AtLine
<1>2. DiskOK
  BY DiskIsOK
<1>3. Last(Top.file) \in Nat /\ Top.line \in 1 .. Last(Top.file)
  BY <1>1, <1>2, LineTypes DEF AtLine, Last
<1>4. TheLine \in Line
  BY <1>1, <1>2, <1>3, LineTypes DEF TheLine
<1> QED
  BY <1>1, <1>3, <1>4 DEF TheLine, OptionAt, LedAt, Tried, Line

LEMMA ResolvedLine ==
  ASSUME TypeInv, AtLine, NEW i \in 1 .. Len(Tried), Resolves(i)
  PROVE  /\ Tried[i] \in Paths /\ disk[Tried[i]].is \notin {"absent", "outside"}
         /\ LedAt(Top.file, Top.line) = {Tried[i]}
<1>1. Tried[i] \in Paths /\ disk[Tried[i]].is \notin {"absent", "outside"}
  BY LineFacts DEF Resolves, Within
<1>2. Tried[i] \in Leads(TheLine)
  BY DEF Leads, Resolves, Tried
<1>3. \A q \in Leads(TheLine) : q = Tried[i]
  BY <1>2, LineFacts, LeadsIsOne
<1> QED
  BY <1>1, <1>2, <1>3, LineFacts

LEMMA UnresolvedLine ==
  ASSUME TypeInv, AtLine, Unresolved
  PROVE  LedAt(Top.file, Top.line) = {}
<1>1. Leads(TheLine) = {}
  BY DEF Leads, Unresolved, Tried
<1> QED
  BY <1>1, LineFacts

LEMMA LedByLine ==
  ASSUME DiskOK, NEW f \in Paths, NEW k \in 1 .. Last(f), NEW g \in LedAt(f, k),
         OptionAt(f, k) \in Options
  PROVE  /\ g \in Paths /\ g \in Led({f}, Options) /\ g \in Led({f}, {OptionAt(f, k)})
<1>1. {f} \in SUBSET Paths
  OBVIOUS
<1> QED
  BY <1>1, LedIs, LineTypes

LEMMA ChildBelongs ==
  ASSUME DiskOK, NEW r \in Paths, NEW f \in Paths, NEW m \in Modes, Belongs(r, f, m),
         NEW k \in 1 .. Last(f), NEW g \in LedAt(f, k), OptionAt(f, k) \in Options
  PROVE  Belongs(r, g, ModeOf(OptionAt(f, k)))
<1>1. {r} \in SUBSET Paths /\ {f} \in SUBSET Paths /\ ReachedFrom({r}) \in SUBSET Paths
  BY ReachFacts
<1>2. g \in Led({f}, Options) /\ g \in Led({f}, {OptionAt(f, k)})
  BY LedByLine
<1>3. f \in ReachedFrom({r}) /\ g \in ReachedFrom({r})
  BY <1>1, <1>2, ReachGoesOn DEF Belongs
<1>4. {f} \subseteq ReachedFrom({r})
  BY <1>3
<1>5. g \in Below(r, OptionAt(f, k))
  <2>1. Led({f}, {OptionAt(f, k)}) \subseteq Led(ReachedFrom({r}), {OptionAt(f, k)})
    BY <1>1, <1>4, LedIsLed
  <2> QED
    BY <1>2, <2>1 DEF Below
<1> QED
  BY <1>3, <1>5 DEF Belongs, ModeOf, Options

(* The file on top is below every file on the stack.                       *)
LEMMA TopIsBelow ==
  ASSUME TypeInv, ChainInv, NEW f \in OnStack
  PROVE  f \in Paths /\ Top.file \in ReachedFrom({f})
<1>1. PICK i \in 1 .. Len(frames) : frames[i].file = f
  BY DEF OnStack
<1>2. frames # << >> /\ Len(frames) \in Nat /\ Len(frames) > 0 /\ frames \in Seq(Frame)
  BY <1>1 DEF TypeInv
<1>3. f \in Paths /\ Top.file \in Paths
  <2>1. frames[i] \in Frame
    BY <1>2
  <2>2. Top.file \in Paths
    BY <1>2, TopFacts
  <2> QED
    BY <1>1, <2>1, <2>2 DEF Frame
<1>4. OnStackAt(i, f) /\ OnStackAt(Len(frames), Top.file) /\ i \in Nat /\ i <= Len(frames)
  BY <1>1, <1>2 DEF OnStackAt, Top
<1> QED
  BY <1>2, <1>3, <1>4 DEF ChainInv

LEMMA CycleFound ==
  ASSUME TypeInv, ChainInv, AtLine, OptionAt(Top.file, Top.line) \in Options,
         NEW f \in LedAt(Top.file, Top.line), f \in OnStack
  PROVE  Cyclic(f)
<1> DEFINE L == Led({f}, Options)
<1>1. DiskOK /\ f \in Paths /\ {f} \in SUBSET Paths /\ Top.file \in ReachedFrom({f})
  BY DiskIsOK, TopIsBelow
<1>2. L \in SUBSET Paths /\ L \subseteq ReachedFrom(L)
  BY <1>1, LedIs, ReachFacts
<1>3. f \in Led({Top.file}, Options)
  BY <1>1, LineFacts, LedByLine
<1>4. Top.file = f \/ Top.file \in ReachedFrom(L)
  BY <1>1, ReachBegins
<1>5. f \in ReachedFrom(L)
  <2>1. CASE Top.file = f
    BY <1>2, <1>3, <2>1
  <2>2. CASE Top.file \in ReachedFrom(L)
    <3> HIDE DEF L
    <3> QED
      BY <1>1, <1>2, <1>3, <2>2, ReachGoesOn
  <2> QED
    BY <1>4, <2>1, <2>2
<1> QED
  BY <1>5 DEF Cyclic, Options

----------------------------------------------------------------------------
(* All its lines read, a file is whole.                                    *)
LEMMA FileWhole ==
  ASSUME TypeInv, FrameInv, frames # << >>, ~ AtLine
  PROVE  Whole(Top.file, Top.mode)
<1> DEFINE t == Top.file
           m == Top.mode
           L == Led({t}, Options)
<1>1. DiskOK
  BY DiskIsOK
<1>2. /\ t \in Paths /\ m \in Modes /\ Len(frames) \in Nat /\ Top.line \in Nat
      /\ IsAt(Len(frames), t, Top.line, m) /\ {t} \in SUBSET Paths
  BY TopFacts
<1>3. Last(t) \in Nat /\ L \in SUBSET Paths
  BY <1>1, <1>2, LineTypes, LedIs
<1>4. disk[t].is # "unreadable" /\ Top.line = Last(t) + 1
  BY <1>2, <1>3 DEF FrameInv, AtLine, Last
<1>5. \A k \in 1 .. Last(t) : LineRead(t, k, m)
  BY <1>2, <1>3, <1>4 DEF FrameInv
<1>6. \A g \in L : \E k \in 1 .. Last(t) : OptionAt(t, k) \in Options /\ g \in LedAt(t, k)
  BY <1>1, <1>2, LedIs
<1>7. \A g \in L : \E n \in Modes : Whole(g, n)
  BY <1>5, <1>6 DEF LineRead, ModeOf, Modes
<1>8. ~ LeadsNowhere(t)
  BY <1>5 DEF LeadsNowhere, LineRead, OptionAt, LedAt, Elements, Last
<1>9. Sound(t)
  BY <1>1, <1>2, <1>4, <1>7, <1>8, SoundFacts DEF Whole
<1>10. Lines({t}) \subseteq Got(m)
  BY <1>5 DEF Lines, RequirementLines, LineRead, OptionAt, Last
<1>11. ASSUME NEW o \in Options, NEW q \in Below(t, o)
       PROVE  Lines({q}) \subseteq Got(ModeOf(o))
  <2>1. ReachedFrom({t}) \in SUBSET Paths
    BY <1>1, <1>2, ReachFacts
  <2>2. PICK p \in ReachedFrom({t}) : q \in Led({p}, {o})
    BY <1>1, <2>1, LedIsLed DEF Below
  <2>3. p \in Paths /\ {p} \in SUBSET Paths
    BY <2>1
  <2>4. CASE p = t
    <3>1. PICK k \in 1 .. Last(t) : OptionAt(t, k) \in {o} /\ q \in LedAt(t, k)
      BY <1>1, <2>2, <2>3, <2>4, LedIs
    <3>2. Whole(q, ModeOf(o))
      BY <1>5, <3>1 DEF LineRead
    <3> QED
      BY <3>2 DEF Whole, Given
  <2>5. CASE p # t
    <3>1. PICK g \in L : p \in ReachedFrom({g})
      BY <1>1, <1>2, <2>5, ReachBegins
    <3>2. g \in Paths /\ {g} \in SUBSET Paths /\ ReachedFrom({g}) \in SUBSET Paths
      BY <1>1, <1>3, ReachFacts
    <3>3. {p} \subseteq ReachedFrom({g})
      BY <3>1
    <3>4. q \in Below(g, o)
      BY <1>1, <2>2, <2>3, <3>2, <3>3, LedIsLed DEF Below
    <3>5. PICK n \in Modes : Given(g, n)
      BY <1>7 DEF Whole
    <3>6. Lines(Below(g, o)) \subseteq Got(ModeOf(o))
      BY <3>5 DEF Given, Options, ModeOf
    <3> QED
      BY <3>4, <3>6 DEF Lines
  <2> QED
    BY <2>4, <2>5
<1>12. Lines(Below(t, "-c")) \subseteq Got("constraints") /\ Lines(Below(t, "-r")) \subseteq Got("dependencies")
  <2>1. \A q \in Below(t, "-c") : Lines({q}) \subseteq Got("constraints")
    BY <1>11 DEF Options, ModeOf
  <2>2. \A q \in Below(t, "-r") : Lines({q}) \subseteq Got("dependencies")
    BY <1>11 DEF Options, ModeOf
  <2> QED
    BY <2>1, <2>2 DEF Lines
<1> QED
  BY <1>9, <1>10, <1>12 DEF Whole, Given

----------------------------------------------------------------------------
(* The stack goes past a line that is read, ...                            *)
LEMMA PastLineKeeps ==
  ASSUME TypeInv, FrameInv, LinkInv, ChainInv, frames # << >>, disk' = disk, Grown,
         parsed.read \subseteq parsed'.read, frames' = PastLine, AtLine,
         NEW t, NEW p, NEW q, t = Top.file, p = Top.line, q = Top.mode, LineRead(t, p, q)'
  PROVE  FrameInv' /\ LinkInv' /\ ChainInv'
<1> DEFINE n == Len(frames)
<1>1. /\ DiskOK /\ n \in Nat /\ Top.line \in Nat /\ Top.file \in Paths /\ Top.mode \in Modes
      /\ IsAt(n, Top.file, Top.line, Top.mode) /\ n > 0
  BY DiskIsOK, TopFacts
<1>2. /\ Len(frames)' = n
      /\ \A i, f, l, m :
           IsAt(i, f, l, m)' =>
             \/ i < n /\ IsAt(i, f, l, m)
             \/ i = n /\ f = Top.file /\ l = Top.line + 1 /\ m = Top.mode
      /\ \A i, f : OnStackAt(i, f)' => OnStackAt(i, f)
  BY StackPast
<1>3. Top.line \in 1 .. Last(Top.file) /\ Last(Top.file) \in Nat
  BY <1>1, LineFacts, LineTypes
<1>4. ASSUME NEW i \in Nat, NEW f \in Paths, NEW l \in Nat, NEW m \in Modes, IsAt(i, f, l, m)'
      PROVE  /\ disk[f].is # "unreadable" /\ f \in parsed'.read
             /\ l \in 1 .. Last(f) + 1
             /\ \A k \in 1 .. l - 1 : i = n \/ k # l - 1 => LineRead(f, k, m)'
  <2>1. CASE i < n /\ IsAt(i, f, l, m)
    <3>1. /\ disk[f].is # "unreadable" /\ f \in parsed.read /\ l \in 1 .. Last(f) + 1
          /\ \A k \in 1 .. l - 1 : i = n \/ k # l - 1 => LineRead(f, k, m)
      BY <2>1 DEF FrameInv
    <3> QED
      BY <3>1, GrownKeeps
  <2>2. CASE i = n /\ f = Top.file /\ l = Top.line + 1 /\ m = Top.mode
    <3>1. /\ disk[f].is # "unreadable" /\ f \in parsed.read
          /\ \A k \in 1 .. Top.line - 1 : LineRead(f, k, m)
      BY <1>1, <2>2 DEF FrameInv
    <3>2. \A k \in 1 .. l - 1 : k = Top.line \/ k \in 1 .. Top.line - 1
      BY <1>1, <2>2
    <3>3. \A k \in 1 .. l - 1 : LineRead(f, k, m)'
      BY <2>2, <3>1, <3>2, GrownKeeps
    <3>4. l \in 1 .. Last(f) + 1
      BY <1>3, <2>2
    <3> QED
      BY <3>1, <3>3, <3>4
  <2> QED
    BY <1>2, <1>4, <2>1, <2>2
<1>5. FrameInv'
  <2>1. \A f : Last(f)' = Last(f)
    BY DiskRests
  <2> QED
    BY <1>2, <1>4, <2>1 DEF FrameInv
<1>6. ASSUME NEW i \in Nat, NEW f \in Paths, NEW l \in Nat, NEW m \in Modes, NEW g \in Paths,
             NEW o \in Modes, IsAt(i, f, l, m)', NEW k \in Nat, IsAt(i + 1, g, k, o)'
      PROVE  /\ l > 1 /\ OptionAt(f, l - 1) \in Options
             /\ g \in LedAt(f, l - 1) /\ o = ModeOf(OptionAt(f, l - 1))
  <2>1. i < n /\ IsAt(i, f, l, m)
    BY <1>1, <1>2, <1>6 DEF IsAt
  <2>2. \E j \in Nat : IsAt(i + 1, g, j, o)
    BY <1>1, <1>2, <1>6
  <2> QED
    BY <2>1, <2>2 DEF LinkInv
<1>7. LinkInv'
  BY <1>6, DiskRests DEF LinkInv
<1>8. ChainInv'
  BY <1>2, DiskRests DEF ChainInv
<1> QED
  BY <1>5, <1>7, <1>8

(* ... takes a file on that a line leads to, ...                           *)
LEMMA PushKeeps ==
  ASSUME TypeInv, FrameInv, LinkInv, ChainInv, disk' = disk, Grown,
         parsed.read \subseteq parsed'.read, AtLine,
         NEW frame \in Frame, frames' = Append(PastLine, frame), frame.line = 1,
         OptionAt(Top.file, Top.line) \in Options, frame.file \in LedAt(Top.file, Top.line),
         frame.mode = ModeOf(OptionAt(Top.file, Top.line)),
         disk[frame.file].is # "unreadable", frame.file \in parsed'.read
  PROVE  FrameInv' /\ LinkInv' /\ ChainInv'
<1> DEFINE n == Len(frames)
<1>1. /\ DiskOK /\ n \in Nat /\ Top.line \in Nat /\ Top.file \in Paths /\ Top.mode \in Modes
      /\ IsAt(n, Top.file, Top.line, Top.mode) /\ n > 0 /\ frames # << >>
  BY DiskIsOK, TopFacts, LineFacts
<1>2. /\ Len(frames)' = n + 1
      /\ \A i, f, l, m :
           IsAt(i, f, l, m)' =>
             \/ i < n /\ IsAt(i, f, l, m)
             \/ i = n /\ f = Top.file /\ l = Top.line + 1 /\ m = Top.mode
             \/ i = n + 1 /\ f = frame.file /\ l = frame.line /\ m = frame.mode
      /\ \A i, f : OnStackAt(i, f)' => OnStackAt(i, f) \/ (i = n + 1 /\ f = frame.file)
  BY StackPush
<1>3. /\ Top.line \in 1 .. Last(Top.file) /\ Last(Top.file) \in Nat
      /\ frame.file \in Paths /\ Last(frame.file) \in Nat
  BY <1>1, LineFacts, LineTypes DEF Frame
<1>4. ASSUME NEW i \in Nat, NEW f \in Paths, NEW l \in Nat, NEW m \in Modes, IsAt(i, f, l, m)'
      PROVE  /\ disk[f].is # "unreadable" /\ f \in parsed'.read
             /\ l \in 1 .. Last(f) + 1
             /\ \A k \in 1 .. l - 1 : i = n + 1 \/ k # l - 1 => LineRead(f, k, m)'
  <2>1. CASE i < n /\ IsAt(i, f, l, m)
    <3>1. /\ disk[f].is # "unreadable" /\ f \in parsed.read /\ l \in 1 .. Last(f) + 1
          /\ \A k \in 1 .. l - 1 : k # l - 1 => LineRead(f, k, m)
      BY <2>1 DEF FrameInv
    <3>2. i # n + 1
      BY <1>1, <2>1
    <3> QED
      BY <3>1, <3>2, GrownKeeps
  <2>2. CASE i = n /\ f = Top.file /\ l = Top.line + 1 /\ m = Top.mode
    <3>1. /\ disk[f].is # "unreadable" /\ f \in parsed.read
          /\ \A k \in 1 .. Top.line - 1 : LineRead(f, k, m)
      BY <1>1, <2>2 DEF FrameInv
    <3>2. \A k \in 1 .. l - 1 : k # l - 1 => k \in 1 .. Top.line - 1
      BY <1>1, <2>2
    <3>3. i # n + 1 /\ l \in 1 .. Last(f) + 1
      BY <1>1, <1>3, <2>2
    <3> QED
      BY <3>1, <3>2, <3>3, GrownKeeps
  <2>3. CASE i = n + 1 /\ f = frame.file /\ l = frame.line /\ m = frame.mode
    <3>1. l = 1 /\ l \in 1 .. Last(f) + 1
      BY <1>3, <2>3
    <3> QED
      BY <2>3, <3>1
  <2> QED
    BY <1>2, <1>4, <2>1, <2>2, <2>3
<1>5. FrameInv'
  <2>1. \A f : Last(f)' = Last(f)
    BY DiskRests
  <2> QED
    BY <1>2, <1>4, <2>1 DEF FrameInv
<1>6. ASSUME NEW i \in Nat, NEW f \in Paths, NEW l \in Nat, NEW m \in Modes, NEW g \in Paths,
             NEW o \in Modes, IsAt(i, f, l, m)', NEW k \in Nat, IsAt(i + 1, g, k, o)'
      PROVE  /\ l > 1 /\ OptionAt(f, l - 1) \in Options
             /\ g \in LedAt(f, l - 1) /\ o = ModeOf(OptionAt(f, l - 1))
  <2>1. i + 1 \in 1 .. n + 1
    BY <1>2, <1>6 DEF IsAt
  <2>2. CASE i < n
    <3>1. IsAt(i, f, l, m)
      BY <1>2, <1>6, <2>2
    <3>2. i + 1 # n + 1
      BY <1>1, <2>2
    <3>3. \E j \in Nat : IsAt(i + 1, g, j, o)
      BY <1>1, <1>2, <1>6, <3>2
    <3> QED
      BY <3>1, <3>3 DEF LinkInv
  <2>3. CASE i = n
    <3>1. f = Top.file /\ l = Top.line + 1
      BY <1>1, <1>2, <1>6, <2>3
    <3>2. g = frame.file /\ o = frame.mode
      BY <1>1, <1>2, <1>6, <2>3
    <3>3. l > 1 /\ l - 1 = Top.line
      BY <1>1, <1>3, <3>1
    <3> QED
      BY <3>1, <3>2, <3>3
  <2> QED
    BY <1>1, <2>1, <2>2, <2>3
<1>7. LinkInv'
  BY <1>6, DiskRests DEF LinkInv
<1>8. ASSUME NEW i \in Nat, NEW j \in Nat, NEW f \in Paths, NEW g \in Paths,
             i <= j, OnStackAt(i, f)', OnStackAt(j, g)'
      PROVE  g \in ReachedFrom({f})
  <2>1. {f} \in SUBSET Paths /\ {frame.file} \in SUBSET Paths
    BY <1>3
  <2>2. CASE OnStackAt(i, f) /\ OnStackAt(j, g)
    BY <1>8, <2>2 DEF ChainInv
  <2>3. CASE OnStackAt(i, f) /\ j = n + 1 /\ g = frame.file
    <3>1. OnStackAt(n, Top.file) /\ i <= n
      BY <1>1, <2>3 DEF OnStackAt, IsAt
    <3>2. Top.file \in ReachedFrom({f})
      BY <1>1, <2>3, <3>1 DEF ChainInv
    <3>3. g \in Led({Top.file}, Options)
      BY <1>1, <1>3, <2>3, LedByLine
    <3> QED
      BY <1>1, <2>1, <3>2, <3>3, ReachGoesOn
  <2>4. CASE i = n + 1 /\ f = frame.file
    <3>1. ~ OnStackAt(j, g)
      BY <1>1, <1>8, <2>4 DEF OnStackAt
    <3>2. g = f
      BY <1>2, <1>8, <2>4, <3>1
    <3> QED
      BY <1>1, <2>1, <3>2, ReachFacts
  <2> QED
    BY <1>2, <1>8, <2>2, <2>3, <2>4
<1>9. ChainInv'
  BY <1>8, DiskRests DEF ChainInv
<1> QED
  BY <1>5, <1>7, <1>9

(* ... and lets go of one that is whole.                                   *)
LEMMA PopKeeps ==
  ASSUME TypeInv, FrameInv, LinkInv, ChainInv, disk' = disk, parsed' = parsed,
         frames # << >>, ~ AtLine, frames' = SubSeq(frames, 1, Len(frames) - 1)
  PROVE  FrameInv' /\ LinkInv' /\ ChainInv'
<1> DEFINE n == Len(frames)
<1>1. /\ DiskOK /\ n \in Nat /\ Top.line \in Nat /\ Top.file \in Paths /\ Top.mode \in Modes
      /\ IsAt(n, Top.file, Top.line, Top.mode) /\ n > 0 /\ Whole(Top.file, Top.mode)
  BY DiskIsOK, TopFacts, FileWhole
<1>2. /\ Len(frames)' = n - 1
      /\ \A i, f, l, m : IsAt(i, f, l, m)' => i < n /\ IsAt(i, f, l, m)
      /\ \A i, f : OnStackAt(i, f)' => OnStackAt(i, f)
  BY StackPop
<1>3. Grown
  BY DEF Grown, Got
<1>4. ASSUME NEW i \in Nat, NEW f \in Paths, NEW l \in Nat, NEW m \in Modes, IsAt(i, f, l, m)',
             NEW k \in 1 .. l - 1, i = n - 1 \/ k # l - 1
      PROVE  LineRead(f, k, m)
  <2>1. i < n /\ IsAt(i, f, l, m)
    BY <1>2, <1>4
  <2>2. CASE k # l - 1
    BY <2>1, <2>2 DEF FrameInv
  <2>3. CASE k = l - 1 /\ i = n - 1
    <3>1. IsAt(i + 1, Top.file, Top.line, Top.mode)
      BY <1>1, <2>3
    <3>2. /\ l > 1 /\ OptionAt(f, k) \in Options
          /\ Top.file \in LedAt(f, k) /\ Top.mode = ModeOf(OptionAt(f, k))
      BY <1>1, <2>1, <2>3, <3>1 DEF LinkInv
    <3>3. l \in 1 .. Last(f) + 1 /\ Last(f) \in Nat
      BY <1>1, <2>1, LineTypes DEF FrameInv
    <3>4. disk[f].lines[k] \in Line
      <4>1. k \in 1 .. Last(f)
        BY <3>2, <3>3
      <4> QED
        BY <1>1, <4>1, LineTypes
    <3>5. \A g \in LedAt(f, k) : g = Top.file
      BY <3>2, <3>4, LeadsIsOne DEF LedAt
    <3> QED
      BY <1>1, <3>2, <3>5 DEF LineRead, Options
  <2> QED
    BY <1>4, <2>2, <2>3
<1>5. FrameInv'
  <2>1. ASSUME NEW i \in Nat, NEW f \in Paths, NEW l \in Nat, NEW m \in Modes, IsAt(i, f, l, m)'
        PROVE  /\ disk[f].is # "unreadable" /\ f \in parsed.read /\ l \in 1 .. Last(f) + 1
               /\ \A k \in 1 .. l - 1 : i = n - 1 \/ k # l - 1 => LineRead(f, k, m)'
    <3>1. /\ disk[f].is # "unreadable" /\ f \in parsed.read /\ l \in 1 .. Last(f) + 1
      BY <1>2, <2>1 DEF FrameInv
    <3> QED
      BY <1>3, <1>4, <2>1, <3>1, GrownKeeps
  <2>2. \A f : Last(f)' = Last(f)
    BY DiskRests
  <2> QED
    BY <1>2, <2>1, <2>2 DEF FrameInv
<1>6. LinkInv'
  <2>1. ASSUME NEW i \in Nat, NEW f \in Paths, NEW l \in Nat, NEW m \in Modes, NEW g \in Paths,
               NEW o \in Modes, IsAt(i, f, l, m)', NEW k \in Nat, IsAt(i + 1, g, k, o)'
        PROVE  /\ l > 1 /\ OptionAt(f, l - 1) \in Options
               /\ g \in LedAt(f, l - 1) /\ o = ModeOf(OptionAt(f, l - 1))
    BY <1>2, <2>1 DEF LinkInv
  <2> QED
    BY <2>1, DiskRests DEF LinkInv
<1>7. ChainInv'
  BY <1>2, DiskRests DEF ChainInv
<1> QED
  BY <1>5, <1>6, <1>7

----------------------------------------------------------------------------
(* What the steps of a file have in common.                                *)
LEMMA LinesWithin ==
  ASSUME NEW S, NEW T, S \subseteq T
  PROVE  Lines(S) \subseteq Lines(T) /\ \A f \in T : Lines({f}) \subseteq Lines(T)
<1>1. \A f \in T : UNION {{<<g, i>> : i \in RequirementLines(g)} : g \in {f}}
                    = {<<f, i>> : i \in RequirementLines(f)}
  OBVIOUS
<1> QED
  BY <1>1 DEF Lines

LEMMA RootKeeps ==
  ASSUME TypeInv, RootInv, disk' = disk, next' = next, parsed.read # {},
         \A i, f, l, m :
           IsAt(i, f, l, m)' =>
             \/ \E k \in Nat : IsAt(i, f, k, m)
             \/ i # 1 /\ \A r \in Paths : Starts(r) => Belongs(r, f, m),
         NEW t, NEW q \in Modes, \A r \in Paths : Starts(r) => Belongs(r, t, q),
         \A m \in Modes : \A x \in Got(m)' : x \in Got(m) \/ (m = q /\ x \in Lines({t})),
         frames' = << >> /\ failed' = "no"
           => \A r \in Paths : Starts(r) => Whole(r, "dependencies")',
         \A why : failed' = why => \A r \in Paths : Starts(r) => Fault(why, {r})
  PROVE  RootInv'
<1>1. SUFFICES ASSUME NEW r \in Paths, Starts(r)'
               PROVE  /\ IsFile(r)'
                      /\ \A i \in Nat, f \in Paths, l \in Nat, m \in Modes :
                           IsAt(i, f, l, m)' =>
                             Belongs(r, f, m)' /\ (i = 1 => f = r /\ m = "dependencies")
                      /\ Got("dependencies")' \subseteq Lines({r} \cup Below(r, "-r"))'
                      /\ Got("constraints")' \subseteq Lines(Below(r, "-c"))'
                      /\ frames' = << >> /\ failed' = "no" => Whole(r, "dependencies")'
                      /\ \A why : failed' = why => Fault(why, {r})'
  BY DEF RootInv
<1>2. Starts(r)
  BY <1>1 DEF Starts
<1>3. IsFile(r)'
  BY <1>2 DEF RootInv, IsFile
<1>4. ASSUME NEW i \in Nat, NEW f \in Paths, NEW l \in Nat, NEW m \in Modes, IsAt(i, f, l, m)'
      PROVE  Belongs(r, f, m) /\ (i = 1 => f = r /\ m = "dependencies")
  <2>1. CASE \E k \in Nat : IsAt(i, f, k, m)
    BY <1>2, <2>1 DEF RootInv
  <2>2. CASE i # 1 /\ Belongs(r, f, m)
    BY <2>2
  <2> QED
    BY <1>2, <1>4, <2>1, <2>2
<1>5. ASSUME NEW x \in Got("dependencies")'
      PROVE  x \in Lines({r} \cup Below(r, "-r"))
  <2>1. x \in Got("dependencies") \/ (q = "dependencies" /\ x \in Lines({t}))
    <3>1. ASSUME NEW m \in Modes, m = "dependencies", x \in Got(m)'
          PROVE  x \in Got(m) \/ (m = q /\ x \in Lines({t}))
      BY <3>1
    <3>2. "dependencies" \in Modes
      BY DEF Modes
    <3> QED
      BY <1>5, <3>1, <3>2
  <2>2. CASE x \in Got("dependencies")
    BY <1>2, <2>2 DEF RootInv
  <2>3. CASE q = "dependencies" /\ x \in Lines({t})
    BY <1>2, <2>3, LinesWithin DEF Belongs
  <2> QED
    BY ONLY <2>1, <2>2, <2>3
<1>6. ASSUME NEW x \in Got("constraints")'
      PROVE  x \in Lines(Below(r, "-c"))
  <2>1. x \in Got("constraints") \/ (q = "constraints" /\ x \in Lines({t}))
    <3>1. ASSUME NEW m \in Modes, m = "constraints", x \in Got(m)'
          PROVE  x \in Got(m) \/ (m = q /\ x \in Lines({t}))
      BY <3>1
    <3>2. "constraints" \in Modes
      BY DEF Modes
    <3> QED
      BY <1>6, <3>1, <3>2
  <2>2. CASE x \in Got("constraints")
    BY <1>2, <2>2 DEF RootInv
  <2>3. CASE q = "constraints" /\ x \in Lines({t})
    BY <1>2, <2>3, LinesWithin DEF Belongs
  <2> QED
    BY ONLY <2>1, <2>2, <2>3
<1>7. /\ Lines({r} \cup Below(r, "-r"))' = Lines({r} \cup Below(r, "-r"))
      /\ Lines(Below(r, "-c"))' = Lines(Below(r, "-c"))
  BY DEF Lines, RequirementLines, Below, Led, ReachedFrom, Leads, Within
<1> QED
  BY <1>2, <1>3, <1>4, <1>5, <1>6, <1>7, DiskRestsToo

LEMMA LinesRest ==
  ASSUME disk' = disk
  PROVE  /\ \A f, o : Lines(Below(f, o))' = Lines(Below(f, o))
         /\ Lines(Declarable)' = Lines(Declarable)
         /\ Lines(Led(ReachedFrom(FixedFiles), {"-c"}))' = Lines(Led(ReachedFrom(FixedFiles), {"-c"}))
<1>1. \A f, o : Lines(Below(f, o))' = Lines(Below(f, o))
  BY DEF Lines, RequirementLines, Below, Led, ReachedFrom, Leads, Within
<1>2. Lines(Declarable)' = Lines(Declarable)
  BY DEF Lines, RequirementLines, Declarable, Led, ReachedFrom, Leads, Within
<1>3. Lines(Led(ReachedFrom(FixedFiles), {"-c"}))' = Lines(Led(ReachedFrom(FixedFiles), {"-c"}))
  BY DEF Lines, RequirementLines, FixedFiles, IsFile, Led, ReachedFrom, Leads, Within
<1> QED
  BY <1>1, <1>2, <1>3

LEMMA FaultRests ==
  ASSUME disk' = disk
  PROVE  \A why : Fault(why, FixedFiles)' <=> Fault(why, FixedFiles)
<1>1. ReachedFrom(FixedFiles)' = ReachedFrom(FixedFiles)
  BY DEF ReachedFrom, FixedFiles, IsFile, Led, Leads, Within
<1> QED
  BY <1>1, DiskRests DEF Fault

LEMMA SourcesRest ==
  ASSUME SourcesInv, GroupedInv, UNCHANGED unmoved, parsed.read # {}, parsed'.read # {}
  PROVE  SourcesInv' /\ GroupedInv'
<1>1. /\ \A i : Handled(i)' <=> Handled(i)
      /\ \A f : IsFile(f)' <=> IsFile(f)
      /\ \A f : Taken(f)' <=> Taken(f)
  <2>1. disk' = disk
    BY DEF unmoved
  <2>2. \A f : Taken(f)' <=> Taken(f)
    BY <2>1, LinesRest, DiskRests DEF unmoved, Taken
  <2> QED
    BY <2>2 DEF unmoved, Handled, IsFile
<1>2. disk' = disk
  BY DEF unmoved
<1>3. SourcesInv'
  BY <1>1, <1>2, LinesRest, FaultRests DEF SourcesInv, unmoved
<1> QED
  BY <1>3 DEF GroupedInv, unmoved, InFixed

LEMMA OpenedParsed ==
  ASSUME NEW f, NEW mode, NEW context, NEW start \in RequirementsExtraction, f \in Paths,
         Open(f, mode, context, start)
  PROVE  /\ parsed' \in RequirementsExtraction
         /\ parsed'.declared = start.declared /\ parsed'.constraints = start.constraints
         /\ start.read \subseteq parsed'.read
<1> DEFINE kind == IF f \in OnStack THEN "cycle" ELSE disk[f].is
<1>1. parsed' = [start EXCEPT !.read = IF kind = "cycle" THEN @ ELSE @ \cup {f},
                              !.skipped = @ \/ kind = "undecodable"]
  BY DEF Open
<1> HIDE DEF kind
<1> QED
  BY <1>1 DEF RequirementsExtraction

LEMMA Opening ==
  ASSUME TypeInv, NEW f \in Paths, NEW mode, NEW context, NEW start \in RequirementsExtraction,
         Open(f, mode, context, start)
  PROVE  \/ f \in OnStack /\ failed' = "cycle" /\ frames' = << >> /\ parsed'.read = start.read
         \/ /\ f \notin OnStack /\ parsed'.read = start.read \cup {f}
            /\ \/ disk[f].is = "unreadable" /\ failed' = "unreadable" /\ frames' = << >>
               \/ disk[f].is = "undecodable" /\ failed' = "no" /\ frames' = PastLine
               \/ /\ disk[f].is \notin {"unreadable", "undecodable"} /\ failed' = "no"
                  /\ frames' = Append(PastLine,
                                 [file |-> f, line |-> 1, mode |-> mode, context |-> context])
<1> DEFINE kind == IF f \in OnStack THEN "cycle" ELSE disk[f].is
<1>1. disk[f].is \in {"absent", "outside", "unreadable", "undecodable", "text"}
  BY DiskIsOK, LineTypes
<1>2. parsed' = [start EXCEPT !.read = IF kind = "cycle" THEN @ ELSE @ \cup {f},
                              !.skipped = @ \/ kind = "undecodable"]
  BY DEF Open
<1>3. /\ failed' = IF kind \in {"cycle", "unreadable"} THEN kind ELSE "no"
      /\ frames' = IF kind \in {"cycle", "unreadable"} THEN << >>
                   ELSE IF kind = "undecodable" THEN PastLine
                   ELSE Append(PastLine,
                          [file |-> f, line |-> 1, mode |-> mode, context |-> context])
  BY DEF Open
<1>4. kind = "cycle" <=> f \in OnStack
  BY <1>1
<1>5. f \notin OnStack => kind = disk[f].is
  OBVIOUS
<1> HIDE DEF kind
<1>6. parsed'.read = IF kind = "cycle" THEN start.read ELSE start.read \cup {f}
  BY <1>2 DEF RequirementsExtraction
<1> QED
  BY <1>1, <1>3, <1>4, <1>5, <1>6

LEMMA NotedFacts ==
  ASSUME TypeInv, AtLine, NEW i \in 0 .. Len(Tried)
  PROVE  /\ Noted(i) \in RequirementsExtraction
         /\ Noted(i).declared = parsed.declared /\ Noted(i).constraints = parsed.constraints
         /\ Noted(i).read = parsed.read
<1>1. Tried \in Seq(Paths)
  BY LineFacts
<1>2. /\ SubSeq(Tried, 1, i) \in Seq(Paths)
  BY <1>1, PrefixOf
<1>3. \A p \in Elements(SubSeq(Tried, 1, i)) : p \in Paths
  BY <1>2 DEF Elements
<1>4. parsed \in RequirementsExtraction
  BY DEF TypeInv
<1> QED
  BY <1>3, <1>4 DEF Noted, RequirementsExtraction

----------------------------------------------------------------------------
LEMMA IsAtTypes ==
  ASSUME TypeInv, NEW i, NEW f, NEW l, NEW m, IsAt(i, f, l, m)
  PROVE  i \in Nat /\ f \in Paths /\ l \in Nat /\ m \in Modes
<1>1. frames \in Seq(Frame) /\ i \in 1 .. Len(frames)
  BY DEF TypeInv, IsAt
<1>2. frames[i] \in Frame /\ i \in Nat
  BY <1>1
<1> QED
  BY <1>2 DEF IsAt, Frame

LEMMA TopBelongs ==
  ASSUME TypeInv, RootInv, frames # << >>
  PROVE  \A r \in Paths : Starts(r) => Belongs(r, Top.file, Top.mode)
BY TopFacts DEF RootInv

LEMMA TypesRest ==
  ASSUME TypeInv, UNCHANGED unmoved, frames' \in Seq(Frame), parsed' \in RequirementsExtraction,
         failed' \in {"no", "cycle", "unreadable", "missing", "outside"}
  PROVE  TypeInv'
BY DEF TypeInv, unmoved

LEMMA GotRests ==
  ASSUME parsed'.declared = parsed.declared, parsed'.constraints = parsed.constraints
  PROVE  /\ \A m : Got(m)' = Got(m)
         /\ Grown
BY DEF Got, Grown

LEMMA LastsRest ==
  ASSUME IdleInv, frames # << >>, UNCHANGED unmoved, parsed.read \subseteq parsed'.read,
         frames' # << >> => failed' = "no",
         \A e \in Elements(parsed'.declared) : e.file \in parsed'.read
  PROVE  IdleInv' /\ parsed.read # {} /\ parsed'.read # {}
<1>1. parsed.read # {} /\ parsed'.read # {} /\ outcome' = "running" /\ next' > 1
  BY DEF IdleInv, unmoved
<1> QED
  BY <1>1 DEF IdleInv

(* A line is read, and the next one is to come.                            *)
LEMMA PastKeeps ==
  ASSUME ExtractInv, AtLine, UNCHANGED unmoved, frames' = PastLine, failed' = "no",
         parsed' \in RequirementsExtraction, parsed.read \subseteq parsed'.read,
         \A e \in Elements(parsed'.declared) : e.file \in parsed'.read, Grown,
         NEW t, NEW p, NEW q, t = Top.file, p = Top.line, q = Top.mode, LineRead(t, p, q)',
         \A m \in Modes : \A x \in Got(m)' : x \in Got(m) \/ (m = q /\ x \in Lines({t}))
  PROVE  ExtractInv'
<1>1. /\ TypeInv /\ IdleInv /\ FrameInv /\ LinkInv /\ ChainInv /\ RootInv
      /\ SourcesInv /\ GroupedInv
  BY DEF ExtractInv
<1>2. frames # << >> /\ disk' = disk /\ next' = next
  BY DEF AtLine, unmoved
<1>3. /\ Len(frames) \in Nat /\ Top.line \in Nat /\ q \in Modes
      /\ IsAt(Len(frames), t, p, q)
  BY <1>1, <1>2, TopFacts
<1>4. /\ frames' \in Seq(Frame) /\ frames' # << >>
      /\ \A i, f, l, m :
           IsAt(i, f, l, m)' =>
             \/ i < Len(frames) /\ IsAt(i, f, l, m)
             \/ i = Len(frames) /\ f = t /\ l = p + 1 /\ m = q
  BY <1>1, <1>2, StackPast
<1>5. TypeInv'
  BY <1>1, <1>4, TypesRest
<1>6. IdleInv' /\ parsed.read # {} /\ parsed'.read # {}
  BY <1>1, <1>2, LastsRest
<1>7. FrameInv' /\ LinkInv' /\ ChainInv'
  BY <1>1, <1>2, PastLineKeeps
<1>8. RootInv'
  <2>1. ASSUME NEW i, NEW f, NEW l, NEW m, IsAt(i, f, l, m)'
        PROVE  \E k \in Nat : IsAt(i, f, k, m)
    <3>1. CASE i < Len(frames) /\ IsAt(i, f, l, m)
      <4>1. l \in Nat
        BY <1>1, <3>1, IsAtTypes
      <4> QED
        BY <3>1, <4>1
    <3>2. CASE i = Len(frames) /\ f = t /\ l = p + 1 /\ m = q
      BY <1>3, <3>2
    <3> QED
      BY <1>4, <2>1, <3>1, <3>2
  <2>2. \A r \in Paths : Starts(r) => Belongs(r, t, q)
    BY <1>1, <1>2, TopBelongs
  <2>3. \A why : failed' = why => \A r \in Paths : Starts(r) => Fault(why, {r})
    BY DEF Fault
  <2> QED
    BY <1>1, <1>2, <1>3, <1>4, <1>6, <2>1, <2>2, <2>3, RootKeeps
<1>9. SourcesInv' /\ GroupedInv'
  BY <1>1, <1>6, SourcesRest
<1> QED
  BY <1>5, <1>6, <1>7, <1>8, <1>9 DEF ExtractInv

(* A line leads to a file that is taken on.                                *)
LEMMA PushedKeeps ==
  ASSUME ExtractInv, AtLine, UNCHANGED unmoved, failed' = "no",
         NEW frame \in Frame, frames' = Append(PastLine, frame), frame.line = 1,
         OptionAt(Top.file, Top.line) \in Options, frame.file \in LedAt(Top.file, Top.line),
         frame.mode = ModeOf(OptionAt(Top.file, Top.line)),
         disk[frame.file].is # "unreadable", frame.file \in parsed'.read,
         parsed' \in RequirementsExtraction, parsed.read \subseteq parsed'.read,
         parsed'.declared = parsed.declared, parsed'.constraints = parsed.constraints
  PROVE  ExtractInv'
<1>1. /\ TypeInv /\ IdleInv /\ FrameInv /\ LinkInv /\ ChainInv /\ RootInv
      /\ SourcesInv /\ GroupedInv
  BY DEF ExtractInv
<1>2. frames # << >> /\ disk' = disk /\ next' = next
  BY DEF AtLine, unmoved
<1>3. PICK t, p, q : t = Top.file /\ p = Top.line /\ q = Top.mode
  OBVIOUS
<1>4. /\ Len(frames) \in Nat /\ Len(frames) > 0 /\ p \in Nat /\ q \in Modes /\ t \in Paths
      /\ IsAt(Len(frames), t, p, q) /\ p \in 1 .. Last(t) /\ DiskOK
  BY <1>1, <1>2, <1>3, TopFacts, LineFacts, DiskIsOK
<1>5. /\ frames' \in Seq(Frame) /\ frames' # << >>
      /\ \A i, f, l, m :
           IsAt(i, f, l, m)' =>
             \/ i < Len(frames) /\ IsAt(i, f, l, m)
             \/ i = Len(frames) /\ f = t /\ l = p + 1 /\ m = q
             \/ i = Len(frames) + 1 /\ f = frame.file /\ l = frame.line /\ m = frame.mode
  BY <1>1, <1>2, <1>3, StackPush
<1>6. Grown /\ \A m : Got(m)' = Got(m)
  BY GotRests
<1>7. TypeInv'
  BY <1>1, <1>5, TypesRest
<1>8. \A e \in Elements(parsed'.declared) : e.file \in parsed'.read
  BY <1>1 DEF IdleInv
<1>9. IdleInv' /\ parsed.read # {} /\ parsed'.read # {}
  BY <1>1, <1>2, <1>8, LastsRest
<1>10. FrameInv' /\ LinkInv' /\ ChainInv'
  BY <1>1, <1>2, <1>6, PushKeeps
<1>11. RootInv'
  <2>1. \A r \in Paths : Starts(r) => Belongs(r, t, q)
    BY <1>1, <1>2, <1>3, TopBelongs
  <2>2. ASSUME NEW i, NEW f, NEW l, NEW m, IsAt(i, f, l, m)'
        PROVE  \/ \E k \in Nat : IsAt(i, f, k, m)
               \/ i # 1 /\ \A r \in Paths : Starts(r) => Belongs(r, f, m)
    <3>1. CASE i < Len(frames) /\ IsAt(i, f, l, m)
      <4>1. l \in Nat
        BY <1>1, <3>1, IsAtTypes
      <4> QED
        BY <3>1, <4>1
    <3>2. CASE i = Len(frames) /\ f = t /\ l = p + 1 /\ m = q
      BY <1>4, <3>2
    <3>3. CASE i = Len(frames) + 1 /\ f = frame.file /\ l = frame.line /\ m = frame.mode
      <4>1. i # 1
        BY <1>4, <3>3
      <4>2. f \in LedAt(t, p) /\ OptionAt(t, p) \in Options /\ m = ModeOf(OptionAt(t, p))
        BY <1>3, <3>3
      <4>3. \A r \in Paths : Starts(r) => Belongs(r, f, m)
        BY <1>4, <2>1, <4>2, ChildBelongs
      <4> QED
        BY <4>1, <4>3
    <3> QED
      BY <1>5, <2>2, <3>1, <3>2, <3>3
  <2>3. \A why : failed' = why => \A r \in Paths : Starts(r) => Fault(why, {r})
    BY DEF Fault
  <2> QED
    BY <1>1, <1>2, <1>4, <1>5, <1>6, <1>9, <2>1, <2>2, <2>3, RootKeeps
<1>12. SourcesInv' /\ GroupedInv'
  BY <1>1, <1>9, SourcesRest
<1> QED
  BY <1>7, <1>9, <1>10, <1>11, <1>12 DEF ExtractInv

(* A line stops everything.                                                *)
LEMMA StoppedKeeps ==
  ASSUME ExtractInv, AtLine, UNCHANGED unmoved, frames' = << >>,
         NEW why \in {"cycle", "unreadable", "missing", "outside"}, failed' = why,
         \A r \in Paths : Starts(r) => Fault(why, {r}),
         parsed' \in RequirementsExtraction, parsed.read \subseteq parsed'.read,
         parsed'.declared = parsed.declared, parsed'.constraints = parsed.constraints
  PROVE  ExtractInv'
<1>1. /\ TypeInv /\ IdleInv /\ FrameInv /\ LinkInv /\ ChainInv /\ RootInv
      /\ SourcesInv /\ GroupedInv
  BY DEF ExtractInv
<1>2. frames # << >> /\ disk' = disk /\ next' = next
  BY DEF AtLine, unmoved
<1>3. /\ frames' \in Seq(Frame)
      /\ \A i, f, l, m : ~ IsAt(i, f, l, m)'
      /\ \A i, f : ~ OnStackAt(i, f)'
  BY StackEmpty
<1>4. \A m : Got(m)' = Got(m)
  BY GotRests
<1>5. TypeInv'
  BY <1>1, <1>3, TypesRest
<1>6. \A e \in Elements(parsed'.declared) : e.file \in parsed'.read
  BY <1>1 DEF IdleInv
<1>7. IdleInv' /\ parsed.read # {} /\ parsed'.read # {}
  BY <1>1, <1>2, <1>6, LastsRest
<1>8. FrameInv' /\ LinkInv' /\ ChainInv'
  BY <1>3 DEF FrameInv, LinkInv, ChainInv
<1>9. RootInv'
  <2>1. PICK t, q : t = Top.file /\ q = Top.mode
    OBVIOUS
  <2>2. q \in Modes /\ \A r \in Paths : Starts(r) => Belongs(r, t, q)
    BY <1>1, <1>2, <2>1, TopBelongs, TopFacts
  <2>3. failed' # "no"
    OBVIOUS
  <2> QED
    BY <1>1, <1>2, <1>3, <1>4, <1>7, <2>2, <2>3, RootKeeps
<1>10. SourcesInv' /\ GroupedInv'
  BY <1>1, <1>7, SourcesRest
<1> QED
  BY <1>5, <1>7, <1>8, <1>9, <1>10 DEF ExtractInv

LEMMA EndFileKeeps ==
  ASSUME ExtractInv, EndFile
  PROVE  ExtractInv'
<1>1. /\ TypeInv /\ IdleInv /\ FrameInv /\ LinkInv /\ ChainInv /\ RootInv
      /\ SourcesInv /\ GroupedInv
  BY DEF ExtractInv
<1>2. /\ frames # << >> /\ ~ AtLine /\ frames' = SubSeq(frames, 1, Len(frames) - 1)
      /\ parsed' = parsed /\ failed' = failed /\ UNCHANGED unmoved
      /\ disk' = disk /\ next' = next
  BY DEF EndFile, unmoved
<1>3. PICK t, q : t = Top.file /\ q = Top.mode
  OBVIOUS
<1>4. /\ Len(frames) \in Nat /\ Len(frames) > 0 /\ Top.line \in Nat /\ q \in Modes /\ t \in Paths
      /\ IsAt(Len(frames), t, Top.line, q) /\ Whole(t, q)
  BY <1>1, <1>2, <1>3, TopFacts, FileWhole
<1>5. /\ frames' \in Seq(Frame) /\ Len(frames') = Len(frames) - 1
      /\ \A i, f, l, m : IsAt(i, f, l, m)' => i < Len(frames) /\ IsAt(i, f, l, m)
  BY <1>1, <1>2, StackPop
<1>6. TypeInv'
  BY <1>1, <1>2, <1>5, TypesRest DEF TypeInv
<1>7. IdleInv' /\ parsed.read # {} /\ parsed'.read # {}
  BY <1>1, <1>2, LastsRest DEF IdleInv
<1>8. FrameInv' /\ LinkInv' /\ ChainInv'
  BY <1>1, <1>2, PopKeeps
<1>9. Grown /\ \A m : Got(m)' = Got(m)
  BY <1>2, GotRests
<1>10. RootInv'
  <2>1. ASSUME NEW i, NEW f, NEW l, NEW m, IsAt(i, f, l, m)'
        PROVE  \E k \in Nat : IsAt(i, f, k, m)
    <3>1. i < Len(frames) /\ IsAt(i, f, l, m)
      BY <1>5, <2>1
    <3>2. l \in Nat
      BY <1>1, <3>1, IsAtTypes
    <3> QED
      BY <3>1, <3>2
  <2>2. \A r \in Paths : Starts(r) => Belongs(r, t, q)
    BY <1>1, <1>2, <1>3, TopBelongs
  <2>3. ASSUME frames' = << >>, NEW r \in Paths, Starts(r)
        PROVE  Whole(r, "dependencies")'
    <3>1. Len(frames) = 1
      BY <1>4, <1>5, <2>3
    <3>2. t = r /\ q = "dependencies"
      BY <1>1, <1>4, <2>3, <3>1 DEF RootInv
    <3>3. Whole(r, "dependencies") /\ "dependencies" \in Modes
      BY <1>4, <3>2
    <3> QED
      BY <1>2, <1>9, <3>3, GrownKeeps
  <2>4. \A why : failed' = why => \A r \in Paths : Starts(r) => Fault(why, {r})
    BY <1>1, <1>2 DEF RootInv
  <2> QED
    BY <1>1, <1>2, <1>4, <1>7, <1>9, <2>1, <2>2, <2>3, <2>4, RootKeeps
<1>11. SourcesInv' /\ GroupedInv'
  BY <1>1, <1>2, <1>7, SourcesRest
<1> QED
  BY <1>6, <1>7, <1>8, <1>10, <1>11 DEF ExtractInv

----------------------------------------------------------------------------
LEMMA DeclareKeeps ==
  ASSUME ExtractInv, Declare
  PROVE  ExtractInv'
<1>1. TypeInv /\ IdleInv /\ FrameInv
  BY DEF ExtractInv
<1>2. AtLine /\ TheLine.option = "none" /\ frames' = PastLine /\ failed' = failed /\ UNCHANGED unmoved
  BY DEF Declare
<1>3. PICK t, p, q, c : t = Top.file /\ p = Top.line /\ q = Top.mode /\ c = Top.context
  OBVIOUS
<1> DEFINE entry == [file |-> t, line |-> p, context |-> c]
<1>4. /\ t \in Paths /\ p \in 1 .. Last(t) /\ q \in Modes /\ c \in Contexts /\ frames # << >>
      /\ OptionAt(t, p) = "none" /\ p \in Nat /\ IsAt(Len(frames), t, p, q) /\ Len(frames) \in Nat
  BY <1>1, <1>2, <1>3, LineFacts, TopFacts
<1>5. entry \in Entry /\ entry.file = t /\ Name(entry) = <<t, p>>
  BY <1>4 DEF Entry, Name
<1>6. parsed' = IF q = "dependencies"
                THEN [parsed EXCEPT !.declared = Append(@, entry)]
                ELSE [parsed EXCEPT !.constraints = Append(@, entry)]
  BY <1>3 DEF Declare
<1> HIDE DEF entry
<1>7. /\ parsed \in RequirementsExtraction
      /\ parsed.declared \in Seq(Entry) /\ parsed.constraints \in Seq(Entry)
  BY <1>1 DEF TypeInv, RequirementsExtraction
<1>8. /\ parsed' \in RequirementsExtraction /\ parsed'.read = parsed.read
      /\ q = "dependencies" => /\ parsed'.declared = Append(parsed.declared, entry)
                               /\ parsed'.constraints = parsed.constraints
      /\ q # "dependencies" => /\ parsed'.constraints = Append(parsed.constraints, entry)
                               /\ parsed'.declared = parsed.declared
  <2>1. Append(parsed.declared, entry) \in Seq(Entry) /\ Append(parsed.constraints, entry) \in Seq(Entry)
    BY <1>5, <1>7
  <2>2. CASE q = "dependencies"
    <3>1. parsed' = [parsed EXCEPT !.declared = Append(parsed.declared, entry)]
      BY <1>6, <2>2
    <3> QED
      BY <1>7, <2>1, <2>2, <3>1 DEF RequirementsExtraction
  <2>3. CASE q # "dependencies"
    <3>1. parsed' = [parsed EXCEPT !.constraints = Append(parsed.constraints, entry)]
      BY <1>6, <2>3
    <3> QED
      BY <1>7, <2>1, <2>3, <3>1 DEF RequirementsExtraction
  <2> QED
    BY <2>2, <2>3
<1>9. /\ Elements(Append(parsed.declared, entry)) = Elements(parsed.declared) \cup {entry}
      /\ Elements(Append(parsed.constraints, entry)) = Elements(parsed.constraints) \cup {entry}
  BY <1>5, <1>7, ElementsAppend
<1>10. /\ Names(Append(parsed.declared, entry)) = Names(parsed.declared) \cup {<<t, p>>}
       /\ Names(Append(parsed.constraints, entry)) = Names(parsed.constraints) \cup {<<t, p>>}
  BY <1>5, <1>9 DEF Names
<1>11. /\ Got("dependencies")' = Got("dependencies") \cup IF q = "dependencies" THEN {<<t, p>>} ELSE {}
       /\ Got("constraints")' = Got("constraints") \cup IF q = "dependencies" THEN {} ELSE {<<t, p>>}
  BY <1>8, <1>10 DEF Got
<1>12. Grown
  BY <1>11 DEF Grown
<1>13. <<t, p>> \in Lines({t})
  BY <1>4 DEF Lines, RequirementLines, OptionAt, Last
<1>14. \A m \in Modes : \A x \in Got(m)' : x \in Got(m) \/ (m = q /\ x \in Lines({t}))
  BY <1>4, <1>11, <1>13 DEF Modes
<1>15. LineRead(t, p, q)'
  <2>1. OptionAt(t, p)' = "none"
    BY <1>2, <1>4, DiskRests DEF unmoved
  <2>2. <<t, p>> \in Got(q)'
    BY <1>4, <1>11 DEF Modes
  <2> QED
    BY <2>1, <2>2 DEF LineRead, Options
<1>16. failed' = "no"
  BY <1>1, <1>2, <1>4 DEF IdleInv
<1>17. \A e \in Elements(parsed'.declared) : e.file \in parsed'.read
  <2>1. t \in parsed.read
    BY <1>1, <1>4 DEF FrameInv
  <2>2. \A e \in Elements(parsed.declared) : e.file \in parsed.read
    BY <1>1 DEF IdleInv
  <2> QED
    BY <1>5, <1>8, <1>9, <2>1, <2>2
<1>18. parsed' \in RequirementsExtraction /\ parsed.read \subseteq parsed'.read
  BY <1>8
<1> QED
  BY <1>2, <1>3, <1>12, <1>14, <1>15, <1>16, <1>17, <1>18, PastKeeps

(* Of a line that says nothing that is taken in.                           *)
LEMMA IdlePastKeeps ==
  ASSUME ExtractInv, AtLine, UNCHANGED unmoved, frames' = PastLine, failed' = "no",
         parsed' \in RequirementsExtraction, parsed.read \subseteq parsed'.read,
         parsed'.declared = parsed.declared, parsed'.constraints = parsed.constraints,
         NEW t, NEW p, NEW q, t = Top.file, p = Top.line, q = Top.mode, LineRead(t, p, q)
  PROVE  ExtractInv'
<1>1. Grown /\ \A m : Got(m)' = Got(m)
  BY GotRests
<1>2. \A e \in Elements(parsed'.declared) : e.file \in parsed'.read
  BY DEF ExtractInv, IdleInv
<1>3. TypeInv /\ frames # << >> /\ disk' = disk
  BY DEF ExtractInv, AtLine, unmoved
<1>4. q \in Modes
  BY <1>3, TopFacts
<1>5. LineRead(t, p, q)'
  BY <1>1, <1>3, <1>4, GrownKeeps
<1>6. \A m \in Modes : \A x \in Got(m)' : x \in Got(m) \/ (m = q /\ x \in Lines({t}))
  BY <1>1
<1> QED
  BY <1>1, <1>2, <1>5, <1>6, PastKeeps

LEMMA LeaveRemoteKeeps ==
  ASSUME ExtractInv, LeaveRemote
  PROVE  ExtractInv'
<1>1. TypeInv /\ IdleInv
  BY DEF ExtractInv
<1>2. /\ AtLine /\ TheLine = Remote /\ frames' = PastLine /\ failed' = failed /\ UNCHANGED unmoved
      /\ parsed' = [parsed EXCEPT !.skipped = TRUE]
  BY DEF LeaveRemote
<1>3. PICK t, p, q : t = Top.file /\ p = Top.line /\ q = Top.mode
  OBVIOUS
<1>4. OptionAt(t, p) = "url" /\ frames # << >>
  BY <1>1, <1>2, <1>3, LineFacts DEF Remote
<1>5. LineRead(t, p, q)
  BY <1>4 DEF LineRead, Options
<1>6. /\ parsed' \in RequirementsExtraction /\ parsed'.read = parsed.read
      /\ parsed'.declared = parsed.declared /\ parsed'.constraints = parsed.constraints
  BY <1>1, <1>2 DEF TypeInv, RequirementsExtraction
<1>7. failed' = "no"
  BY <1>1, <1>2, <1>4 DEF IdleInv
<1> QED
  BY <1>2, <1>3, <1>5, <1>6, <1>7, IdlePastKeeps

LEMMA ConstraintsMissingKeeps ==
  ASSUME ExtractInv, ConstraintsMissing
  PROVE  ExtractInv'
<1>1. TypeInv /\ IdleInv
  BY DEF ExtractInv
<1>2. /\ AtLine /\ TheLine.option = "-c" /\ Unresolved /\ frames' = PastLine /\ failed' = failed
      /\ UNCHANGED unmoved /\ parsed' = Noted(Len(Tried))
  BY DEF ConstraintsMissing
<1>3. PICK t, p, q : t = Top.file /\ p = Top.line /\ q = Top.mode
  OBVIOUS
<1>4. OptionAt(t, p) = "-c" /\ LedAt(t, p) = {} /\ frames # << >> /\ Tried \in Seq(Paths)
  BY <1>1, <1>2, <1>3, LineFacts, UnresolvedLine
<1>5. LineRead(t, p, q)
  BY <1>4 DEF LineRead
<1>6. Len(Tried) \in 0 .. Len(Tried)
  BY <1>4
<1>7. /\ parsed' \in RequirementsExtraction /\ parsed'.read = parsed.read
      /\ parsed'.declared = parsed.declared /\ parsed'.constraints = parsed.constraints
  BY <1>1, <1>2, <1>6, NotedFacts
<1>8. failed' = "no"
  BY <1>1, <1>2, <1>4 DEF IdleInv
<1> QED
  BY <1>2, <1>3, <1>5, <1>7, <1>8, IdlePastKeeps

LEMMA IncludeFailsKeeps ==
  ASSUME ExtractInv, IncludeFails
  PROVE  ExtractInv'
<1>1. TypeInv /\ RootInv
  BY DEF ExtractInv
<1>2. /\ AtLine /\ TheLine.option = "-r" /\ Unresolved /\ frames' = << >>
      /\ UNCHANGED unmoved /\ parsed' = Noted(Len(Tried))
      /\ failed' = IF \E f \in Elements(Tried) : IsFile(f) THEN "outside" ELSE "missing"
  BY DEF IncludeFails
<1>3. PICK t, p, q : t = Top.file /\ p = Top.line /\ q = Top.mode
  OBVIOUS
<1>4. /\ OptionAt(t, p) = "-r" /\ LedAt(t, p) = {} /\ frames # << >> /\ Tried \in Seq(Paths)
      /\ p \in 1 .. Last(t)
  BY <1>1, <1>2, <1>3, LineFacts, UnresolvedLine
<1>5. LeadsNowhere(t)
  BY <1>4 DEF LeadsNowhere, Elements, OptionAt, LedAt, Last
<1>6. \A r \in Paths : Starts(r) => t \in ReachedFrom({r})
  BY <1>1, <1>3, <1>4, TopBelongs DEF Belongs
<1>7. Len(Tried) \in 0 .. Len(Tried)
  BY <1>4
<1>8. /\ parsed' \in RequirementsExtraction /\ parsed'.read = parsed.read
      /\ parsed'.declared = parsed.declared /\ parsed'.constraints = parsed.constraints
  BY <1>1, <1>2, <1>7, NotedFacts
<1>9. PICK why \in {"missing", "outside"} : failed' = why
  BY <1>2
<1>10. \A r \in Paths : Starts(r) => Fault(why, {r})
  BY <1>5, <1>6 DEF Fault
<1> QED
  BY <1>2, <1>8, <1>9, <1>10, StoppedKeeps

(* A file without lines is whole at once.                                  *)
LEMMA EmptyWhole ==
  ASSUME DiskOK, NEW f \in Paths, disk[f].is \notin {"text", "unreadable"}
  PROVE  \A m : Whole(f, m)
<1>1. Last(f) = 0 /\ {f} \in SUBSET Paths
  BY LineTypes
<1>2. ASSUME NEW O
      PROVE  Led({f}, O) = {}
  <2>1. \A q : q \in Led({f}, O) => \E g \in {f} : \E k \in 1 .. Last(g) : TRUE
    BY <1>1, LedIs
  <2>2. 1 .. Last(f) = {}
    BY <1>1
  <2> QED
    BY <2>1, <2>2
<1>3. ~ LeadsNowhere(f)
  BY <1>1 DEF LeadsNowhere, Elements, Last
<1>4. Sound(f)
  BY <1>2, <1>3, SoundFacts
<1>5. ReachedFrom({f}) = {f}
  BY <1>1, <1>2, ReachFacts
<1>6. Below(f, "-c") = {} /\ Below(f, "-r") = {}
  BY <1>2, <1>5 DEF Below
<1>7. Lines({f}) = {} /\ Lines({}) = {}
  BY <1>1 DEF Lines, RequirementLines, Last
<1> QED
  BY <1>4, <1>6, <1>7 DEF Whole, Given

LEMMA FollowKeeps ==
  ASSUME ExtractInv, AtLine, UNCHANGED unmoved, NEW o \in Options, TheLine.option = o,
         NEW i \in 1 .. Len(Tried), Resolves(i), NEW context \in Contexts,
         Open(Tried[i], ModeOf(o), context, Noted(i))
  PROVE  ExtractInv'
<1>1. TypeInv /\ RootInv /\ ChainInv
  BY DEF ExtractInv
<1>2. PICK t, p, q, g : t = Top.file /\ p = Top.line /\ q = Top.mode /\ g = Tried[i]
  OBVIOUS
<1>3. /\ t \in Paths /\ p \in 1 .. Last(t) /\ OptionAt(t, p) = o /\ DiskOK
      /\ g \in Paths /\ disk[g].is \notin {"absent", "outside"} /\ LedAt(t, p) = {g}
      /\ frames # << >>
  BY <1>1, <1>2, LineFacts, ResolvedLine, DiskIsOK
<1>4. i \in 0 .. Len(Tried)
  BY <1>1, LineFacts
<1>5. PICK start \in RequirementsExtraction :
        /\ start = Noted(i) /\ start.read = parsed.read
        /\ start.declared = parsed.declared /\ start.constraints = parsed.constraints
  BY <1>1, <1>4, NotedFacts
<1>6. PICK mode \in Modes : mode = ModeOf(o)
  BY DEF ModeOf, Modes
<1>7. Open(g, mode, context, start)
  BY <1>2, <1>5, <1>6
<1>8. /\ parsed' \in RequirementsExtraction
      /\ parsed'.declared = parsed.declared /\ parsed'.constraints = parsed.constraints
      /\ parsed.read \subseteq parsed'.read
  <2>1. TypeInv /\ g \in Paths
    BY <1>1, <1>3
  <2>2. /\ parsed' \in RequirementsExtraction
        /\ parsed'.declared = start.declared /\ parsed'.constraints = start.constraints
        /\ start.read \subseteq parsed'.read
    BY <1>5, <1>7, <2>1, OpenedParsed
  <2> QED
    BY <1>5, <2>2
<1>9. g \in Led({t}, Options)
  BY <1>3, LedByLine
<1>10. \A r \in Paths : Starts(r) => g \in ReachedFrom({r})
  <2>1. ASSUME NEW r \in Paths, Starts(r)
        PROVE  g \in ReachedFrom({r})
    <3>1. t \in ReachedFrom({r}) /\ {r} \in SUBSET Paths
      BY <1>1, <1>2, <1>3, <2>1, TopBelongs DEF Belongs
    <3> QED
      BY <1>3, <1>9, <3>1, ReachGoesOn
  <2> QED
    BY <2>1
<1>11. CASE g \in OnStack /\ failed' = "cycle" /\ frames' = << >>
  <2>1. Cyclic(g)
    BY <1>1, <1>2, <1>3, <1>11, CycleFound
  <2>2. \A r \in Paths : Starts(r) => Fault("cycle", {r})
    BY <1>10, <2>1 DEF Fault
  <2> QED
    BY <1>8, <1>11, <2>2, StoppedKeeps
<1>12. CASE disk[g].is = "unreadable" /\ failed' = "unreadable" /\ frames' = << >>
  <2>1. \A r \in Paths : Starts(r) => Fault("unreadable", {r})
    BY <1>10, <1>12 DEF Fault
  <2> QED
    BY <1>8, <1>12, <2>1, StoppedKeeps
<1>13. CASE disk[g].is = "undecodable" /\ failed' = "no" /\ frames' = PastLine
  <2>1. Whole(g, mode)
    BY <1>3, <1>13, EmptyWhole
  <2>2. LineRead(t, p, q)
    BY <1>3, <1>6, <2>1 DEF LineRead, Options
  <2> QED
    BY <1>2, <1>8, <1>13, <2>2, IdlePastKeeps
<1>14. CASE /\ disk[g].is \notin {"unreadable", "undecodable"} /\ failed' = "no"
            /\ parsed'.read = start.read \cup {g}
            /\ frames' = Append(PastLine,
                           [file |-> g, line |-> 1, mode |-> mode, context |-> context])
  <2>1. [file |-> g, line |-> 1, mode |-> mode, context |-> context] \in Frame
    BY <1>3 DEF Frame
  <2>2. PICK frame \in Frame : frame = [file |-> g, line |-> 1, mode |-> mode, context |-> context]
    BY <2>1
  <2>3. frame.file = g /\ frame.line = 1 /\ frame.mode = mode
    BY <2>2
  <2> QED
    BY <1>2, <1>3, <1>6, <1>8, <1>14, <2>2, <2>3, PushedKeeps
<1> QED
  BY <1>1, <1>3, <1>7, <1>11, <1>12, <1>13, <1>14, Opening

LEMMA FollowBothKeep ==
  ASSUME ExtractInv, FollowRequirements \/ FollowConstraints
  PROVE  ExtractInv'
<1>1. TypeInv
  BY DEF ExtractInv
<1>2. Top.context \in Contexts /\ \A f \in Paths : ContextOf(f) \in Contexts
  <2>1. AtLine
    BY DEF FollowRequirements, FollowConstraints
  <2>2. Top.context \in Contexts
    BY <1>1, <2>1, TopFacts DEF AtLine
  <2> QED
    BY <2>2 DEF ContextOf, Contexts
<1>3. CASE FollowRequirements
  <2>1. AtLine /\ TheLine.option = "-r" /\ UNCHANGED unmoved
    BY <1>3 DEF FollowRequirements
  <2>2. PICK i \in 1 .. Len(Tried) :
          /\ Resolves(i)
          /\ Open(Tried[i], "dependencies", ContextOf(Tried[i]), Noted(i))
    BY <1>3 DEF FollowRequirements
  <2>3. PICK c \in Contexts : c = ContextOf(Tried[i])
    BY <1>1, <1>2, <2>1, <2>2, ResolvedLine
  <2>4. Open(Tried[i], ModeOf("-r"), c, Noted(i)) /\ "-r" \in Options
    BY <2>2, <2>3 DEF ModeOf, Options
  <2> QED
    BY <2>1, <2>2, <2>4, FollowKeeps
<1>4. CASE FollowConstraints
  <2>1. AtLine /\ TheLine.option = "-c" /\ UNCHANGED unmoved
    BY <1>4 DEF FollowConstraints
  <2>2. PICK i \in 1 .. Len(Tried) :
          /\ Resolves(i)
          /\ Open(Tried[i], "constraints", Top.context, Noted(i))
    BY <1>4 DEF FollowConstraints
  <2>3. PICK c \in Contexts : c = Top.context
    BY <1>2
  <2>4. Open(Tried[i], ModeOf("-c"), c, Noted(i)) /\ "-c" \in Options
    BY <2>2, <2>3 DEF ModeOf, Options
  <2> QED
    BY <2>1, <2>2, <2>4, FollowKeeps
<1> QED
  BY <1>3, <1>4

----------------------------------------------------------------------------
(* The roots.                                                              *)
LEMMA RootFacts ==
  /\ Roots \in Seq(Paths) /\ Len(Roots) \in Nat /\ Len(Fixed) \in Nat
  /\ Len(Fixed) <= Len(Roots)
  /\ \A i \in 1 .. Len(Fixed) : Roots[i] = Fixed[i] /\ Fixed[i] \in Paths
  /\ \A i \in 1 .. Len(Roots) : Roots[i] \in Paths /\ Roots[i] \in RootFiles
  /\ RootFiles \in SUBSET Paths
<1>1. /\ Fixed \in Seq(Paths) /\ Extra \in Seq(Paths)
      /\ Len(Fixed) \in Nat /\ Len(Extra) \in Nat
  BY RootsAssumption
<1>2. /\ Roots \in Seq(Paths) /\ Len(Roots) = Len(Fixed) + Len(Extra)
      /\ \A i \in 1 .. Len(Fixed) : Roots[i] = Fixed[i]
  BY <1>1 DEF Roots
<1>3. \A i \in 1 .. Len(Roots) : Roots[i] \in Paths
  BY <1>2
<1> QED
  BY <1>1, <1>2, <1>3 DEF RootFiles, Elements

Fresh ==
  /\ next = 1 /\ frames = << >> /\ parsed = NothingParsed /\ failed = "no"
  /\ sources = NoSources /\ outcome = "running"

LEMMA NoneNamed ==
  Names(<< >>) = {} /\ Elements(<< >>) = {}
BY DEF Names, Elements

LEMMA FreshFacts ==
  ASSUME Fresh, disk \in [Paths -> UNION {States[p] : p \in Paths}],
         \A p \in Paths : disk[p] \in States[p]
  PROVE  ExtractInv
<1>1. TypeInv
  <2>1. << >> \in Seq(Frame) /\ << >> \in Seq(Entry)
        /\ << >> \in Seq([file : Paths, line : Nat, context : Contexts \cup Paths])
    OBVIOUS
  <2>2. parsed \in RequirementsExtraction
    BY <2>1 DEF Fresh, NothingParsed, RequirementsExtraction
  <2> QED
    BY <2>1, <2>2, RootFacts DEF TypeInv, Fresh, NoSources
<1>2. parsed.read = {} /\ sources.declared = << >> /\ sources.constraints = << >> /\ sources.names = {}
      /\ parsed.declared = << >>
  BY DEF Fresh, NothingParsed, NoSources
<1>3. IdleInv
  BY <1>2, NoneNamed DEF IdleInv, Fresh
<1>4. FrameInv /\ LinkInv /\ ChainInv
  <2>1. Len(frames) = 0
    BY DEF Fresh
  <2>2. \A i, f, l, m : ~ IsAt(i, f, l, m) /\ ~ OnStackAt(i, f)
    BY <2>1 DEF IsAt, OnStackAt
  <2> QED
    BY <2>2 DEF FrameInv, LinkInv, ChainInv
<1>5. RootInv
  BY <1>2 DEF RootInv, Starts
<1>6. SourcesInv
  <2>1. \A i \in 1 .. Len(Fixed) : ~ Handled(i)
    BY RootFacts DEF Handled, Fresh
  <2>2. \A why : outcome = why => Fault(why, FixedFiles)
    BY DEF Fresh, Fault
  <2> QED
    BY <1>2, <2>1, <2>2, NoneNamed DEF SourcesInv
<1>7. GroupedInv
  BY <1>2, NoneNamed DEF GroupedInv
<1> QED
  BY <1>1, <1>3, <1>4, <1>5, <1>6, <1>7 DEF ExtractInv

LEMMA BeginsWell ==
  ExtractInit => ExtractInv
BY FreshFacts, StatesAssumption DEF ExtractInit, Fresh

(* Between two files nothing is parsed.                                    *)
LEMMA Between ==
  ASSUME frames' = << >>, parsed' = NothingParsed, failed' = "no"
  PROVE  /\ FrameInv' /\ LinkInv' /\ ChainInv' /\ RootInv'
         /\ parsed' \in RequirementsExtraction /\ parsed'.read = {} /\ frames' \in Seq(Frame)
         /\ (outcome' = "done" => next' > Len(Roots))
              => IdleInv'
<1>1. /\ parsed' \in RequirementsExtraction /\ parsed'.read = {} /\ frames' \in Seq(Frame)
      /\ parsed'.declared = << >>
  <2>1. << >> \in Seq(Frame) /\ << >> \in Seq(Entry)
    OBVIOUS
  <2> QED
    BY <2>1 DEF NothingParsed, RequirementsExtraction
<1>2. \A i, f, l, m : ~ IsAt(i, f, l, m)' /\ ~ OnStackAt(i, f)'
  BY StackEmpty
<1>3. FrameInv' /\ LinkInv' /\ ChainInv'
  BY <1>2 DEF FrameInv, LinkInv, ChainInv
<1>4. RootInv'
  BY <1>1 DEF RootInv, Starts
<1>5. ASSUME outcome' = "done" => next' > Len(Roots)
      PROVE  IdleInv'
  BY <1>1, <1>5, NoneNamed DEF IdleInv
<1> QED
  BY <1>1, <1>3, <1>4, <1>5

LEMMA EditFileKeeps ==
  ASSUME ExtractInv, NEW f \in Paths, EditFile(f)
  PROVE  ExtractInv'
<1>1. TypeInv /\ IdleInv
  BY DEF ExtractInv
<1>2. PICK to \in States[f] : disk' = [disk EXCEPT ![f] = to]
  BY DEF EditFile
<1>3. /\ outcome # "running" /\ next' = 1 /\ sources' = NoSources /\ outcome' = "running"
      /\ frames' = frames /\ parsed' = parsed /\ failed' = failed
  BY DEF EditFile
<1>4. frames = << >> /\ parsed = NothingParsed /\ failed = "no"
  BY <1>1, <1>3 DEF IdleInv
<1>5. /\ disk' \in [Paths -> UNION {States[p] : p \in Paths}]
      /\ \A p \in Paths : disk'[p] \in States[p]
  BY <1>1, <1>2 DEF TypeInv
<1>6. /\ FrameInv' /\ LinkInv' /\ ChainInv' /\ RootInv' /\ IdleInv'
      /\ parsed' \in RequirementsExtraction /\ frames' \in Seq(Frame)
  BY <1>3, <1>4, Between
<1>7. TypeInv'
  <2>1. << >> \in Seq(Entry) /\ << >> \in Seq([file : Paths, line : Nat, context : Contexts \cup Paths])
    OBVIOUS
  <2> QED
    BY <1>3, <1>4, <1>5, <1>6, <2>1, RootFacts DEF TypeInv, NoSources
<1>8. SourcesInv' /\ GroupedInv'
  <2>1. \A i \in 1 .. Len(Fixed) : ~ Handled(i)'
    BY <1>3, RootFacts DEF Handled
  <2>2. \A why : outcome' = why => Fault(why, FixedFiles)'
    BY <1>3 DEF Fault
  <2>3. sources'.declared = << >> /\ sources'.constraints = << >> /\ sources'.names = {}
    BY <1>3 DEF NoSources
  <2> QED
    BY <2>1, <2>2, <2>3, NoneNamed DEF SourcesInv, GroupedInv
<1> QED
  BY <1>6, <1>7, <1>8 DEF ExtractInv

LEMMA PassOverKeeps ==
  ASSUME ExtractInv, PassOver
  PROVE  ExtractInv'
<1>1. TypeInv /\ IdleInv /\ SourcesInv /\ GroupedInv
  BY DEF ExtractInv
<1>2. /\ outcome = "running" /\ frames = << >> /\ parsed = NothingParsed /\ next <= Len(Roots)
      /\ ~ IsRead(next) /\ next' = next + 1
      /\ UNCHANGED <<disk, frames, parsed, failed, sources, outcome>>
  BY DEF PassOver, AtRoot
<1>3. next \in Nat /\ next > 0 /\ next' \in 1 .. Len(Roots) + 1
  BY <1>1, <1>2, RootFacts DEF TypeInv
<1>4. failed = "no"
  BY <1>1, <1>2 DEF IdleInv, NothingParsed
<1>5. /\ FrameInv' /\ LinkInv' /\ ChainInv' /\ RootInv' /\ IdleInv'
  BY <1>2, <1>4, Between
<1>6. TypeInv'
  BY <1>1, <1>2, <1>3 DEF TypeInv
<1>7. ASSUME NEW i \in 1 .. Len(Fixed), Handled(i)', IsFile(Fixed[i])'
      PROVE  Taken(Fixed[i])'
  <2>1. IsFile(Fixed[i])
    BY <1>2, <1>7 DEF IsFile
  <2>2. i # next
    BY <1>2, <2>1, RootFacts DEF IsRead, InFixed
  <2>3. i < next
    BY <1>3, <1>2, <1>7, <2>2, RootFacts DEF Handled
  <2>4. Handled(i)
    BY <1>2, <2>3 DEF Handled, NothingParsed
  <2>5. Taken(Fixed[i])
    BY <1>1, <2>1, <2>4 DEF SourcesInv
  <2> QED
    BY <1>2, <2>5, LinesRest, DiskRests DEF Taken
<1>8. SourcesInv'
  BY <1>1, <1>2, <1>7, LinesRest, FaultRests DEF SourcesInv
<1>9. GroupedInv'
  BY <1>1, <1>2, <1>3, RootFacts DEF GroupedInv, InFixed
<1> QED
  BY <1>5, <1>6, <1>8, <1>9 DEF ExtractInv

LEMMA ExtractedKeeps ==
  ASSUME ExtractInv, Extracted
  PROVE  ExtractInv'
<1>1. TypeInv /\ IdleInv /\ SourcesInv /\ GroupedInv
  BY DEF ExtractInv
<1>2. /\ outcome = "running" /\ frames = << >> /\ parsed = NothingParsed /\ next > Len(Roots)
      /\ outcome' = "done" /\ UNCHANGED <<disk, next, frames, parsed, failed, sources>>
  BY DEF Extracted
<1>3. failed = "no"
  BY <1>1, <1>2 DEF IdleInv, NothingParsed
<1>4. /\ FrameInv' /\ LinkInv' /\ ChainInv' /\ RootInv' /\ IdleInv'
  BY <1>2, <1>3, Between
<1>5. TypeInv'
  BY <1>1, <1>2 DEF TypeInv
<1>6. /\ \A i : Handled(i)' => Handled(i)
      /\ \A f : Taken(f)' <=> Taken(f)
      /\ \A f : IsFile(f)' <=> IsFile(f)
  <2>1. \A i : Handled(i)' => Handled(i)
    BY <1>2 DEF Handled
  <2>2. \A f : Taken(f)' <=> Taken(f)
    <3>1. disk' = disk /\ sources' = sources
      BY <1>2
    <3> QED
      BY ONLY <3>1, LinesRest, DiskRests DEF Taken
  <2> QED
    BY <1>2, <2>1, <2>2 DEF IsFile
<1>7. \A why : outcome' = why => Fault(why, FixedFiles)
  BY <1>2 DEF Fault
<1>8. SourcesInv'
  BY <1>1, <1>2, <1>6, <1>7, LinesRest, FaultRests DEF SourcesInv
<1>9. GroupedInv'
  BY <1>1, <1>2 DEF GroupedInv, InFixed
<1> QED
  BY <1>4, <1>5, <1>8, <1>9 DEF ExtractInv

----------------------------------------------------------------------------
LEMMA StartFileKeeps ==
  ASSUME ExtractInv, StartFile
  PROVE  ExtractInv'
<1>1. TypeInv /\ IdleInv /\ SourcesInv /\ GroupedInv
  BY DEF ExtractInv
<1>2. /\ outcome = "running" /\ frames = << >> /\ parsed = NothingParsed /\ next <= Len(Roots)
      /\ IsRead(next) /\ next' = next + 1 /\ UNCHANGED <<disk, sources, outcome>>
  BY DEF StartFile, AtRoot
<1>3. PICK r, c : r = Roots[next] /\ c = IF InFixed(next) THEN Usual[r] ELSE "runtime"
  OBVIOUS
<1>4. next \in Nat /\ next > 0 /\ next' \in 1 .. Len(Roots) + 1 /\ next \in 1 .. Len(Roots)
  BY <1>1, <1>2, RootFacts DEF TypeInv
<1>5. r \in Paths /\ IsFile(r) /\ DiskOK /\ {r} \in SUBSET Paths
  BY <1>1, <1>2, <1>3, <1>4, RootFacts, DiskIsOK DEF IsRead
<1>6. c \in Contexts
  <2>1. CASE InFixed(next)
    <3>1. r \in Elements(Fixed)
      BY <1>3, <1>4, <2>1, RootFacts DEF InFixed, Elements
    <3> QED
      BY <1>3, <2>1, <3>1 DEF Contexts
  <2>2. CASE ~ InFixed(next)
    BY <1>3, <2>2 DEF Contexts
  <2> QED
    BY <2>1, <2>2
<1>7. PICK start \in RequirementsExtraction :
        /\ start = NothingParsed /\ start.read = {}
        /\ start.declared = << >> /\ start.constraints = << >>
  BY <1>1, <1>2 DEF TypeInv, NothingParsed
<1>8. Open(r, "dependencies", c, start)
  BY <1>3, <1>7 DEF StartFile
<1>9. /\ parsed' \in RequirementsExtraction
      /\ parsed'.declared = << >> /\ parsed'.constraints = << >>
  <2>1. r \in Paths
    BY <1>5
  <2>2. /\ parsed' \in RequirementsExtraction
        /\ parsed'.declared = start.declared /\ parsed'.constraints = start.constraints
    BY <1>7, <1>8, <2>1, OpenedParsed
  <2> QED
    BY <1>7, <2>2
<1>10. OnStack = {}
  BY <1>2 DEF OnStack
<1>11. /\ parsed'.read = {r}
       /\ \/ disk[r].is = "unreadable" /\ failed' = "unreadable" /\ frames' = << >>
          \/ disk[r].is = "undecodable" /\ failed' = "no" /\ frames' = << >>
          \/ /\ disk[r].is \notin {"unreadable", "undecodable"} /\ failed' = "no"
             /\ frames' = Append(PastLine,
                            [file |-> r, line |-> 1, mode |-> "dependencies", context |-> c])
  <2>1. PastLine = << >>
    BY <1>2 DEF PastLine
  <2>2. \/ r \in OnStack /\ failed' = "cycle" /\ frames' = << >> /\ parsed'.read = start.read
        \/ /\ r \notin OnStack /\ parsed'.read = start.read \cup {r}
           /\ \/ disk[r].is = "unreadable" /\ failed' = "unreadable" /\ frames' = << >>
              \/ disk[r].is = "undecodable" /\ failed' = "no" /\ frames' = PastLine
              \/ /\ disk[r].is \notin {"unreadable", "undecodable"} /\ failed' = "no"
                 /\ frames' = Append(PastLine,
                                [file |-> r, line |-> 1, mode |-> "dependencies", context |-> c])
    BY <1>1, <1>5, <1>7, <1>8, Opening
  <2> QED
    BY <1>7, <1>10, <2>1, <2>2
<1>12. /\ frames' \in Seq(Frame)
       /\ \A i, f, l, m : IsAt(i, f, l, m)' =>
            /\ i = 1 /\ f = r /\ l = 1 /\ m = "dependencies"
            /\ disk[r].is \notin {"unreadable", "undecodable"}
       /\ \A i, f : OnStackAt(i, f)' => i = 1 /\ f = r
       /\ frames' # << >> => failed' = "no"
  <2>1. CASE frames' = << >>
    BY <2>1, StackEmpty
  <2>2. CASE /\ disk[r].is \notin {"unreadable", "undecodable"} /\ failed' = "no"
             /\ frames' = Append(PastLine,
                            [file |-> r, line |-> 1, mode |-> "dependencies", context |-> c])
    <3>1. [file |-> r, line |-> 1, mode |-> "dependencies", context |-> c] \in Frame
      BY <1>5, <1>6 DEF Frame, Modes
    <3>2. PICK frame \in Frame :
            frame = [file |-> r, line |-> 1, mode |-> "dependencies", context |-> c]
      BY <3>1
    <3>3. frame.file = r /\ frame.line = 1 /\ frame.mode = "dependencies"
      BY <3>2
    <3>4. Len(frames) = 0 /\ frames' = Append(PastLine, frame)
      BY <1>2, <2>2, <3>2
    <3>5. \A i, f, l, m : ~ IsAt(i, f, l, m) /\ ~ OnStackAt(i, f)
      BY <3>4 DEF IsAt, OnStackAt
    <3>6. /\ frames' \in Seq(Frame)
          /\ \A i, f, l, m : IsAt(i, f, l, m)' =>
               i = Len(frames) + 1 /\ f = frame.file /\ l = frame.line /\ m = frame.mode
          /\ \A i, f : OnStackAt(i, f)' => i = Len(frames) + 1 /\ f = frame.file
      BY <1>1, <1>2, <3>4, <3>5, StackPush
    <3> QED
      BY <2>2, <3>3, <3>4, <3>6
  <2> QED
    BY <1>11, <2>1, <2>2
<1>13. TypeInv'
  BY <1>1, <1>2, <1>4, <1>9, <1>11, <1>12 DEF TypeInv
<1>14. IdleInv'
  BY <1>2, <1>4, <1>9, <1>11, <1>12, NoneNamed DEF IdleInv
<1>15. FrameInv' /\ LinkInv' /\ ChainInv'
  <2>1. Last(r) \in Nat /\ \A f : Last(f)' = Last(f)
    BY <1>2, <1>5, LineTypes, DiskRests
  <2>2. ASSUME NEW i \in Nat, NEW f \in Paths, NEW l \in Nat, NEW m \in Modes, IsAt(i, f, l, m)'
        PROVE  /\ disk[f].is # "unreadable" /\ f \in parsed'.read /\ l \in 1 .. Last(f) + 1
               /\ 1 .. l - 1 = {}
    BY <1>11, <1>12, <2>1, <2>2
  <2>3. FrameInv'
    BY <1>2, <2>1, <2>2 DEF FrameInv
  <2>4. LinkInv'
    <3>1. \A i \in Nat : ~ (i = 1 /\ i + 1 = 1)
      OBVIOUS
    <3> QED
      BY <1>12, <3>1 DEF LinkInv
  <2>5. r \in ReachedFrom({r})
    BY <1>5, ReachFacts
  <2>6. ChainInv'
    BY <1>2, <1>12, <2>5, DiskRests DEF ChainInv
  <2> QED
    BY <2>3, <2>4, <2>6
<1>16. RootInv'
  <2>1. ASSUME NEW s \in Paths, Starts(s)'
        PROVE  s = r
    BY <1>2, <1>3, <1>4, <2>1 DEF Starts
  <2>2. Belongs(r, r, "dependencies")
    <3>1. r \in ReachedFrom({r})
      BY <1>5, ReachFacts
    <3> QED
      BY <3>1 DEF Belongs
  <2>3. Got("dependencies")' = {} /\ Got("constraints")' = {}
    BY <1>9, NoneNamed DEF Got
  <2>4. ASSUME frames' = << >>, failed' = "no"
        PROVE  Whole(r, "dependencies")'
    <3>1. disk[r].is = "undecodable"
      <4>1. CASE frames' = Append(PastLine,
                            [file |-> r, line |-> 1, mode |-> "dependencies", context |-> c])
        <5>1. PastLine = << >>
          BY <1>2 DEF PastLine
        <5> QED
          BY <2>4, <4>1, <5>1
      <4> QED
        BY <1>11, <2>4, <4>1
    <3>2. Whole(r, "dependencies") /\ "dependencies" \in Modes
      BY <1>5, <3>1, EmptyWhole DEF Modes
    <3>3. Got("dependencies") = {} /\ Got("constraints") = {}
      BY <1>2, NoneNamed DEF Got, NothingParsed
    <3> QED
      BY <1>2, <3>2, <3>3, GrownKeeps DEF Grown
  <2>5. r \in ReachedFrom({r})
    BY <1>5, ReachFacts
  <2>6. \A why : failed' = why => Fault(why, {r})
    BY <1>11, <2>5 DEF Fault
  <2>7. IsFile(r)'
    BY <1>2, <1>5 DEF IsFile
  <2> QED
    BY <1>2, <1>12, <2>1, <2>2, <2>3, <2>4, <2>6, <2>7, DiskRestsToo DEF RootInv
<1>17. SourcesInv'
  <2>1. /\ \A i \in Nat : Handled(i)' => Handled(i)
        /\ \A f : IsFile(f)' <=> IsFile(f)
        /\ \A f : Taken(f)' <=> Taken(f)
    <3>1. parsed'.read # {}
      BY <1>11
    <3>2. \A i \in Nat : Handled(i)' => Handled(i)
      BY <1>2, <1>4, <3>1 DEF Handled, NothingParsed
    <3>3. \A f : Taken(f)' <=> Taken(f)
      <4>1. disk' = disk /\ sources' = sources
        BY <1>2
      <4> QED
        BY ONLY <4>1, LinesRest, DiskRests DEF Taken
    <3> QED
      BY <1>2, <3>2, <3>3 DEF IsFile
  <2>2. \A i \in 1 .. Len(Fixed) : i \in Nat
    BY RootFacts
  <2> QED
    BY <1>1, <1>2, <2>1, <2>2, LinesRest, FaultRests DEF SourcesInv
<1>18. GroupedInv'
  BY <1>1, <1>2, <1>4, RootFacts DEF GroupedInv, InFixed
<1> QED
  BY <1>13, <1>14, <1>15, <1>16, <1>17, <1>18 DEF ExtractInv

----------------------------------------------------------------------------
(* A file is done with.                                                    *)
LEMMA EndFacts ==
  ASSUME ExtractInv, AtEnd, NEW r, r = Roots[next - 1]
  PROVE  /\ r \in Paths /\ r \in RootFiles /\ next \in Nat /\ next - 1 \in 1 .. Len(Roots)
         /\ outcome = "running" /\ parsed.read # {} /\ IsFile(r) /\ DiskOK
         /\ InFixed(next - 1) => r = Fixed[next - 1] /\ r \in FixedFiles
         /\ Got("dependencies") \subseteq Lines({r} \cup Below(r, "-r"))
         /\ Got("constraints") \subseteq Lines(Below(r, "-c"))
         /\ failed = "no" => Whole(r, "dependencies")
         /\ \A why : failed = why => Fault(why, {r})
<1>1. TypeInv /\ IdleInv /\ RootInv
  BY DEF ExtractInv
<1>2. parsed.read # {} /\ outcome = "running" /\ next > 1 /\ frames = << >>
  BY <1>1 DEF AtEnd, IdleInv
<1>3. next \in Nat /\ next - 1 \in 1 .. Len(Roots)
  BY <1>1, <1>2, RootFacts DEF TypeInv
<1>4. r \in Paths /\ r \in RootFiles
  BY <1>3, RootFacts
<1>5. Starts(r)
  BY <1>2 DEF Starts
<1>6. /\ IsFile(r)
      /\ Got("dependencies") \subseteq Lines({r} \cup Below(r, "-r"))
      /\ Got("constraints") \subseteq Lines(Below(r, "-c"))
      /\ failed = "no" => Whole(r, "dependencies")
      /\ \A why : failed = why => Fault(why, {r})
  BY <1>1, <1>2, <1>4, <1>5 DEF RootInv
<1>7. InFixed(next - 1) => r = Fixed[next - 1] /\ r \in FixedFiles
  <2>1. SUFFICES ASSUME InFixed(next - 1)
                 PROVE  r = Fixed[next - 1] /\ r \in FixedFiles
    OBVIOUS
  <2>2. next - 1 \in 1 .. Len(Fixed)
    BY <1>3, <2>1, RootFacts DEF InFixed
  <2> QED
    BY <1>6, <2>2, RootFacts DEF FixedFiles, Elements
<1> QED
  BY <1>1, <1>2, <1>3, <1>4, <1>6, <1>7, DiskIsOK

(* What a root leads to is among what the roots lead to.                   *)
LEMMA BelowRoots ==
  ASSUME DiskOK, NEW S \in SUBSET Paths, NEW r \in S, NEW o
  PROVE  /\ Below(r, o) \subseteq Led(ReachedFrom(S), {o})
         /\ \A why : Fault(why, {r}) => Fault(why, S)
<1>1. r \in ReachedFrom(S) /\ ReachedFrom(S) \in SUBSET Paths /\ r \in Paths
  BY ReachFacts
<1>2. ReachedFrom({r}) \subseteq ReachedFrom(S) /\ ReachedFrom({r}) \in SUBSET Paths
  BY <1>1, ReachGoesOn, ReachFacts
<1>3. Below(r, o) \subseteq Led(ReachedFrom(S), {o})
  BY <1>1, <1>2, LedIsLed DEF Below
<1> QED
  BY <1>2, <1>3 DEF Fault

LEMMA FixedAreFiles ==
  FixedFiles \in SUBSET Paths
BY RootFacts DEF FixedFiles, Elements

LEMMA WiderSeq ==
  ASSUME NEW S, NEW T, S \subseteq T, NEW s \in Seq(S)
  PROVE  s \in Seq(T)
OBVIOUS

LEMMA GotTyped ==
  ASSUME TypeInv
  PROVE  /\ parsed.declared \in Seq(Entry) /\ parsed.constraints \in Seq(Entry)
         /\ parsed.read \in SUBSET Paths /\ Len(parsed.declared) \in Nat
         /\ sources.declared \in Seq([file : Paths, line : Nat, context : Contexts \cup Paths])
         /\ sources.constraints \in Seq(Entry)
         /\ parsed.declared \in Seq([file : Paths, line : Nat, context : Contexts \cup Paths])
         /\ \A e \in Elements(parsed.declared) :
               e \in Entry /\ e.file \in Paths /\ e.line \in Nat /\ e.context \in Contexts
<1>1. /\ parsed.declared \in Seq(Entry) /\ parsed.constraints \in Seq(Entry)
      /\ parsed.read \in SUBSET Paths
  BY DEF TypeInv, RequirementsExtraction
<1>2. \A i \in 1 .. Len(parsed.declared) : parsed.declared[i] \in Entry
  BY <1>1
<1>3. Entry \subseteq [file : Paths, line : Nat, context : Contexts \cup Paths]
  BY DEF Entry
<1>4. parsed.declared \in Seq([file : Paths, line : Nat, context : Contexts \cup Paths])
  BY <1>1, <1>3, WiderSeq
<1>5. \A e \in Elements(parsed.declared) : e \in Entry
  BY <1>2 DEF Elements
<1> QED
  BY <1>1, <1>4, <1>5 DEF TypeInv, Entry

LEMMA FailFixedKeeps ==
  ASSUME ExtractInv, FailFixed
  PROVE  ExtractInv'
<1>1. TypeInv /\ SourcesInv /\ GroupedInv
  BY DEF ExtractInv
<1>2. /\ AtEnd /\ InFixed(next - 1) /\ failed # "no" /\ outcome' = failed
      /\ parsed' = NothingParsed /\ failed' = "no" /\ frames' = frames /\ frames = << >>
      /\ UNCHANGED <<disk, next, sources>>
  BY DEF FailFixed, Reset, AtEnd
<1>3. PICK r : r = Roots[next - 1]
  OBVIOUS
<1>4. failed \in {"cycle", "unreadable", "missing", "outside"}
  BY <1>1, <1>2 DEF TypeInv
<1>5. /\ FrameInv' /\ LinkInv' /\ ChainInv' /\ RootInv' /\ IdleInv'
      /\ parsed' \in RequirementsExtraction
  BY <1>2, <1>4, Between
<1>6. TypeInv'
  BY <1>1, <1>2, <1>4, <1>5 DEF TypeInv
<1>7. \A i : ~ Handled(i)'
  BY <1>2, <1>4 DEF Handled
<1>8. \A why : outcome' = why => Fault(why, FixedFiles)
  <2>1. DiskOK /\ r \in FixedFiles /\ Fault(failed, {r})
    BY <1>2, <1>3, EndFacts
  <2> QED
    BY <1>2, <2>1, BelowRoots, FixedAreFiles
<1>9. SourcesInv'
  BY <1>1, <1>2, <1>7, <1>8, LinesRest, FaultRests DEF SourcesInv
<1>10. GroupedInv'
  BY <1>1, <1>2 DEF GroupedInv, InFixed
<1> QED
  BY <1>5, <1>6, <1>9, <1>10 DEF ExtractInv

LEMMA FinishFixedKeeps ==
  ASSUME ExtractInv, FinishFixed
  PROVE  ExtractInv'
<1>1. TypeInv /\ SourcesInv /\ GroupedInv /\ IdleInv
  BY DEF ExtractInv
<1>2. /\ AtEnd /\ InFixed(next - 1) /\ failed = "no"
      /\ parsed' = NothingParsed /\ failed' = "no" /\ frames' = << >>
      /\ disk' = disk /\ next' = next /\ outcome' = outcome
  BY DEF FinishFixed, Reset, AtEnd
<1>3. PICK r : r = Roots[next - 1]
  OBVIOUS
<1>4. /\ r \in Paths /\ r \in RootFiles /\ next \in Nat /\ next - 1 \in 1 .. Len(Roots)
      /\ outcome = "running" /\ parsed.read # {} /\ DiskOK
      /\ r = Fixed[next - 1] /\ r \in FixedFiles
      /\ Got("dependencies") \subseteq Lines({r} \cup Below(r, "-r"))
      /\ Got("constraints") \subseteq Lines(Below(r, "-c"))
      /\ Whole(r, "dependencies")
  BY <1>2, <1>3, EndFacts
<1>5. sources' = [sources EXCEPT
        !.declared    = sources.declared \o parsed.declared,
        !.constraints = sources.constraints \o parsed.constraints,
        !.read        = sources.read \cup parsed.read,
        !.missing     = sources.missing \cup parsed.missing]
  BY DEF FinishFixed
<1>6. PICK D, C : D = sources.declared \o parsed.declared /\ C = sources.constraints \o parsed.constraints
  OBVIOUS
<1>7. /\ sources'.declared = D /\ sources'.constraints = C /\ sources'.names = sources.names
      /\ sources'.read = sources.read \cup parsed.read
      /\ sources' = [declared |-> sources'.declared, constraints |-> sources'.constraints,
           names |-> sources'.names, read |-> sources'.read, missing |-> sources'.missing,
           unwatched |-> sources'.unwatched]
  BY <1>1, <1>5, <1>6 DEF TypeInv
<1>8. /\ D \in Seq([file : Paths, line : Nat, context : Contexts \cup Paths]) /\ C \in Seq(Entry)
      /\ Elements(D) = Elements(sources.declared) \cup Elements(parsed.declared)
      /\ Elements(C) = Elements(sources.constraints) \cup Elements(parsed.constraints)
  BY <1>1, <1>6, GotTyped, ElementsConcat
<1>9. /\ Names(D) = Names(sources.declared) \cup Got("dependencies")
      /\ Names(C) = Names(sources.constraints) \cup Got("constraints")
  BY <1>8 DEF Names, Got
<1>10. /\ FrameInv' /\ LinkInv' /\ ChainInv' /\ RootInv' /\ IdleInv'
       /\ parsed' \in RequirementsExtraction /\ parsed'.read = {} /\ frames' \in Seq(Frame)
  BY <1>2, <1>4, Between
<1>11. TypeInv'
  BY <1>1, <1>2, <1>7, <1>8, <1>10 DEF TypeInv
<1>12. ASSUME NEW i \in 1 .. Len(Fixed), Handled(i)', IsFile(Fixed[i])'
       PROVE  Taken(Fixed[i])'
  <2>1. PICK f : f = Fixed[i]
    OBVIOUS
  <2>2. IsFile(f) /\ i \in Nat
    BY <1>2, <1>12, <2>1, RootFacts DEF IsFile
  <2>3. /\ Sound(f)
        /\ Lines({f}) \subseteq Names(D) /\ Lines(Below(f, "-r")) \subseteq Names(D)
        /\ Lines(Below(f, "-c")) \subseteq Names(C)
    <3>1. CASE i = next - 1
      BY <1>4, <1>9, <2>1, <3>1 DEF Whole, Given
    <3>2. CASE i # next - 1
      <4>1. i < next /\ outcome \in {"running", "done"}
        BY <1>2, <1>12 DEF Handled
      <4>2. Handled(i)
        BY <1>4, <2>2, <3>2, <4>1 DEF Handled
      <4>3. Taken(f)
        BY <1>1, <2>1, <2>2, <4>2 DEF SourcesInv
      <4> QED
        BY <1>9, <4>3 DEF Taken
    <3> QED
      BY <3>1, <3>2
  <2>4. Taken(f)'
    BY <1>2, <1>7, <2>3, LinesRest, DiskRests DEF Taken
  <2> QED
    BY <2>1, <2>4
<1>13. SourcesInv'
  <2>1. Got("dependencies") \subseteq Lines(Declarable)
    <3>1. Below(r, "-r") \subseteq Led(ReachedFrom(RootFiles), {"-r"})
      BY <1>4, BelowRoots, RootFacts
    <3>2. {r} \cup Below(r, "-r") \subseteq Declarable
      BY <1>4, <3>1 DEF Declarable
    <3> QED
      BY <1>4, <3>2, LinesWithin
  <2>2. Got("constraints") \subseteq Lines(Led(ReachedFrom(FixedFiles), {"-c"}))
    <3>1. Below(r, "-c") \subseteq Led(ReachedFrom(FixedFiles), {"-c"})
      BY <1>4, BelowRoots, FixedAreFiles
    <3> QED
      BY <1>4, <3>1, LinesWithin
  <2>3. /\ Names(D) \subseteq Lines(Declarable)
        /\ Names(C) \subseteq Lines(Led(ReachedFrom(FixedFiles), {"-c"}))
        /\ sources.names \subseteq Lines(Declarable)
    BY <1>1, <1>9, <2>1, <2>2 DEF SourcesInv
  <2>4. \A why : outcome' = why => Fault(why, FixedFiles)
    BY <1>1, <1>2 DEF SourcesInv
  <2> QED
    BY <1>2, <1>7, <1>12, <2>3, <2>4, LinesRest, FaultRests DEF SourcesInv
<1>14. GroupedInv'
  <2>1. ASSUME NEW e \in Elements(D)
        PROVE  e.context \in Contexts /\ e.file \in sources'.read
    <3>1. CASE e \in Elements(sources.declared)
      BY <1>1, <1>2, <1>7, <3>1 DEF GroupedInv
    <3>2. CASE e \in Elements(parsed.declared)
      BY <1>1, <1>7, <3>2, GotTyped DEF IdleInv
    <3> QED
      BY <1>8, <2>1, <3>1, <3>2
  <2> QED
    BY <1>7, <2>1 DEF GroupedInv
<1> QED
  BY <1>10, <1>11, <1>13, <1>14 DEF ExtractInv

LEMMA FunctionIsSeq ==
  ASSUME NEW S, NEW n \in Nat, NEW s \in [1 .. n -> S]
  PROVE  s \in Seq(S) /\ Len(s) = n
OBVIOUS

(* Of an extra file the entries that are kept are grouped.                 *)
LEMMA FinishExtraFacts ==
  ASSUME ExtractInv, FinishExtra
  PROVE  \E D \in Seq([file : Paths, line : Nat, context : Contexts \cup Paths]) :
           /\ sources'.declared = D /\ sources'.constraints = sources.constraints
           /\ sources' = [declared |-> sources'.declared, constraints |-> sources'.constraints,
                names |-> sources'.names, read |-> sources'.read, missing |-> sources'.missing,
                unwatched |-> sources'.unwatched]
           /\ sources.read \subseteq sources'.read
           /\ sources'.names \subseteq sources.names \cup Got("dependencies")
           /\ Elements(sources.declared) \subseteq Elements(D)
           /\ \A e \in Elements(D) :
                \/ e \in Elements(sources.declared)
                \/ /\ e.context = e.file /\ e.file \in Paths /\ e.file \notin sources.read
                   /\ Name(e) \in Got("dependencies")
<1> DEFINE kept == {i \in 1 .. Len(parsed.declared) : Keeps(parsed.declared[i])}
           grouped(entry) == [entry EXCEPT !.context = entry.file]
           noted == [sources EXCEPT !.missing = sources.missing \cup parsed.missing]
           dropped == (failed # "no" \/ parsed.skipped) /\ parsed.declared = << >>
<1>1. TypeInv
  BY DEF ExtractInv
<1>2. PICK at \in [1 .. Cardinality(kept) -> kept] :
        sources' =
          IF dropped THEN [noted EXCEPT !.unwatched = noted.unwatched \cup parsed.read]
          ELSE [noted EXCEPT
                 !.declared = noted.declared \o [i \in DOMAIN at |-> grouped(parsed.declared[at[i]])],
                 !.names = noted.names \cup {Name(e) : e \in Elements(parsed.declared)},
                 !.read = noted.read \cup parsed.read]
  BY DEF FinishExtra, MissingNoted
<1>3. /\ noted.declared = sources.declared /\ noted.constraints = sources.constraints
      /\ noted.names = sources.names /\ noted.read = sources.read
      /\ noted = [declared |-> noted.declared, constraints |-> noted.constraints,
           names |-> noted.names, read |-> noted.read, missing |-> noted.missing,
           unwatched |-> noted.unwatched]
  <2>1. sources = [declared |-> sources.declared, constraints |-> sources.constraints,
          names |-> sources.names, read |-> sources.read, missing |-> sources.missing,
          unwatched |-> sources.unwatched]
    BY <1>1 DEF TypeInv
  <2>2. noted = [sources EXCEPT !.missing = sources.missing \cup parsed.missing]
    OBVIOUS
  <2> HIDE DEF noted
  <2> QED
    BY ONLY <2>1, <2>2
<1> HIDE DEF noted, dropped
<1>4. CASE dropped
  <2>1. sources' = [noted EXCEPT !.unwatched = noted.unwatched \cup parsed.read]
    BY <1>2, <1>4
  <2>2. /\ sources'.declared = sources.declared /\ sources'.constraints = sources.constraints
        /\ sources' = [declared |-> sources'.declared, constraints |-> sources'.constraints,
             names |-> sources'.names, read |-> sources'.read, missing |-> sources'.missing,
             unwatched |-> sources'.unwatched]
        /\ sources'.read = sources.read /\ sources'.names = sources.names
    BY <1>3, <2>1
  <2> QED
    BY <1>1, <2>2, GotTyped
<1>5. CASE ~ dropped
  <2> DEFINE n == Cardinality(kept)
             G == [i \in 1 .. n |-> grouped(parsed.declared[at[i]])]
  <2>1. kept \in SUBSET (1 .. Len(parsed.declared)) /\ IsFiniteSet(kept)
    <3>1. IsFiniteSet(1 .. Len(parsed.declared))
      BY <1>1, GotTyped, FS_Interval
    <3> QED
      BY <3>1, FS_Subset
  <2>2. n \in Nat
    BY <2>1, FS_CardinalityType
  <2>3. \A i \in 1 .. n : at[i] \in kept
    BY <1>2
  <2>4. ASSUME NEW i \in 1 .. n
        PROVE  /\ G[i] \in [file : Paths, line : Nat, context : Contexts \cup Paths]
               /\ G[i].context = G[i].file /\ G[i].file \in Paths /\ G[i].file \notin sources.read
               /\ Name(G[i]) \in Got("dependencies")
    <3>1. PICK e \in Elements(parsed.declared) : e = parsed.declared[at[i]] /\ Keeps(e)
      BY <2>3 DEF Elements
    <3>2. e \in Entry /\ e.file \in Paths
      BY <1>1, GotTyped
    <3>3. G[i] = [e EXCEPT !.context = e.file]
      BY <3>1
    <3> HIDE DEF G, kept
    <3>4. /\ G[i] \in [file : Paths, line : Nat, context : Contexts \cup Paths]
          /\ G[i].context = e.file /\ G[i].file = e.file /\ G[i].line = e.line
      BY <3>2, <3>3 DEF Entry
    <3>5. Name(G[i]) \in Got("dependencies")
      BY <3>4 DEF Name, Got, Names
    <3>6. e.file \notin sources.read
      BY <3>1 DEF Keeps
    <3> QED
      BY <3>2, <3>4, <3>5, <3>6
  <2>5. PICK g \in Seq([file : Paths, line : Nat, context : Contexts \cup Paths]) :
          /\ Len(g) = n /\ g = G
    <3>1. DOMAIN G = 1 .. n /\ G = [i \in DOMAIN G |-> G[i]]
      OBVIOUS
    <3> HIDE DEF G, n, kept
    <3>2. G \in [1 .. n -> [file : Paths, line : Nat, context : Contexts \cup Paths]]
      BY <2>4, <3>1
    <3>3. n \in Nat
      BY <2>2
    <3>4. PICK T : T = [file : Paths, line : Nat, context : Contexts \cup Paths]
      OBVIOUS
    <3>5. G \in [1 .. n -> T]
      BY <3>2, <3>4
    <3>6. G \in Seq(T) /\ Len(G) = n
      BY ONLY <3>3, <3>5, FunctionIsSeq
    <3> QED
      BY <3>4, <3>6
  <2>6. ASSUME NEW e \in Elements(g)
        PROVE  /\ e.context = e.file /\ e.file \in Paths /\ e.file \notin sources.read
               /\ Name(e) \in Got("dependencies")
    <3>1. PICK i \in 1 .. n : e = G[i]
      BY <2>5 DEF Elements
    <3> QED
      BY <2>4, <3>1
  <2>7. DOMAIN at = 1 .. n
    BY <1>2
  <2>8. sources' = [noted EXCEPT
                 !.declared = noted.declared \o g,
                 !.names = noted.names \cup {Name(e) : e \in Elements(parsed.declared)},
                 !.read = noted.read \cup parsed.read]
    BY <1>2, <1>5, <2>5, <2>7
  <2> HIDE DEF G, n, kept
  <2>9. /\ sources'.declared = sources.declared \o g /\ sources'.constraints = sources.constraints
        /\ sources' = [declared |-> sources'.declared, constraints |-> sources'.constraints,
             names |-> sources'.names, read |-> sources'.read, missing |-> sources'.missing,
             unwatched |-> sources'.unwatched]
        /\ sources'.read = sources.read \cup parsed.read
        /\ sources'.names = sources.names \cup {Name(e) : e \in Elements(parsed.declared)}
    BY <1>3, <2>8
  <2>10. sources'.names \subseteq sources.names \cup Got("dependencies")
    BY <2>9 DEF Got, Names
  <2>11. PICK D : D = sources.declared \o g
    OBVIOUS
  <2>12. /\ D \in Seq([file : Paths, line : Nat, context : Contexts \cup Paths])
         /\ Elements(D) = Elements(sources.declared) \cup Elements(g)
    BY <1>1, <2>5, <2>11, GotTyped, ElementsConcat
  <2>13. /\ sources'.declared = D /\ sources'.constraints = sources.constraints
         /\ sources.read \subseteq sources'.read
         /\ Elements(sources.declared) \subseteq Elements(D)
         /\ \A e \in Elements(D) :
              \/ e \in Elements(sources.declared)
              \/ /\ e.context = e.file /\ e.file \in Paths /\ e.file \notin sources.read
                 /\ Name(e) \in Got("dependencies")
    BY <2>6, <2>9, <2>11, <2>12
  <2> QED
    BY <2>9, <2>10, <2>12, <2>13
<1> QED
  BY <1>4, <1>5

LEMMA FinishExtraKeeps ==
  ASSUME ExtractInv, FinishExtra
  PROVE  ExtractInv'
<1>1. TypeInv /\ SourcesInv /\ GroupedInv /\ IdleInv
  BY DEF ExtractInv
<1>2. /\ AtEnd /\ ~ InFixed(next - 1)
      /\ parsed' = NothingParsed /\ failed' = "no" /\ frames' = << >>
      /\ disk' = disk /\ next' = next /\ outcome' = outcome
  BY DEF FinishExtra, Reset, AtEnd
<1>3. PICK r : r = Roots[next - 1]
  OBVIOUS
<1>4. /\ r \in Paths /\ r \in RootFiles /\ next \in Nat /\ next - 1 \in 1 .. Len(Roots)
      /\ outcome = "running" /\ parsed.read # {} /\ DiskOK
      /\ Got("dependencies") \subseteq Lines({r} \cup Below(r, "-r"))
  BY <1>2, <1>3, EndFacts
<1>5. PICK D \in Seq([file : Paths, line : Nat, context : Contexts \cup Paths]) :
           /\ sources'.declared = D /\ sources'.constraints = sources.constraints
           /\ sources' = [declared |-> sources'.declared, constraints |-> sources'.constraints,
                names |-> sources'.names, read |-> sources'.read, missing |-> sources'.missing,
                unwatched |-> sources'.unwatched]
           /\ sources.read \subseteq sources'.read
           /\ sources'.names \subseteq sources.names \cup Got("dependencies")
           /\ Elements(sources.declared) \subseteq Elements(D)
           /\ \A e \in Elements(D) :
                \/ e \in Elements(sources.declared)
                \/ /\ e.context = e.file /\ e.file \in Paths /\ e.file \notin sources.read
                   /\ Name(e) \in Got("dependencies")
  BY FinishExtraFacts
<1>6. /\ Names(sources.declared) \subseteq Names(D)
      /\ Names(D) \subseteq Names(sources.declared) \cup Got("dependencies")
  BY <1>5 DEF Names
<1>7. /\ FrameInv' /\ LinkInv' /\ ChainInv' /\ RootInv' /\ IdleInv'
      /\ parsed' \in RequirementsExtraction /\ parsed'.read = {} /\ frames' \in Seq(Frame)
  BY <1>2, <1>4, Between
<1>8. TypeInv'
  BY <1>1, <1>2, <1>5, <1>7 DEF TypeInv
<1>9. ASSUME NEW i \in 1 .. Len(Fixed), Handled(i)', IsFile(Fixed[i])'
      PROVE  Taken(Fixed[i])'
  <2>1. PICK f : f = Fixed[i]
    OBVIOUS
  <2>2. IsFile(f) /\ i \in Nat /\ i < next - 1
    BY <1>2, <1>4, <1>9, <2>1, RootFacts DEF IsFile, InFixed
  <2>3. Handled(i)
    BY <1>4, <2>2 DEF Handled
  <2>4. Taken(f)
    BY <1>1, <2>1, <2>2, <2>3 DEF SourcesInv
  <2>5. /\ Sound(f)
        /\ Lines({f}) \subseteq Names(D) /\ Lines(Below(f, "-r")) \subseteq Names(D)
        /\ Lines(Below(f, "-c")) \subseteq Names(sources.constraints)
    BY <1>6, <2>4 DEF Taken
  <2>6. Taken(f)'
    BY <1>2, <1>5, <2>5, LinesRest, DiskRests DEF Taken
  <2> QED
    BY <2>1, <2>6
<1>10. SourcesInv'
  <2>1. Got("dependencies") \subseteq Lines(Declarable)
    <3>1. Below(r, "-r") \subseteq Led(ReachedFrom(RootFiles), {"-r"})
      BY <1>4, BelowRoots, RootFacts
    <3>2. {r} \cup Below(r, "-r") \subseteq Declarable
      BY <1>4, <3>1 DEF Declarable
    <3> QED
      BY <1>4, <3>2, LinesWithin
  <2>2. /\ Names(D) \subseteq Lines(Declarable) /\ sources'.names \subseteq Lines(Declarable)
        /\ Names(sources.constraints) \subseteq Lines(Led(ReachedFrom(FixedFiles), {"-c"}))
    BY <1>1, <1>5, <1>6, <2>1 DEF SourcesInv
  <2>3. \A why : outcome' = why => Fault(why, FixedFiles)
    BY <1>1, <1>2 DEF SourcesInv
  <2> QED
    BY <1>2, <1>5, <1>9, <2>2, <2>3, LinesRest, FaultRests DEF SourcesInv
<1>11. GroupedInv'
  <2>1. ASSUME NEW e \in Elements(D)
        PROVE  \/ e.context \in Contexts /\ e.file \in sources'.read
               \/ e.context = e.file
    BY <1>1, <1>5, <2>1 DEF GroupedInv
  <2> QED
    BY <1>2, <1>5, <2>1 DEF GroupedInv, InFixed
<1> QED
  BY <1>7, <1>8, <1>10, <1>11 DEF ExtractInv

----------------------------------------------------------------------------
LEMMA StandsStill ==
  ASSUME ExtractInv, UNCHANGED extraction
  PROVE  ExtractInv'
<1>1. /\ disk' = disk /\ next' = next /\ frames' = frames /\ parsed' = parsed /\ failed' = failed
      /\ sources' = sources /\ outcome' = outcome
  BY DEF extraction
<1>2. /\ \A m : Got(m)' = Got(m)
      /\ \A i, f, l, m : IsAt(i, f, l, m)' <=> IsAt(i, f, l, m)
      /\ \A i, f : OnStackAt(i, f)' <=> OnStackAt(i, f)
      /\ \A r : Starts(r)' <=> Starts(r)
      /\ \A f : IsFile(f)' <=> IsFile(f)
      /\ \A i : Handled(i)' <=> Handled(i)
  BY <1>1 DEF Got, IsAt, OnStackAt, Starts, IsFile, Handled
<1>3. \A f : \A m \in Modes : Whole(f, m) => Whole(f, m)'
  BY <1>1, <1>2, GrownKeeps DEF Grown
<1>4. \A f, k : \A m \in Modes : LineRead(f, k, m) => LineRead(f, k, m)'
  BY <1>1, <1>2, GrownKeeps DEF Grown
<1>5. \A f : Taken(f)' <=> Taken(f)
  <2>1. disk' = disk /\ sources' = sources
    BY <1>1
  <2> QED
    BY ONLY <2>1, LinesRest, DiskRests DEF Taken
<1>6. TypeInv' /\ IdleInv' /\ GroupedInv'
  BY <1>1 DEF ExtractInv, TypeInv, IdleInv, GroupedInv, InFixed
<1>7. FrameInv'
  BY <1>1, <1>2, <1>4, DiskRests DEF ExtractInv, FrameInv
<1>8. LinkInv' /\ ChainInv'
  BY <1>2, <1>1, DiskRests DEF ExtractInv, LinkInv, ChainInv
<1>9. RootInv'
  <2>1. SUFFICES ASSUME NEW r \in Paths, Starts(r)
                 PROVE  /\ IsFile(r)'
                        /\ \A i \in Nat, f \in Paths, l \in Nat, m \in Modes :
                             IsAt(i, f, l, m)' =>
                               Belongs(r, f, m)' /\ (i = 1 => f = r /\ m = "dependencies")
                        /\ Got("dependencies")' \subseteq Lines({r} \cup Below(r, "-r"))'
                        /\ Got("constraints")' \subseteq Lines(Below(r, "-c"))'
                        /\ frames' = << >> /\ failed' = "no" => Whole(r, "dependencies")'
                        /\ \A why : failed' = why => Fault(why, {r})'
    BY <1>2 DEF RootInv
  <2>2. /\ IsFile(r)
        /\ \A i \in Nat, f \in Paths, l \in Nat, m \in Modes :
             IsAt(i, f, l, m) => Belongs(r, f, m) /\ (i = 1 => f = r /\ m = "dependencies")
        /\ Got("dependencies") \subseteq Lines({r} \cup Below(r, "-r"))
        /\ Got("constraints") \subseteq Lines(Below(r, "-c"))
        /\ frames = << >> /\ failed = "no" => Whole(r, "dependencies")
        /\ \A why : failed = why => Fault(why, {r})
    BY <2>1 DEF ExtractInv, RootInv
  <2>3. /\ Lines({r} \cup Below(r, "-r"))' = Lines({r} \cup Below(r, "-r"))
        /\ Lines(Below(r, "-c"))' = Lines(Below(r, "-c"))
    BY <1>1 DEF Lines, RequirementLines, Below, Led, ReachedFrom, Leads, Within
  <2>4. "dependencies" \in Modes
    BY DEF Modes
  <2> QED
    BY <1>1, <1>2, <1>3, <2>2, <2>3, <2>4, DiskRestsToo
<1>10. SourcesInv'
  BY <1>1, <1>2, <1>5, LinesRest, FaultRests DEF ExtractInv, SourcesInv
<1> QED
  BY <1>6, <1>7, <1>8, <1>9, <1>10 DEF ExtractInv

LEMMA StepsKeep ==
  ExtractInv /\ [ExtractNext]_extraction => ExtractInv'
<1> SUFFICES ASSUME ExtractInv, [ExtractNext]_extraction
             PROVE  ExtractInv'
  OBVIOUS
<1>1. CASE StartFile
  BY <1>1, StartFileKeeps
<1>2. CASE PassOver
  BY <1>2, PassOverKeeps
<1>3. CASE Declare
  BY <1>3, DeclareKeeps
<1>4. CASE LeaveRemote
  BY <1>4, LeaveRemoteKeeps
<1>5. CASE FollowRequirements \/ FollowConstraints
  BY <1>5, FollowBothKeep
<1>6. CASE IncludeFails
  BY <1>6, IncludeFailsKeeps
<1>7. CASE ConstraintsMissing
  BY <1>7, ConstraintsMissingKeeps
<1>8. CASE EndFile
  BY <1>8, EndFileKeeps
<1>9. CASE FinishFixed
  BY <1>9, FinishFixedKeeps
<1>10. CASE FailFixed
  BY <1>10, FailFixedKeeps
<1>11. CASE FinishExtra
  BY <1>11, FinishExtraKeeps
<1>12. CASE Extracted
  BY <1>12, ExtractedKeeps
<1>13. CASE \E f \in Paths : EditFile(f)
  BY <1>13, EditFileKeeps
<1>14. CASE UNCHANGED extraction
  BY <1>14, StandsStill
<1> QED
  BY <1>1, <1>2, <1>3, <1>4, <1>5, <1>6, <1>7, <1>8, <1>9, <1>10, <1>11, <1>12, <1>13, <1>14
     DEF ExtractNext, Parse

LEMMA ExtractHolds ==
  ExtractSpec => []ExtractInv
BY BeginsWell, StepsKeep, PTL DEF ExtractSpec

(* When it is done, every fixed name was taken in.                         *)
LEMMA DoneTakesAll ==
  ASSUME TypeInv, IdleInv, SourcesInv, outcome = "done", NEW g \in FixedFiles
  PROVE  Taken(g)
<1>1. PICK i \in 1 .. Len(Fixed) : g = Fixed[i] /\ IsFile(Fixed[i])
  BY DEF FixedFiles, Elements
<1>2. next > Len(Roots) /\ parsed.read = {}
  BY DEF IdleInv
<1>3. i < next
  BY <1>2, RootFacts DEF TypeInv
<1>4. Handled(i)
  BY <1>2, <1>3 DEF Handled
<1> QED
  BY <1>1, <1>4 DEF SourcesInv

(* Whatever the files say, the state is of its type.                       *)
THEOREM ExtractTypeCorrect ==
  ExtractSpec => []ExtractTypeOK
<1>1. ExtractInv => ExtractTypeOK
  <2> SUFFICES ASSUME TypeInv PROVE ExtractTypeOK
    BY DEF ExtractInv
  <2>1. frames \in Seq(Frame)
    BY DEF TypeInv
  <2>2. \A i \in 1 .. Len(frames) : frames[i] \in Frame
    BY <2>1
  <2> QED
    BY <2>2 DEF TypeInv, ExtractTypeOK, Frame
<1> QED
  BY <1>1, ExtractHolds, PTL

(* The outcome follows from the include lines below the fixed names: no    *)
(* cycle and no -r that leads nowhere is passed over (requirements.rs      *)
(* 138), and the extraction fails for nothing else.                        *)
THEOREM OutcomeCorrect ==
  ExtractSpec => []OutcomeFollowsIncludes
<1>1. ExtractInv => OutcomeFollowsIncludes
  <2> SUFFICES ASSUME ExtractInv PROVE OutcomeFollowsIncludes
    OBVIOUS
  <2>1. TypeInv /\ IdleInv /\ SourcesInv
    BY DEF ExtractInv
  <2>2. Fault(outcome, FixedFiles)
    BY <2>1 DEF SourcesInv
  <2>3. ASSUME outcome = "done", NEW f \in ReachedFrom(FixedFiles)
        PROVE  ~ Cyclic(f) /\ ~ LeadsNowhere(f) /\ disk[f].is # "unreadable"
    <3>1. PICK g \in FixedFiles : f \in ReachedFrom({g})
      BY <2>1, FixedAreFiles, ReachIsUnion, DiskIsOK
    <3>2. Taken(g)
      BY <2>1, <2>3, DoneTakesAll
    <3> QED
      BY <3>1, <3>2 DEF Taken, Sound
  <2> QED
    BY <2>2, <2>3 DEF OutcomeFollowsIncludes, Fault
<1> QED
  BY <1>1, ExtractHolds, PTL

(* The last include on the way to a line decides what the line is, for     *)
(* every project: no constraint is taken for a declared dependency, and no *)
(* requirement is lost (requirements.rs 150).                              *)
THEOREM LastIncludeCorrect ==
  ExtractSpec => []LastIncludeDecides
<1>1. ExtractInv => LastIncludeDecides
  <2> SUFFICES ASSUME ExtractInv, outcome = "done"
               PROVE  LET read == ReachedFrom(FixedFiles)
                          extra == ReachedFrom(RootFiles)
                      IN /\ Names(sources.constraints) = Lines(Led(read, {"-c"}))
                         /\ Lines(FixedFiles \cup Led(read, {"-r"})) \subseteq Names(sources.declared)
                         /\ Names(sources.declared) \cup sources.names
                              \subseteq Lines(RootFiles \cup Led(extra, {"-r"}))
    BY DEF LastIncludeDecides
  <2>1. TypeInv /\ IdleInv /\ SourcesInv /\ DiskOK
    BY DiskIsOK DEF ExtractInv
  <2>2. \A g \in FixedFiles : Taken(g)
    BY <2>1, DoneTakesAll
  <2>3. ReachedFrom(FixedFiles) \in SUBSET Paths
    BY <2>1, FixedAreFiles, ReachFacts
  <2>4. ASSUME NEW o \in Options, NEW q \in Led(ReachedFrom(FixedFiles), {o})
        PROVE  \E g \in FixedFiles : q \in Below(g, o)
    <3>1. PICK p \in ReachedFrom(FixedFiles) : q \in Led({p}, {o})
      BY <2>1, <2>3, LedIsLed
    <3>2. PICK g \in FixedFiles : p \in ReachedFrom({g})
      BY <2>1, FixedAreFiles, ReachIsUnion
    <3>3. g \in Paths /\ {g} \in SUBSET Paths /\ {p} \in SUBSET Paths
      BY <2>3, FixedAreFiles
    <3>4. ReachedFrom({g}) \in SUBSET Paths /\ {p} \subseteq ReachedFrom({g})
      BY <2>1, <3>2, <3>3, ReachFacts
    <3>5. Led({p}, {o}) \subseteq Led(ReachedFrom({g}), {o})
      BY <2>1, <3>3, <3>4, LedIsLed
    <3> QED
      BY <3>1, <3>5 DEF Below
  <2>5. Lines(Led(ReachedFrom(FixedFiles), {"-c"})) \subseteq Names(sources.constraints)
    <3>1. \A q \in Led(ReachedFrom(FixedFiles), {"-c"}) : Lines({q}) \subseteq Names(sources.constraints)
      BY <2>2, <2>4, LinesWithin DEF Options, Taken
    <3> QED
      BY <3>1 DEF Lines
  <2>6. Lines(FixedFiles \cup Led(ReachedFrom(FixedFiles), {"-r"})) \subseteq Names(sources.declared)
    <3>1. \A q \in Led(ReachedFrom(FixedFiles), {"-r"}) : Lines({q}) \subseteq Names(sources.declared)
      BY <2>2, <2>4, LinesWithin DEF Options, Taken
    <3>2. \A q \in FixedFiles : Lines({q}) \subseteq Names(sources.declared)
      BY <2>2 DEF Taken
    <3> QED
      BY <3>1, <3>2 DEF Lines
  <2> QED
    BY <2>1, <2>5, <2>6 DEF SourcesInv, Declarable
<1> QED
  BY <1>1, ExtractHolds, PTL

LEMMA SeqElements ==
  ASSUME NEW S, NEW s \in Seq(S)
  PROVE  \A e \in Elements(s) : e \in S
BY DEF Elements

LEMMA DeclaredTypes ==
  ASSUME NEW s \in Seq([file : Paths, line : Nat, context : Contexts \cup Paths])
  PROVE  \A e \in Elements(s) : e.file \in Paths
<1>1. PICK T : T = [file : Paths, line : Nat, context : Contexts \cup Paths]
  OBVIOUS
<1>2. \A e \in Elements(s) : e \in T
  BY <1>1, SeqElements
<1> QED
  BY <1>1, <1>2

(* "A file already read declares once" (extract.rs 396): never both in its *)
(* own context and in a group.                                             *)
THEOREM DeclaredOnce ==
  ExtractSpec => []ReadFilesDeclareOnce
<1>1. ExtractInit => ReadFilesDeclareOnce
  BY NoneNamed DEF ExtractInit, NoSources, ReadFilesDeclareOnce
<1>2. ReadFilesDeclareOnce /\ ExtractInv /\ [ExtractNext]_extraction => ReadFilesDeclareOnce'
  <2> SUFFICES ASSUME ReadFilesDeclareOnce, ExtractInv, [ExtractNext]_extraction
               PROVE  ReadFilesDeclareOnce'
    OBVIOUS
  <2>1. TypeInv /\ GroupedInv
    BY DEF ExtractInv
  <2>2. CASE FinishFixed
    <3>1. ExtractInv' /\ next' = next /\ InFixed(next - 1)
      BY <2>2, FinishFixedKeeps DEF FinishFixed
    <3>2. \A e \in Elements(sources'.declared) : e.context \in Contexts
      BY <3>1 DEF ExtractInv, GroupedInv, InFixed
    <3>3. TypeInv'
      BY <3>1 DEF ExtractInv
    <3>4. PICK D : D = sources'.declared
      OBVIOUS
    <3>5. D \in Seq([file : Paths, line : Nat, context : Contexts \cup Paths])
      BY <3>3, <3>4 DEF TypeInv
    <3>6. \A e \in Elements(D) : e.file \in Paths /\ e.context \in Contexts
      BY <3>2, <3>4, <3>5, DeclaredTypes
    <3> QED
      BY <3>4, <3>6, ContextsAssumption DEF ReadFilesDeclareOnce
  <2>3. CASE FinishExtra
    <3>1. PICK D \in Seq([file : Paths, line : Nat, context : Contexts \cup Paths]) :
            /\ sources'.declared = D
            /\ \A e \in Elements(D) :
                 \/ e \in Elements(sources.declared)
                 \/ e.context = e.file /\ e.file \notin sources.read
      BY <2>3, FinishExtraFacts
    <3>2. ASSUME NEW e \in Elements(sources.declared), e.file \notin sources.read
          PROVE  e.context = e.file
      BY <2>1, <3>2 DEF GroupedInv
    <3>3. ASSUME NEW d \in Elements(D), NEW e \in Elements(D), d.file = e.file
          PROVE  d.context = d.file <=> e.context = e.file
      <4>1. CASE d \in Elements(sources.declared) /\ e \in Elements(sources.declared)
        BY <3>3, <4>1 DEF ReadFilesDeclareOnce
      <4>2. CASE d.file \notin sources.read
        BY <3>1, <3>2, <3>3, <4>2
      <4> QED
        BY <3>1, <3>3, <4>1, <4>2
    <3> QED
      BY <3>1, <3>3 DEF ReadFilesDeclareOnce
  <2>4. CASE sources' = sources \/ sources' = NoSources
    <3>1. NoSources.declared = << >>
      BY DEF NoSources
    <3> QED
      BY <2>4, <3>1, NoneNamed DEF ReadFilesDeclareOnce
  <2>5. CASE FinishFixed \/ FinishExtra
    BY <2>2, <2>3, <2>5
  <2>6. CASE StartFile \/ PassOver \/ FailFixed \/ Extracted \/ UNCHANGED extraction
    BY <2>4, <2>6 DEF StartFile, PassOver, FailFixed, Extracted, extraction
  <2>7. CASE Declare \/ LeaveRemote \/ FollowRequirements \/ IncludeFails
    BY <2>4, <2>7 DEF Declare, LeaveRemote, FollowRequirements, IncludeFails, unmoved
  <2>8. CASE FollowConstraints \/ ConstraintsMissing \/ EndFile
    BY <2>4, <2>8 DEF FollowConstraints, ConstraintsMissing, EndFile, unmoved
  <2>9. CASE \E f \in Paths : EditFile(f)
    BY <2>4, <2>9 DEF EditFile
  <2> QED
    BY <2>5, <2>6, <2>7, <2>8, <2>9 DEF ExtractNext, Parse
<1> QED
  BY <1>1, <1>2, ExtractHolds, PTL DEF ExtractSpec

----------------------------------------------------------------------------
(* The second extraction.  An extraction is one sequence of moments: what  *)
(* comes after a moment is a function of the moment and the disk, After,   *)
(* and of the disk only the files that the moment after it covers matter,  *)
(* with those of the fixed names and those that lead outside the root.  As *)
(* an extraction that is done has forgotten none of these, a disk that has *)
(* them all as they were leads through the same moments to the same end.   *)
(* WarmInv keeps the moments of the first extraction for the second to go  *)
(* through.                                                                *)
(* What an extraction has come to, without the disk.                       *)
Moment(n, fr, pa, fa, so, ou) ==
  [next |-> n, frames |-> fr, parsed |-> pa, failed |-> fa, sources |-> so, outcome |-> ou]

Now == Moment(next, frames, parsed, failed, sources, outcome)

Start == Moment(1, << >>, NothingParsed, "no", NoSources, "running")

(* What the model says of disk, of any disk d.                             *)
FileIn(d, p) == d[p].is # "absent"

WithinIn(d, p) == d[p].is \notin {"absent", "outside"}

TopOf(fr) == fr[Len(fr)]

AtLineIn(d, fr) == TopOf(fr).line <= Len(d[TopOf(fr).file].lines)

LineIn(d, fr) == d[TopOf(fr).file].lines[TopOf(fr).line]

PastTop(fr) == IF fr = << >> THEN fr ELSE [fr EXCEPT ![Len(fr)].line = @ + 1]

Resolutions(d, line) ==
  {i \in 1 .. Len(line.tries) :
     WithinIn(d, line.tries[i]) /\ \A j \in 1 .. i - 1 : ~ WithinIn(d, line.tries[j])}

NotedIn(d, line, pa, i) ==
  [pa EXCEPT !.missing = @ \cup {p \in Elements(SubSeq(line.tries, 1, i)) : ~ FileIn(d, p)}]

KindIn(d, fr, f) == IF f \in {fr[i].file : i \in 1 .. Len(fr)} THEN "cycle" ELSE d[f].is

Fatal(kind) == kind \in {"cycle", "unreadable"}

(* Open, of a path of this kind.                                           *)
Opened(kind, n, fr, frame, start, so, ou) ==
  Moment(n,
         IF Fatal(kind) THEN << >> ELSE IF kind = "undecodable" THEN PastTop(fr)
         ELSE Append(PastTop(fr), frame),
         [start EXCEPT !.read = IF kind = "cycle" THEN @ ELSE @ \cup {frame.file},
                       !.skipped = @ \/ kind = "undecodable"],
         IF Fatal(kind) THEN kind ELSE "no", so, ou)

FrameFor(f, mode, context) == [file |-> f, line |-> 1, mode |-> mode, context |-> context]

(* What a line makes of it.                                                *)
Declared(fr, pa) ==
  LET entry == [file |-> TopOf(fr).file, line |-> TopOf(fr).line, context |-> TopOf(fr).context]
  IN IF TopOf(fr).mode = "dependencies"
     THEN [pa EXCEPT !.declared = Append(@, entry)]
     ELSE [pa EXCEPT !.constraints = Append(@, entry)]

ContextIn(fr, f) == IF NamedContext[f] = NoContext THEN TopOf(fr).context ELSE NamedContext[f]

Include(d, n, fr, pa, so, ou, line, i) ==
  LET f == line.tries[i]
  IN Opened(KindIn(d, fr, f), n, fr,
            IF line.option = "-r" THEN FrameFor(f, "dependencies", ContextIn(fr, f))
            ELSE FrameFor(f, "constraints", TopOf(fr).context),
            NotedIn(d, line, pa, i), so, ou)

LeftOut(d, n, fr, pa, fa, so, ou, line) ==
  IF line.option = "-r"
  THEN Moment(n, << >>, NotedIn(d, line, pa, Len(line.tries)),
              IF \E p \in Elements(line.tries) : FileIn(d, p) THEN "outside" ELSE "missing", so, ou)
  ELSE Moment(n, PastTop(fr), NotedIn(d, line, pa, Len(line.tries)), fa, so, ou)

AfterLine(d, n, fr, pa, fa, so, ou, line) ==
  IF line.option = "none" THEN Moment(n, PastTop(fr), Declared(fr, pa), fa, so, ou)
  ELSE IF line = Remote THEN Moment(n, PastTop(fr), [pa EXCEPT !.skipped = TRUE], fa, so, ou)
  ELSE IF Resolutions(d, line) = {} THEN LeftOut(d, n, fr, pa, fa, so, ou, line)
  ELSE Include(d, n, fr, pa, so, ou, line, CHOOSE i \in Resolutions(d, line) : TRUE)

(* What the end of a file makes of it.                                     *)
FixedSources(pa, so) ==
  [so EXCEPT !.declared    = @ \o pa.declared,
             !.constraints = @ \o pa.constraints,
             !.read        = @ \cup pa.read,
             !.missing     = @ \cup pa.missing]

CompiledIn(d, f) == Source[f] # f /\ Source[f] \in RootFiles /\ FileIn(d, Source[f])

KeptIn(d, pa, so) ==
  {i \in 1 .. Len(pa.declared) :
     /\ ~ CompiledIn(d, pa.declared[i].file) /\ pa.declared[i].file \notin so.read
     /\ NamedContext[pa.declared[i].file] # NoContext}

InOrder(S) ==
  {at \in [1 .. Cardinality(S) -> S] : \A i, j \in DOMAIN at : i < j => at[i] < at[j]}

ExtraSources(pa, fa, so, at) ==
  LET dropped == (fa # "no" \/ pa.skipped) /\ pa.declared = << >>
      grouped(entry) == [entry EXCEPT !.context = entry.file]
      noted == [so EXCEPT !.missing = @ \cup pa.missing]
  IN IF dropped THEN [noted EXCEPT !.unwatched = @ \cup pa.read]
     ELSE [noted EXCEPT
            !.declared = @ \o [i \in DOMAIN at |-> grouped(pa.declared[at[i]])],
            !.names = @ \cup {Name(e) : e \in Elements(pa.declared)},
            !.read = @ \cup pa.read]

AfterFile(d, n, pa, fa, so, ou) ==
  IF ~ InFixed(n - 1)
  THEN Moment(n, << >>, NothingParsed, "no",
              ExtraSources(pa, fa, so, CHOOSE at \in InOrder(KeptIn(d, pa, so)) : TRUE), ou)
  ELSE IF fa = "no" THEN Moment(n, << >>, NothingParsed, "no", FixedSources(pa, so), ou)
  ELSE Moment(n, << >>, NothingParsed, "no", so, fa)

IsReadIn(d, n, so) == FileIn(d, Roots[n]) /\ (InFixed(n) \/ Roots[n] \notin so.read)

AtRootIn(d, n, fa, so, ou) ==
  IF n > Len(Roots) THEN Moment(n, << >>, NothingParsed, fa, so, "done")
  ELSE IF ~ IsReadIn(d, n, so) THEN Moment(n + 1, << >>, NothingParsed, fa, so, ou)
  ELSE Opened(KindIn(d, << >>, Roots[n]), n + 1, << >>,
              FrameFor(Roots[n], "dependencies",
                       IF InFixed(n) THEN Usual[Roots[n]] ELSE "runtime"),
              NothingParsed, so, ou)

(* What follows, when the disk is d.                                       *)
AfterOf(d, n, fr, pa, fa, so, ou) ==
  IF fr # << >>
  THEN IF AtLineIn(d, fr) THEN AfterLine(d, n, fr, pa, fa, so, ou, LineIn(d, fr))
       ELSE Moment(n, SubSeq(fr, 1, Len(fr) - 1), pa, fa, so, ou)
  ELSE IF pa # NothingParsed THEN AfterFile(d, n, pa, fa, so, ou)
  ELSE AtRootIn(d, n, fa, so, ou)

After(d, x) == AfterOf(d, x.next, x.frames, x.parsed, x.failed, x.sources, x.outcome)

(* The files an extraction has come to depend on.                          *)
Covered ==
  sources.read \cup sources.missing \cup sources.unwatched \cup parsed.read \cup parsed.missing

Outside == {p \in Paths : disk[p].is = "outside"}

Depended == RootFiles \cup Covered \cup Outside

AgreesOn(e, d, S) == \A p \in S \cap Paths : e[p] = d[p]

LEMMA AfterNow ==
  \A e : After(e, Now) = AfterOf(e, next, frames, parsed, failed, sources, outcome)
BY DEF After, Now, Moment

LEMMA SameMoment ==
  ASSUME NEW n, NEW fr, NEW pa, NEW fa, NEW so, NEW ou,
         next' = n, frames' = fr, parsed' = pa, failed' = fa, sources' = so, outcome' = ou
  PROVE  Now' = Moment(n, fr, pa, fa, so, ou)
BY DEF Now, Moment

LEMMA PrefixElements ==
  ASSUME NEW S, NEW s \in Seq(S), NEW k \in 0 .. Len(s)
  PROVE  Elements(SubSeq(s, 1, k)) = {s[j] : j \in 1 .. k}
<1>1. PICK t : t = SubSeq(s, 1, k)
  OBVIOUS
<1>2. Len(t) = k /\ \A i \in 1 .. k : t[i] = s[i]
  BY <1>1, PrefixOf
<1>3. Elements(t) = {s[j] : j \in 1 .. k}
  BY <1>2 DEF Elements
<1> QED
  BY <1>1, <1>3

(* Two disks that agree on the paths tried up to the i-th resolve a line   *)
(* to it together, and note the same.                                      *)
LEMMA TriedAlike ==
  ASSUME TypeInv, AtLine, NEW e, NEW i \in 0 .. Len(Tried),
         \A j \in 1 .. i : e[Tried[j]] = disk[Tried[j]]
  PROVE  /\ NotedIn(e, TheLine, parsed, i) = Noted(i)
         /\ i \in 1 .. Len(Tried) /\ Resolves(i) => Resolutions(e, TheLine) = {i}
         /\ i = Len(Tried) /\ Unresolved => Resolutions(e, TheLine) = {}
         /\ i = Len(Tried) =>
              ((\E p \in Elements(Tried) : FileIn(e, p)) <=> \E p \in Elements(Tried) : IsFile(p))
<1>1. Tried \in Seq(Paths) /\ Len(Tried) \in Nat /\ TheLine.tries = Tried
  BY LineFacts DEF Tried
<1>2. Elements(SubSeq(Tried, 1, i)) = {Tried[j] : j \in 1 .. i}
  BY <1>1, PrefixElements
<1>3. \A j \in 1 .. i : /\ FileIn(e, Tried[j]) <=> IsFile(Tried[j])
                        /\ WithinIn(e, Tried[j]) <=> Within(Tried[j])
  BY DEF FileIn, IsFile, WithinIn, Within
<1>4. {p \in Elements(SubSeq(Tried, 1, i)) : ~ FileIn(e, p)}
        = {p \in Elements(SubSeq(Tried, 1, i)) : ~ IsFile(p)}
  BY <1>2, <1>3
<1>5. NotedIn(e, TheLine, parsed, i) = Noted(i)
  BY <1>1, <1>4 DEF NotedIn, Noted
<1>6. ASSUME i \in 1 .. Len(Tried), Resolves(i)
      PROVE  Resolutions(e, TheLine) = {i}
  <2>1. i \in Resolutions(e, TheLine)
    BY <1>1, <1>3, <1>6 DEF Resolutions, Resolves
  <2>2. ASSUME NEW k \in Resolutions(e, TheLine) PROVE k = i
    <3>1. k \in 1 .. Len(Tried) /\ WithinIn(e, Tried[k]) /\ \A j \in 1 .. k - 1 : ~ WithinIn(e, Tried[j])
      BY <1>1 DEF Resolutions
    <3>2. ~ (i < k)
      BY <1>1, <1>3, <1>6, <3>1 DEF Resolves
    <3>3. ~ (k < i)
      BY <1>1, <1>3, <1>6, <3>1 DEF Resolves
    <3> QED
      BY <1>1, <3>1, <3>2, <3>3
  <2> QED
    BY <2>1, <2>2
<1>7. i = Len(Tried) /\ Unresolved => Resolutions(e, TheLine) = {}
  BY <1>1, <1>3 DEF Resolutions, Unresolved
<1>8. i = Len(Tried) =>
        ((\E p \in Elements(Tried) : FileIn(e, p)) <=> \E p \in Elements(Tried) : IsFile(p))
  BY <1>1, <1>3 DEF Elements
<1> QED
  BY <1>5, <1>6, <1>7, <1>8

(* A disk that has the file on top as it is is at the same line.           *)
LEMMA SameLine ==
  ASSUME frames # << >>, NEW e, e[Top.file] = disk[Top.file]
  PROVE  /\ AtLine => AfterOf(e, next, frames, parsed, failed, sources, outcome)
                        = AfterLine(e, next, frames, parsed, failed, sources, outcome, TheLine)
         /\ ~ AtLine => AfterOf(e, next, frames, parsed, failed, sources, outcome)
                          = Moment(next, SubSeq(frames, 1, Len(frames) - 1), parsed, failed, sources, outcome)
<1>1. TopOf(frames) = Top
  BY DEF TopOf, Top
<1>2. AtLineIn(e, frames) <=> AtLine
  BY <1>1 DEF AtLineIn, AtLine
<1>3. LineIn(e, frames) = TheLine
  BY <1>1 DEF LineIn, TheLine
<1> QED
  BY <1>2, <1>3 DEF AfterOf

LEMMA TopRead ==
  ASSUME ExtractInv, frames # << >>
  PROVE  /\ Top.file \in Paths /\ Top.file \in parsed.read
         /\ OnStack \subseteq parsed.read
         /\ outcome = "running"
<1>1. TypeInv /\ FrameInv /\ IdleInv
  BY DEF ExtractInv
<1>2. ASSUME NEW i \in 1 .. Len(frames) PROVE frames[i].file \in parsed.read
  <2>1. frames[i] \in Frame
    BY <1>1 DEF TypeInv
  <2>2. IsAt(i, frames[i].file, frames[i].line, frames[i].mode)
    BY DEF IsAt
  <2>3. i \in Nat /\ frames[i].file \in Paths /\ frames[i].line \in Nat /\ frames[i].mode \in Modes
    BY <2>1 DEF Frame
  <2> QED
    BY <1>1, <2>2, <2>3 DEF FrameInv
<1>3. Len(frames) \in 1 .. Len(frames)
  BY <1>1, TopFacts
<1>4. Top.file \in parsed.read
  BY <1>2, <1>3 DEF Top
<1> QED
  BY <1>1, <1>2, <1>4, TopFacts DEF OnStack, IdleInv

LEMMA PastIs == PastTop(frames) = PastLine
BY DEF PastTop, PastLine

LEMMA DeclareAfter ==
  ASSUME ExtractInv, Declare, NEW e, AgreesOn(e, disk, Depended')
  PROVE  After(e, Now) = Now'
<1>1. frames # << >> /\ AtLine /\ TheLine.option = "none" /\ UNCHANGED unmoved /\ failed' = failed
  BY DEF Declare, AtLine
<1>2. frames' = PastLine /\ parsed' = Declared(frames, parsed)
  BY DEF Declare, Declared, TopOf, Top
<1>3. Top.file \in Depended'
  <2>1. parsed'.read = parsed.read
    <3>1. parsed \in RequirementsExtraction
      BY DEF ExtractInv, TypeInv
    <3> QED
      BY <1>2, <3>1 DEF Declared, RequirementsExtraction
  <2> QED
    BY <2>1, <1>1, TopRead DEF Depended, Covered
<1>4. e[Top.file] = disk[Top.file]
  BY <1>1, <1>3, TopRead DEF AgreesOn
<1>5. After(e, Now) = AfterLine(e, next, frames, parsed, failed, sources, outcome, TheLine)
  BY <1>1, <1>4, AfterNow, SameLine
<1>6. After(e, Now) = Moment(next, PastLine, parsed', failed, sources, outcome)
  BY <1>1, <1>2, <1>5, PastIs DEF AfterLine
<1>7. next' = next /\ sources' = sources /\ outcome' = outcome
  BY <1>1 DEF unmoved
<1> QED
  BY <1>1, <1>2, <1>6, <1>7, SameMoment

LEMMA LeaveRemoteAfter ==
  ASSUME ExtractInv, LeaveRemote, NEW e, AgreesOn(e, disk, Depended')
  PROVE  After(e, Now) = Now'
<1>1. frames # << >> /\ AtLine /\ TheLine = Remote /\ UNCHANGED unmoved /\ failed' = failed
  BY DEF LeaveRemote, AtLine
<1>2. frames' = PastLine /\ parsed' = [parsed EXCEPT !.skipped = TRUE]
  BY DEF LeaveRemote
<1>3. Top.file \in Depended'
  <2>1. parsed'.read = parsed.read
    <3>1. parsed \in RequirementsExtraction
      BY DEF ExtractInv, TypeInv
    <3> QED
      BY <1>2, <3>1 DEF RequirementsExtraction
  <2> QED
    BY <2>1, <1>1, TopRead DEF Depended, Covered
<1>4. e[Top.file] = disk[Top.file]
  BY <1>1, <1>3, TopRead DEF AgreesOn
<1>5. After(e, Now) = AfterLine(e, next, frames, parsed, failed, sources, outcome, TheLine)
  BY <1>1, <1>4, AfterNow, SameLine
<1>6. TheLine.option # "none"
  BY <1>1 DEF Remote
<1>7. After(e, Now) = Moment(next, PastLine, parsed', failed, sources, outcome)
  BY <1>1, <1>2, <1>5, <1>6, PastIs DEF AfterLine
<1>8. next' = next /\ sources' = sources /\ outcome' = outcome
  BY <1>1 DEF unmoved
<1> QED
  BY <1>1, <1>2, <1>7, <1>8, SameMoment

LEMMA EndFileAfter ==
  ASSUME ExtractInv, EndFile, NEW e, AgreesOn(e, disk, Depended')
  PROVE  After(e, Now) = Now'
<1>1. /\ frames # << >> /\ ~ AtLine /\ UNCHANGED unmoved /\ failed' = failed /\ parsed' = parsed
      /\ frames' = SubSeq(frames, 1, Len(frames) - 1)
  BY DEF EndFile
<1>2. e[Top.file] = disk[Top.file]
  BY <1>1, TopRead DEF Depended, Covered, AgreesOn
<1>3. After(e, Now) = Moment(next, SubSeq(frames, 1, Len(frames) - 1), parsed, failed, sources, outcome)
  BY <1>1, <1>2, AfterNow, SameLine
<1>4. next' = next /\ sources' = sources /\ outcome' = outcome
  BY <1>1 DEF unmoved
<1> QED
  BY <1>1, <1>3, <1>4, SameMoment

LEMMA OpenAfter ==
  ASSUME NEW f, NEW mode, NEW context, NEW start, Open(f, mode, context, start),
         NEW e, f \notin OnStack => e[f] = disk[f]
  PROVE  Now' = Opened(KindIn(e, frames, f), next', frames, FrameFor(f, mode, context), start,
                       sources', outcome')
<1>1. PICK kind : kind = IF f \in OnStack THEN "cycle" ELSE disk[f].is
  OBVIOUS
<1>2. KindIn(e, frames, f) = kind
  BY <1>1 DEF KindIn, OnStack
<1>3. PICK frame : frame = FrameFor(f, mode, context)
  OBVIOUS
<1>4. frame.file = f
  BY <1>3 DEF FrameFor
<1>5. parsed' = [start EXCEPT !.read = IF kind = "cycle" THEN @ ELSE @ \cup {f},
                              !.skipped = @ \/ kind = "undecodable"]
  BY <1>1 DEF Open
<1>6. failed' = IF Fatal(kind) THEN kind ELSE "no"
  BY <1>1 DEF Open, Fatal
<1>7. frames' = IF Fatal(kind) THEN << >>
                ELSE IF kind = "undecodable" THEN PastLine
                ELSE Append(PastLine, frame)
  BY <1>1, <1>3 DEF Open, Fatal, FrameFor
<1> QED
  BY <1>2, <1>3, <1>4, <1>5, <1>6, <1>7, PastIs DEF Opened, Now, Moment

(* What is noted for a line is kept by opening a file.                     *)
LEMMA OpenCovers ==
  ASSUME TypeInv, NEW f \in Paths, NEW mode, NEW context, NEW start \in RequirementsExtraction,
         Open(f, mode, context, start)
  PROVE  /\ parsed'.missing = start.missing /\ start.read \subseteq parsed'.read
         /\ f \notin OnStack => f \in parsed'.read
<1>1. PICK kind : kind = IF f \in OnStack THEN "cycle" ELSE disk[f].is
  OBVIOUS
<1>2. parsed' = [start EXCEPT !.read = IF kind = "cycle" THEN @ ELSE @ \cup {f},
                              !.skipped = @ \/ kind = "undecodable"]
  BY <1>1 DEF Open
<1>3. f \notin OnStack => kind # "cycle"
  BY <1>1, DiskIsOK, LineTypes
<1> QED
  BY <1>2, <1>3 DEF RequirementsExtraction

(* The paths tried up to the i-th are all depended on when all before it   *)
(* lead nowhere and what is missing is noted.                              *)
LEMMA TriedDepended ==
  ASSUME TypeInv, AtLine, NEW i \in 0 .. Len(Tried), disk' = disk,
         NEW j \in 1 .. i, ~ Within(Tried[j]), Noted(i).missing \subseteq parsed'.missing
  PROVE  Tried[j] \in Depended'
<1>1. Tried \in Seq(Paths) /\ Len(Tried) \in Nat
  BY LineFacts
<1>2. Tried[j] \in Paths
  BY <1>1
<1>3. CASE IsFile(Tried[j])
  BY <1>2, <1>3 DEF Within, IsFile, Depended, Outside
<1>4. CASE ~ IsFile(Tried[j])
  <2>1. Tried[j] \in Elements(SubSeq(Tried, 1, i))
    BY <1>1, PrefixElements
  <2>2. Noted(i).missing = parsed.missing \cup {p \in Elements(SubSeq(Tried, 1, i)) : ~ IsFile(p)}
    <3>1. parsed \in RequirementsExtraction
      BY DEF TypeInv
    <3> QED
      BY <3>1 DEF Noted, RequirementsExtraction
  <2> QED
    BY <1>4, <2>1, <2>2 DEF Depended, Covered
<1> QED
  BY <1>3, <1>4

LEMMA OneResolves ==
  \A i : (CHOOSE k \in {i} : TRUE) = i
OBVIOUS

LEMMA FollowAfter ==
  ASSUME ExtractInv, AtLine, TheLine.option \in Options, UNCHANGED unmoved,
         NEW i \in 1 .. Len(Tried), Resolves(i), NEW mode, NEW context,
         Open(Tried[i], mode, context, Noted(i)),
         FrameFor(Tried[i], mode, context)
           = IF TheLine.option = "-r"
             THEN FrameFor(Tried[i], "dependencies", ContextOf(Tried[i]))
             ELSE FrameFor(Tried[i], "constraints", Top.context),
         NEW e, AgreesOn(e, disk, Depended')
  PROVE  After(e, Now) = Now'
<1>1. /\ TypeInv /\ frames # << >> /\ Tried \in Seq(Paths) /\ Len(Tried) \in Nat
      /\ TheLine.tries = Tried
  BY LineFacts DEF ExtractInv, Tried
<1>2. Tried[i] \in Paths /\ i \in 0 .. Len(Tried)
  BY <1>1
<1>3. Noted(i) \in RequirementsExtraction /\ Noted(i).read = parsed.read
  BY <1>1, <1>2, NotedFacts
<1>4. /\ parsed'.missing = Noted(i).missing /\ parsed.read \subseteq parsed'.read
      /\ Tried[i] \notin OnStack => Tried[i] \in parsed'.read
  BY <1>1, <1>2, <1>3, OpenCovers
<1>5. parsed'.read \subseteq Depended'
  BY DEF Depended, Covered
<1>6. Top.file \in parsed'.read /\ Tried[i] \in parsed'.read
  BY <1>1, <1>4, TopRead
<1>7. disk' = disk /\ next' = next /\ sources' = sources /\ outcome' = outcome
  BY DEF unmoved
<1>8. ASSUME NEW j \in 1 .. i PROVE e[Tried[j]] = disk[Tried[j]]
  <2>1. CASE j = i
    BY <1>2, <1>5, <1>6, <2>1 DEF AgreesOn
  <2>2. CASE j # i
    <3>1. ~ Within(Tried[j])
      BY <2>2 DEF Resolves
    <3>2. Tried[j] \in Depended'
      BY <1>1, <1>2, <1>4, <1>7, <3>1, TriedDepended
    <3>3. Tried[j] \in Paths
      BY <1>1
    <3> QED
      BY <3>2, <3>3 DEF AgreesOn
  <2> QED
    BY <2>1, <2>2
<1>9. /\ NotedIn(e, TheLine, parsed, i) = Noted(i)
      /\ Resolutions(e, TheLine) = {i}
  BY <1>1, <1>2, <1>8, TriedAlike
<1>10. After(e, Now) = AfterLine(e, next, frames, parsed, failed, sources, outcome, TheLine)
  BY <1>1, <1>5, <1>6, TopRead, AfterNow, SameLine DEF AgreesOn
<1>11. TheLine.option # "none" /\ TheLine # Remote
  BY DEF Options, Remote
<1>12. After(e, Now) = Include(e, next, frames, parsed, sources, outcome, TheLine, i)
  BY <1>9, <1>10, <1>11, OneResolves DEF AfterLine
<1>13. /\ ContextIn(frames, Tried[i]) = ContextOf(Tried[i])
       /\ TopOf(frames).context = Top.context
  BY DEF ContextIn, ContextOf, Top, TopOf
<1>14. After(e, Now) = Opened(KindIn(e, frames, Tried[i]), next, frames,
                              FrameFor(Tried[i], mode, context), Noted(i), sources, outcome)
  BY <1>1, <1>9, <1>12, <1>13 DEF Include
<1>15. Now' = Opened(KindIn(e, frames, Tried[i]), next', frames,
                     FrameFor(Tried[i], mode, context), Noted(i), sources', outcome')
  BY <1>2, <1>5, <1>6, OpenAfter DEF AgreesOn
<1> QED
  BY <1>7, <1>14, <1>15

LEMMA FollowRequirementsAfter ==
  ASSUME ExtractInv, FollowRequirements, NEW e, AgreesOn(e, disk, Depended')
  PROVE  After(e, Now) = Now'
<1>1. AtLine /\ TheLine.option = "-r" /\ UNCHANGED unmoved
  BY DEF FollowRequirements
<1>2. PICK i \in 1 .. Len(Tried) :
        Resolves(i) /\ Open(Tried[i], "dependencies", ContextOf(Tried[i]), Noted(i))
  BY DEF FollowRequirements
<1> QED
  BY <1>1, <1>2, FollowAfter DEF Options

LEMMA FollowConstraintsAfter ==
  ASSUME ExtractInv, FollowConstraints, NEW e, AgreesOn(e, disk, Depended')
  PROVE  After(e, Now) = Now'
<1>1. AtLine /\ TheLine.option = "-c" /\ UNCHANGED unmoved
  BY DEF FollowConstraints
<1>2. PICK i \in 1 .. Len(Tried) :
        Resolves(i) /\ Open(Tried[i], "constraints", Top.context, Noted(i))
  BY DEF FollowConstraints
<1> QED
  BY <1>1, <1>2, FollowAfter DEF Options

(* An include that leads nowhere has all the paths it tried depended on.   *)
LEMMA NowhereAfter ==
  ASSUME ExtractInv, AtLine, TheLine.option \in Options, Unresolved, UNCHANGED unmoved,
         parsed' = Noted(Len(Tried)), NEW e, AgreesOn(e, disk, Depended')
  PROVE  /\ After(e, Now) = LeftOut(e, next, frames, parsed, failed, sources, outcome, TheLine)
         /\ NotedIn(e, TheLine, parsed, Len(Tried)) = Noted(Len(Tried))
         /\ (\E p \in Elements(Tried) : FileIn(e, p)) <=> \E p \in Elements(Tried) : IsFile(p)
<1>1. /\ TypeInv /\ frames # << >> /\ Tried \in Seq(Paths) /\ Len(Tried) \in Nat
      /\ TheLine.tries = Tried
  BY LineFacts DEF ExtractInv, Tried
<1>2. Len(Tried) \in 0 .. Len(Tried)
  BY <1>1
<1>3. Noted(Len(Tried)).read = parsed.read
  BY <1>1, <1>2, NotedFacts
<1>4. Top.file \in Depended' /\ disk' = disk
  BY <1>1, <1>3, TopRead DEF Depended, Covered, unmoved
<1>5. ASSUME NEW j \in 1 .. Len(Tried) PROVE e[Tried[j]] = disk[Tried[j]]
  <2>1. ~ Within(Tried[j])
    BY DEF Unresolved
  <2>2. Noted(Len(Tried)).missing \subseteq parsed'.missing
    OBVIOUS
  <2>3. Tried[j] \in Depended'
    BY <1>1, <1>2, <1>4, <2>1, <2>2, TriedDepended
  <2>4. Tried[j] \in Paths
    BY <1>1
  <2> QED
    BY <2>3, <2>4 DEF AgreesOn
<1>6. /\ NotedIn(e, TheLine, parsed, Len(Tried)) = Noted(Len(Tried))
      /\ Resolutions(e, TheLine) = {}
      /\ (\E p \in Elements(Tried) : FileIn(e, p)) <=> \E p \in Elements(Tried) : IsFile(p)
  BY <1>1, <1>2, <1>5, TriedAlike
<1>7. After(e, Now) = AfterLine(e, next, frames, parsed, failed, sources, outcome, TheLine)
  BY <1>1, <1>4, TopRead, AfterNow, SameLine DEF AgreesOn
<1>8. TheLine.option # "none" /\ TheLine # Remote
  BY DEF Options, Remote
<1> QED
  BY <1>6, <1>7, <1>8 DEF AfterLine

LEMMA IncludeFailsAfter ==
  ASSUME ExtractInv, IncludeFails, NEW e, AgreesOn(e, disk, Depended')
  PROVE  After(e, Now) = Now'
<1>1. /\ AtLine /\ TheLine.option = "-r" /\ Unresolved /\ UNCHANGED unmoved
      /\ parsed' = Noted(Len(Tried)) /\ frames' = << >>
      /\ failed' = IF \E p \in Elements(Tried) : IsFile(p) THEN "outside" ELSE "missing"
  BY DEF IncludeFails
<1>2. /\ After(e, Now) = LeftOut(e, next, frames, parsed, failed, sources, outcome, TheLine)
      /\ NotedIn(e, TheLine, parsed, Len(Tried)) = Noted(Len(Tried))
      /\ (\E p \in Elements(Tried) : FileIn(e, p)) <=> \E p \in Elements(Tried) : IsFile(p)
  BY <1>1, NowhereAfter DEF Options
<1>3. After(e, Now) = Moment(next, << >>, parsed', failed', sources, outcome)
  BY <1>1, <1>2 DEF LeftOut, Tried
<1>4. next' = next /\ sources' = sources /\ outcome' = outcome
  BY <1>1 DEF unmoved
<1> QED
  BY <1>1, <1>3, <1>4, SameMoment

LEMMA ConstraintsMissingAfter ==
  ASSUME ExtractInv, ConstraintsMissing, NEW e, AgreesOn(e, disk, Depended')
  PROVE  After(e, Now) = Now'
<1>1. /\ AtLine /\ TheLine.option = "-c" /\ Unresolved /\ UNCHANGED unmoved
      /\ parsed' = Noted(Len(Tried)) /\ frames' = PastLine /\ failed' = failed
  BY DEF ConstraintsMissing
<1>2. /\ After(e, Now) = LeftOut(e, next, frames, parsed, failed, sources, outcome, TheLine)
      /\ NotedIn(e, TheLine, parsed, Len(Tried)) = Noted(Len(Tried))
  BY <1>1, NowhereAfter DEF Options
<1>3. After(e, Now) = Moment(next, PastLine, parsed', failed, sources, outcome)
  BY <1>1, <1>2, PastIs DEF LeftOut, Tried
<1>4. next' = next /\ sources' = sources /\ outcome' = outcome
  BY <1>1 DEF unmoved
<1> QED
  BY <1>1, <1>3, <1>4, SameMoment

LEMMA LeastOfSome ==
  ASSUME NEW S \in SUBSET Nat, S # {}
  PROVE  \E n \in S : \A m \in S : n <= m
<1> DEFINE R == {ss \in Nat \X Nat : ss[1] < ss[2]}
<1>1. IsWellFoundedOn(R, Nat)
  BY NatLessThanWellFounded DEF OpToRel
<1>2. PICK x \in S : \A y \in S : ~ (<<y, x>> \in R)
  BY <1>1, WFMin
<1>3. \A y \in S : ~ (y < x)
  BY <1>2
<1> QED
  BY <1>3

LEMMA OntoWhenIncreasing ==
  ASSUME NEW n \in Nat, NEW S \in SUBSET (1 .. n), NEW a \in InOrder(S)
  PROVE  /\ Cardinality(S) \in Nat /\ a \in [1 .. Cardinality(S) -> S]
         /\ \A i, j \in 1 .. Cardinality(S) : i < j => a[i] < a[j]
         /\ \A k \in S : \E i \in 1 .. Cardinality(S) : a[i] = k
<1>1. S \subseteq Nat
  OBVIOUS
<1>2. IsFiniteSet(1 .. n)
  BY FS_Interval
<1>3. IsFiniteSet(S) /\ Cardinality(S) \in Nat
  BY <1>2, FS_Subset, FS_CardinalityType
<1>4. PICK c : c = Cardinality(S)
  OBVIOUS
<1>5. a \in [1 .. c -> S] /\ \A i, j \in 1 .. c : i < j => a[i] < a[j]
  BY <1>4 DEF InOrder
<1>6. \A i, j \in 1 .. c : a[i] = a[j] => i = j
  <2>1. \A i \in 1 .. c : a[i] \in Nat
    BY ONLY <1>5, <1>1
  <2> QED
    BY <1>3, <1>4, <1>5, <2>1
<1>7. a \in Injection(1 .. c, S)
  BY <1>5, <1>6 DEF Injection, IsInjective
<1>8. Cardinality(1 .. c) = c
  BY <1>3, <1>4, FS_Interval
<1>9. a \in Surjection(1 .. c, S)
  BY <1>3, <1>4, <1>7, <1>8, FS_Injection
<1>10. \A k \in S : \E i \in 1 .. c : a[i] = k
  BY <1>9 DEF Surjection
<1> QED
  BY <1>3, <1>4, <1>5, <1>10

LEMMA NoLater ==
  ASSUME NEW n \in Nat, NEW S \in SUBSET (1 .. n), NEW a \in InOrder(S), NEW b \in InOrder(S),
         NEW m \in 1 .. Cardinality(S), \A k \in 1 .. Cardinality(S) : k < m => a[k] = b[k]
  PROVE  ~ (a[m] < b[m])
<1>1. S \subseteq Nat
  OBVIOUS
<1>2. PICK c \in Nat : c = Cardinality(S)
  BY OntoWhenIncreasing
<1>3. /\ a \in [1 .. c -> S] /\ b \in [1 .. c -> S]
      /\ \A i, j \in 1 .. c : i < j => a[i] < a[j]
      /\ \A i, j \in 1 .. c : i < j => b[i] < b[j]
      /\ \A k \in S : \E i \in 1 .. c : b[i] = k
  <2>1. /\ a \in [1 .. Cardinality(S) -> S]
        /\ \A i, j \in 1 .. Cardinality(S) : i < j => a[i] < a[j]
    BY OntoWhenIncreasing
  <2>2. /\ b \in [1 .. Cardinality(S) -> S]
        /\ \A i, j \in 1 .. Cardinality(S) : i < j => b[i] < b[j]
        /\ \A k \in S : \E i \in 1 .. Cardinality(S) : b[i] = k
    BY OntoWhenIncreasing
  <2> QED
    BY ONLY <1>2, <2>1, <2>2
<1>4. SUFFICES ASSUME a[m] < b[m] PROVE FALSE
  OBVIOUS
<1>5. m \in 1 .. c
  BY <1>2
<1>6. PICK k \in 1 .. c : b[k] = a[m]
  BY ONLY <1>3, <1>5
<1>7. m \in 1 .. c /\ a[m] \in Nat /\ b[m] \in Nat /\ b[k] \in Nat /\ a[k] \in Nat
  BY ONLY <1>1, <1>3, <1>5, <1>6
<1>8. CASE k < m
  <2>1. a[k] = a[m]
    BY <1>2, <1>6, <1>8
  <2>2. a[k] < a[m]
    BY <1>3, <1>7, <1>8
  <2> QED
    BY <1>7, <2>1, <2>2
<1>9. CASE m < k
  <2>1. b[m] < b[k]
    BY <1>3, <1>7, <1>9
  <2> QED
    BY <1>4, <1>6, <1>7, <2>1
<1>10. CASE k = m
  BY <1>4, <1>6, <1>7, <1>10
<1> QED
  BY <1>7, <1>8, <1>9, <1>10

(* A set of positions is enumerated in order in one way only.              *)
LEMMA OneOrder ==
  ASSUME NEW n \in Nat, NEW S \in SUBSET (1 .. n), NEW a \in InOrder(S), NEW b \in InOrder(S)
  PROVE  a = b
<1>1. S \subseteq Nat
  OBVIOUS
<1>2. PICK c \in Nat : c = Cardinality(S)
  BY OntoWhenIncreasing
<1>3. a \in [1 .. c -> S] /\ b \in [1 .. c -> S]
  BY <1>2, OntoWhenIncreasing
<1>4. SUFFICES \A m \in 1 .. c : a[m] = b[m]
  BY <1>3
<1> DEFINE D == {m \in 1 .. c : a[m] # b[m]}
<1>5. ASSUME D # {} PROVE FALSE
  <2>1. PICK m \in D : \A k \in D : m <= k
    <3>1. D \in SUBSET Nat
      BY <1>2
    <3> QED
      BY ONLY <1>5, <3>1, LeastOfSome
  <2>2. m \in 1 .. c /\ a[m] # b[m]
    OBVIOUS
  <2>3. \A k \in 1 .. c : k < m => a[k] = b[k]
    BY <2>1, <2>2
  <2> HIDE DEF D
  <2>4. ~ (a[m] < b[m]) /\ ~ (b[m] < a[m])
    BY <1>2, <2>2, <2>3, NoLater
  <2>5. a[m] \in Nat /\ b[m] \in Nat
    BY ONLY <1>1, <1>3, <2>2
  <2> QED
    BY <2>2, <2>4, <2>5
<1> QED
  BY <1>5

(* Between two files the roots are depended on.                            *)
LEMMA RootsDepended ==
  ASSUME TypeInv, next <= Len(Roots), NEW e, AgreesOn(e, disk, Depended')
  PROVE  /\ Roots[next] \in Paths /\ e[Roots[next]] = disk[Roots[next]]
         /\ IsReadIn(e, next, sources) <=> IsRead(next)
<1>1. next \in 1 .. Len(Roots)
  BY RootFacts DEF TypeInv
<1>2. Roots[next] \in Paths /\ Roots[next] \in RootFiles
  BY <1>1, RootFacts
<1>3. e[Roots[next]] = disk[Roots[next]]
  BY <1>2 DEF AgreesOn, Depended
<1> QED
  BY <1>2, <1>3 DEF IsReadIn, IsRead, FileIn, IsFile

LEMMA StartFileAfter ==
  ASSUME ExtractInv, StartFile, NEW e, AgreesOn(e, disk, Depended')
  PROVE  After(e, Now) = Now'
<1>1. /\ outcome = "running" /\ frames = << >> /\ parsed = NothingParsed /\ next <= Len(Roots)
      /\ IsRead(next) /\ next' = next + 1 /\ sources' = sources /\ outcome' = outcome
  BY DEF StartFile, AtRoot
<1>2. PICK f, c : f = Roots[next] /\ c = IF InFixed(next) THEN Usual[f] ELSE "runtime"
  OBVIOUS
<1>3. Open(f, "dependencies", c, NothingParsed)
  BY <1>2 DEF StartFile
<1>4. TypeInv /\ next \in Nat /\ Len(Roots) \in Nat
  BY RootFacts DEF ExtractInv, TypeInv
<1>5. e[f] = disk[f] /\ IsReadIn(e, next, sources)
  BY <1>1, <1>2, <1>4, RootsDepended
<1>6. Now' = Opened(KindIn(e, frames, f), next', frames, FrameFor(f, "dependencies", c),
                    NothingParsed, sources', outcome')
  BY <1>3, <1>5, OpenAfter
<1>7. After(e, Now) = AtRootIn(e, next, failed, sources, outcome)
  BY <1>1, AfterNow DEF AfterOf
<1>8. ~ (next > Len(Roots))
  BY <1>1, <1>4
<1>9. After(e, Now) = Opened(KindIn(e, << >>, f), next + 1, << >>, FrameFor(f, "dependencies", c),
                             NothingParsed, sources, outcome)
  BY <1>2, <1>5, <1>7, <1>8 DEF AtRootIn
<1> QED
  BY <1>1, <1>6, <1>9

LEMMA PassOverAfter ==
  ASSUME ExtractInv, PassOver, NEW e, AgreesOn(e, disk, Depended')
  PROVE  After(e, Now) = Now'
<1>1. /\ outcome = "running" /\ frames = << >> /\ parsed = NothingParsed /\ next <= Len(Roots)
      /\ ~ IsRead(next) /\ next' = next + 1 /\ sources' = sources /\ outcome' = outcome
      /\ frames' = frames /\ parsed' = parsed /\ failed' = failed
  BY DEF PassOver, AtRoot
<1>2. TypeInv /\ next \in Nat /\ Len(Roots) \in Nat
  BY RootFacts DEF ExtractInv, TypeInv
<1>3. ~ IsReadIn(e, next, sources) /\ ~ (next > Len(Roots))
  BY <1>1, <1>2, RootsDepended
<1>4. After(e, Now) = Moment(next + 1, << >>, NothingParsed, failed, sources, outcome)
  BY <1>1, <1>3, AfterNow DEF AfterOf, AtRootIn
<1> QED
  BY <1>1, <1>4, SameMoment

LEMMA ExtractedAfter ==
  ASSUME Extracted, NEW e
  PROVE  After(e, Now) = Now'
<1>1. /\ frames = << >> /\ parsed = NothingParsed /\ next > Len(Roots)
      /\ outcome' = "done" /\ UNCHANGED <<next, frames, parsed, failed, sources>>
  BY DEF Extracted
<1>2. After(e, Now) = Moment(next, << >>, NothingParsed, failed, sources, "done")
  BY <1>1, AfterNow DEF AfterOf, AtRootIn
<1> QED
  BY <1>1, <1>2, SameMoment

LEMMA AfterEnd ==
  ASSUME AtEnd, NEW e
  PROVE  After(e, Now) = AfterFile(e, next, parsed, failed, sources, outcome)
BY AfterNow DEF AtEnd, AfterOf

LEMMA FinishFixedAfter ==
  ASSUME FinishFixed, NEW e
  PROVE  After(e, Now) = Now'
<1>1. /\ AtEnd /\ InFixed(next - 1) /\ failed = "no" /\ frames = << >>
      /\ next' = next /\ frames' = frames /\ outcome' = outcome
      /\ parsed' = NothingParsed /\ failed' = "no"
  BY DEF FinishFixed, Reset, AtEnd
<1>2. sources' = FixedSources(parsed, sources)
  BY DEF FinishFixed, FixedSources
<1>3. After(e, Now) = Moment(next, << >>, NothingParsed, "no", FixedSources(parsed, sources), outcome)
  BY <1>1, AfterEnd DEF AfterFile
<1> QED
  BY <1>1, <1>2, <1>3, SameMoment

LEMMA FailFixedAfter ==
  ASSUME FailFixed, NEW e
  PROVE  After(e, Now) = Now'
<1>1. /\ AtEnd /\ InFixed(next - 1) /\ failed # "no" /\ frames = << >>
      /\ next' = next /\ frames' = frames /\ outcome' = failed /\ sources' = sources
      /\ parsed' = NothingParsed /\ failed' = "no"
  BY DEF FailFixed, Reset, AtEnd
<1>2. After(e, Now) = Moment(next, << >>, NothingParsed, "no", sources, failed)
  BY <1>1, AfterEnd DEF AfterFile
<1> QED
  BY <1>1, <1>2, SameMoment

KeptLines == {i \in 1 .. Len(parsed.declared) : Keeps(parsed.declared[i])}

LEMMA FinishExtraAfter ==
  ASSUME ExtractInv, FinishExtra, NEW e, AgreesOn(e, disk, Depended')
  PROVE  After(e, Now) = Now'
<1>1. /\ AtEnd /\ ~ InFixed(next - 1) /\ frames = << >>
      /\ next' = next /\ frames' = frames /\ outcome' = outcome
      /\ parsed' = NothingParsed /\ failed' = "no"
  BY DEF FinishExtra, Reset, AtEnd
<1>2. PICK at \in [1 .. Cardinality(KeptLines) -> KeptLines] :
        /\ \A i, j \in DOMAIN at : i < j => at[i] < at[j]
        /\ sources' = ExtraSources(parsed, failed, sources, at)
  BY DEF FinishExtra, KeptLines, ExtraSources, MissingNoted
<1>3. at \in InOrder(KeptLines)
  BY <1>2 DEF InOrder
<1>4. \A f : CompiledIn(e, f) <=> Compiled(f)
  <2>1. \A p \in RootFiles : e[p] = disk[p]
    BY RootFacts DEF AgreesOn, Depended
  <2> QED
    BY <2>1 DEF CompiledIn, Compiled, FileIn, IsFile
<1>5. KeptIn(e, parsed, sources) = KeptLines
  BY <1>4 DEF KeptIn, KeptLines, Keeps
<1>6. Len(parsed.declared) \in Nat /\ KeptLines \in SUBSET (1 .. Len(parsed.declared))
  BY GotTyped DEF KeptLines, ExtractInv
<1>7. (CHOOSE a \in InOrder(KeptLines) : TRUE) \in InOrder(KeptLines)
  BY <1>3
<1>8. (CHOOSE a \in InOrder(KeptLines) : TRUE) = at
  BY <1>3, <1>6, <1>7, OneOrder
<1>9. After(e, Now) = Moment(next, << >>, NothingParsed, "no",
                             ExtraSources(parsed, failed, sources, at), outcome)
  BY <1>1, <1>5, <1>8, AfterEnd DEF AfterFile
<1> QED
  BY <1>1, <1>2, <1>9, SameMoment

(* Each step of an extraction is the one that the files it covers make it. *)
LEMMA ParseIsAfter ==
  ASSUME ExtractInv, Parse, NEW e, AgreesOn(e, disk, Depended')
  PROVE  After(e, Now) = Now'
<1>1. CASE StartFile \/ PassOver \/ Extracted
  BY <1>1, StartFileAfter, PassOverAfter, ExtractedAfter
<1>2. CASE Declare \/ LeaveRemote \/ EndFile
  BY <1>2, DeclareAfter, LeaveRemoteAfter, EndFileAfter
<1>3. CASE FollowRequirements \/ FollowConstraints
  BY <1>3, FollowRequirementsAfter, FollowConstraintsAfter
<1>4. CASE IncludeFails \/ ConstraintsMissing
  BY <1>4, IncludeFailsAfter, ConstraintsMissingAfter
<1>5. CASE FinishFixed \/ FailFixed \/ FinishExtra
  BY <1>5, FinishFixedAfter, FailFixedAfter, FinishExtraAfter
<1> QED
  BY <1>1, <1>2, <1>3, <1>4, <1>5 DEF Parse

LEMMA NothingCovered ==
  parsed = NothingParsed => parsed.read = {} /\ parsed.missing = {}
BY DEF NothingParsed

LEMMA ParseRests ==
  ASSUME ExtractInv, Parse
  PROVE  disk' = disk /\ before' = before /\ outcome = "running"
<1>1. CASE StartFile \/ PassOver \/ Extracted
  BY <1>1 DEF StartFile, PassOver, Extracted, AtRoot
<1>2. CASE Declare \/ LeaveRemote \/ FollowRequirements \/ IncludeFails
  BY <1>2, TopRead DEF Declare, LeaveRemote, FollowRequirements, IncludeFails, AtLine, unmoved
<1>3. CASE FollowConstraints \/ ConstraintsMissing \/ EndFile
  BY <1>3, TopRead DEF FollowConstraints, ConstraintsMissing, EndFile, AtLine, unmoved
<1>4. CASE FinishFixed \/ FailFixed \/ FinishExtra
  <2>1. disk' = disk /\ before' = before /\ AtEnd
    BY <1>4 DEF FinishFixed, FailFixed, FinishExtra
  <2> QED
    BY <2>1, EndFacts
<1> QED
  BY <1>1, <1>2, <1>3, <1>4 DEF Parse

(* Until it fails, an extraction forgets none of the files it depends on.  *)
LEMMA CoverGrows ==
  ASSUME ExtractInv, Parse, outcome' \in {"running", "done"}
  PROVE  Depended \subseteq Depended'
<1>1. TypeInv /\ IdleInv
  BY DEF ExtractInv
<1>2. disk' = disk
  BY ParseRests
<1>3. SUFFICES Covered \subseteq Covered'
  BY <1>2 DEF Depended, Outside
<1>4. /\ parsed \in RequirementsExtraction
      /\ sources = [declared |-> sources.declared, constraints |-> sources.constraints,
           names |-> sources.names, read |-> sources.read, missing |-> sources.missing,
           unwatched |-> sources.unwatched]
  BY <1>1 DEF TypeInv
<1>5. CASE StartFile \/ PassOver \/ Extracted
  BY <1>5, NothingCovered DEF StartFile, PassOver, Extracted, AtRoot, Covered
<1>6. ASSUME sources' = sources, parsed.read \subseteq parsed'.read,
             parsed.missing \subseteq parsed'.missing
      PROVE  Covered \subseteq Covered'
  BY <1>6 DEF Covered
<1>7. CASE Declare
  <2>1. parsed' = Declared(frames, parsed) /\ sources' = sources
    BY <1>7 DEF Declare, Declared, TopOf, Top, unmoved
  <2>2. parsed'.read = parsed.read /\ parsed'.missing = parsed.missing
    BY <1>4, <2>1 DEF Declared, RequirementsExtraction
  <2> QED
    BY <1>6, <2>1, <2>2
<1>8. CASE LeaveRemote \/ EndFile
  <2>1. (parsed' = [parsed EXCEPT !.skipped = TRUE] \/ parsed' = parsed) /\ sources' = sources
    BY <1>8 DEF LeaveRemote, EndFile, unmoved
  <2>2. parsed'.read = parsed.read /\ parsed'.missing = parsed.missing
    BY <1>4, <2>1 DEF RequirementsExtraction
  <2> QED
    BY <1>6, <2>1, <2>2
<1>9. ASSUME NEW i
      PROVE  parsed.missing \subseteq Noted(i).missing /\ Noted(i).read = parsed.read
  BY <1>4 DEF Noted, RequirementsExtraction
<1>10. CASE IncludeFails \/ ConstraintsMissing
  <2>1. parsed' = Noted(Len(Tried)) /\ sources' = sources
    BY <1>10 DEF IncludeFails, ConstraintsMissing, unmoved
  <2> QED
    BY <1>6, <1>9, <2>1
<1>11. CASE FollowRequirements \/ FollowConstraints
  <2>1. AtLine /\ sources' = sources
    BY <1>11 DEF FollowRequirements, FollowConstraints, unmoved
  <2>2. PICK i \in 1 .. Len(Tried) : \E mode, context : Open(Tried[i], mode, context, Noted(i))
    BY <1>11 DEF FollowRequirements, FollowConstraints
  <2>3. Tried \in Seq(Paths) /\ Len(Tried) \in Nat
    BY <1>1, <2>1, LineFacts
  <2>4. Tried[i] \in Paths /\ i \in 0 .. Len(Tried)
    BY <2>2, <2>3
  <2>5. Noted(i) \in RequirementsExtraction
    BY <1>1, <2>1, <2>4, NotedFacts
  <2>6. PICK mode, context : Open(Tried[i], mode, context, Noted(i))
    BY <2>2
  <2>7. parsed'.missing = Noted(i).missing /\ Noted(i).read \subseteq parsed'.read
    BY <1>1, <2>4, <2>5, <2>6, OpenCovers
  <2> QED
    BY <1>6, <1>9, <2>1, <2>7
<1>12. CASE FinishFixed
  <2>1. sources' = FixedSources(parsed, sources)
    BY <1>12 DEF FinishFixed, FixedSources
  <2>2. /\ sources'.read = sources.read \cup parsed.read
        /\ sources'.missing = sources.missing \cup parsed.missing
        /\ sources'.unwatched = sources.unwatched
    BY <1>4, <2>1 DEF FixedSources
  <2> QED
    BY <2>2 DEF Covered
<1>13. CASE FinishExtra
  <2>1. PICK at : sources' = ExtraSources(parsed, failed, sources, at)
    BY <1>13 DEF FinishExtra, ExtraSources, MissingNoted
  <2>2. /\ sources'.missing = sources.missing \cup parsed.missing
        /\ \/ sources'.read = sources.read /\ sources'.unwatched = sources.unwatched \cup parsed.read
           \/ sources'.read = sources.read \cup parsed.read /\ sources'.unwatched = sources.unwatched
    BY <1>4, <2>1 DEF ExtraSources
  <2> QED
    BY <2>2 DEF Covered
<1>14. CASE FailFixed
  <2>1. AtEnd /\ outcome' = failed /\ failed # "no"
    BY <1>14 DEF FailFixed
  <2> QED
    BY <1>1, <2>1 DEF TypeInv
<1> QED
  BY <1>5, <1>7, <1>8, <1>10, <1>11, <1>12, <1>13, <1>14 DEF Parse

----------------------------------------------------------------------------
(* H holds the moments of the extraction so far: from each, every disk     *)
(* that has what it depends on as it is leads on within H.                 *)
Traced(H) ==
  /\ Start \in H /\ Now \in H
  /\ \A x \in H :
       x = Now \/ (x.outcome = "running" /\ \A e : AgreesOn(e, disk, Depended) => After(e, x) \in H)

(* The second extraction is within those moments of the first, which end   *)
(* in F, and the files lead it on from each.                               *)
Retraced(H, F) ==
  /\ F.outcome = "done" /\ F.sources = before.sources
  /\ Now \in H
  /\ \A x \in H : x = F \/ (x.outcome = "running" /\ After(disk, x) \in H)

Noticed == Watched(before.sources) \cup before.sources.unwatched \cup before.outside

WarmInv ==
  /\ before.edited = {} =>
       /\ before.outcome = "none"
       /\ outcome \in {"running", "done"} => \E H : Traced(H)
  /\ before.edited # {} /\ before.outcome = "done" /\ before.edited \cap Noticed = {} =>
       \E H, F : Retraced(H, F)

LEMMA WarmBegins ==
  ExtractInit => WarmInv
<1> SUFFICES ASSUME ExtractInit PROVE WarmInv
  OBVIOUS
<1>1. before.edited = {} /\ before.outcome = "none"
  BY DEF ExtractInit, NoBefore
<1>2. Now = Start
  BY DEF ExtractInit, Now, Start
<1>3. Traced({Start})
  BY <1>2 DEF Traced
<1> QED
  BY <1>1, <1>3 DEF WarmInv

LEMMA TraceGoesOn ==
  ASSUME ExtractInv, Parse, outcome' \in {"running", "done"}, NEW H, Traced(H)
  PROVE  \E G : Traced(G)'
<1>1. PICK y : y = Now'
  OBVIOUS
<1>2. PICK D : D = Depended'
  OBVIOUS
<1>3. disk' = disk /\ outcome = "running" /\ Depended \subseteq D
  BY <1>2, ParseRests, CoverGrows
<1>4. ASSUME NEW x \in H, x # y, NEW e, AgreesOn(e, disk, D)
      PROVE  x.outcome = "running" /\ After(e, x) \in H \cup {y}
  <2>1. CASE x = Now
    <3>1. x.outcome = "running"
      BY <1>3, <2>1 DEF Now, Moment
    <3>2. After(e, Now) = Now'
      BY <1>2, <1>4, ParseIsAfter
    <3> QED
      BY <1>1, <2>1, <3>1, <3>2
  <2>2. CASE x # Now
    <3>1. AgreesOn(e, disk, Depended)
      BY <1>3, <1>4 DEF AgreesOn
    <3> QED
      BY <2>2, <3>1 DEF Traced
  <2> QED
    BY <2>1, <2>2
<1>5. ASSUME NEW x \in H, x # y PROVE x.outcome = "running"
  <2>1. AgreesOn(disk, disk, D)
    BY DEF AgreesOn
  <2> QED
    BY <1>4, <1>5, <2>1
<1>6. PICK G : G = H \cup {y}
  OBVIOUS
<1>7. Start \in G /\ y \in G
  BY <1>6 DEF Traced
<1>8. \A x \in G : x = y \/ (x.outcome = "running" /\ \A e : AgreesOn(e, disk, D) => After(e, x) \in G)
  BY <1>4, <1>5, <1>6
<1>9. Traced(G)'
  BY <1>1, <1>2, <1>3, <1>7, <1>8 DEF Traced
<1> QED
  BY <1>9

LEMMA RetraceGoesOn ==
  ASSUME ExtractInv, Parse, NEW H, NEW F, Retraced(H, F)
  PROVE  Retraced(H, F)'
<1>1. disk' = disk /\ before' = before /\ outcome = "running"
  BY ParseRests
<1>2. Now # F
  BY <1>1 DEF Retraced, Now, Moment
<1>3. AgreesOn(disk, disk, Depended')
  BY DEF AgreesOn
<1>4. After(disk, Now) = Now'
  BY <1>3, ParseIsAfter
<1>5. Now' \in H
  BY <1>2, <1>4 DEF Retraced
<1> QED
  BY <1>1, <1>5 DEF Retraced

LEMMA ParseKeepsWarm ==
  ASSUME ExtractInv, WarmInv, Parse
  PROVE  WarmInv'
<1>1. disk' = disk /\ before' = before /\ outcome = "running" /\ Noticed' = Noticed
  BY ParseRests DEF Noticed, Watched
<1>2. ASSUME before.edited = {}, outcome' \in {"running", "done"}
      PROVE  \E H : Traced(H)'
  BY <1>1, <1>2, TraceGoesOn DEF WarmInv
<1>3. ASSUME before.edited # {}, before.outcome = "done", before.edited \cap Noticed = {}
      PROVE  \E H, F : Retraced(H, F)'
  BY <1>3, RetraceGoesOn DEF WarmInv
<1> QED
  BY <1>1, <1>2, <1>3 DEF WarmInv

(* What is edited is not of what the first extraction depended on, so it   *)
(* goes as the first did, from its start.                                  *)
LEMMA EditKeepsWarm ==
  ASSUME ExtractInv, WarmInv, NEW f \in Paths, EditFile(f)
  PROVE  WarmInv'
<1>1. /\ outcome # "running" /\ before.edited = {} /\ before'.edited = {f}
      /\ before'.outcome = outcome /\ before'.sources = sources
      /\ before'.outside = {p \in Paths : disk[p].is = "outside"}
      /\ next' = 1 /\ sources' = NoSources /\ outcome' = "running"
      /\ frames' = frames /\ parsed' = parsed /\ failed' = failed
  BY DEF EditFile
<1>2. PICK to \in States[f] : disk' = [disk EXCEPT ![f] = to]
  BY DEF EditFile
<1>3. TypeInv /\ IdleInv
  BY DEF ExtractInv
<1>4. frames = << >> /\ parsed = NothingParsed /\ failed = "no"
  BY <1>1, <1>3 DEF IdleInv
<1>5. Now' = Start
  BY <1>1, <1>4 DEF Now, Start
<1>6. Noticed' = Depended
  <2>1. Watched(sources) = RootFiles \cup sources.read \cup sources.missing
    BY DEF Watched
  <2>2. Noticed' = Watched(sources) \cup sources.unwatched \cup before'.outside
    BY <1>1 DEF Noticed, Watched
  <2> QED
    BY <1>1, <1>4, <2>1, <2>2, NothingCovered DEF Depended, Covered, Outside
<1>7. ASSUME outcome = "done", f \notin Depended
      PROVE  \E H, F : Retraced(H, F)'
  <2>1. PICK H : Traced(H)
    BY <1>1, <1>7 DEF WarmInv
  <2>2. PICK F : F = Now
    OBVIOUS
  <2>3. F.outcome = "done" /\ F.sources = before'.sources
    BY <1>1, <1>7, <2>2 DEF Now, Moment
  <2>4. PICK d : d = disk'
    OBVIOUS
  <2>5. AgreesOn(d, disk, Depended)
    <3>1. \A p \in Paths : p # f => d[p] = disk[p]
      BY <1>2, <1>3, <2>4 DEF TypeInv
    <3> QED
      BY <1>7, <3>1 DEF AgreesOn
  <2>6. \A x \in H : x = F \/ (x.outcome = "running" /\ After(d, x) \in H)
    BY <2>1, <2>2, <2>5 DEF Traced
  <2>7. Start \in H
    BY <2>1 DEF Traced
  <2>8. Retraced(H, F)'
    BY <1>5, <2>3, <2>4, <2>6, <2>7 DEF Retraced
  <2> QED
    BY <2>8
<1> QED
  BY <1>1, <1>6, <1>7 DEF WarmInv

LEMMA StillWarm ==
  ASSUME WarmInv, UNCHANGED extraction
  PROVE  WarmInv'
<1>1. Now' = Now /\ Depended' = Depended /\ Noticed' = Noticed /\ disk' = disk /\ before' = before
      /\ outcome' = outcome
  BY DEF extraction, Now, Depended, Covered, Outside, Noticed, Watched
<1>2. \A H : Traced(H) => Traced(H)'
  BY <1>1 DEF Traced
<1>3. \A H, F : Retraced(H, F) => Retraced(H, F)'
  BY <1>1 DEF Retraced
<1> QED
  BY <1>1, <1>2, <1>3 DEF WarmInv

(* However the files include each other, an edit that the cache does not   *)
(* notice, of a file that is not left unwatched, changes nothing           *)
(* (tests/prop_cache_warm.rs 1).                                           *)
THEOREM WarmRunNoticesMostEditsCorrect ==
  ExtractSpec => []WarmRunNoticesMostEdits
<1>1. WarmInv /\ ExtractInv /\ [ExtractNext]_extraction => WarmInv'
  BY ParseKeepsWarm, EditKeepsWarm, StillWarm DEF ExtractNext
<1>2. WarmInv /\ ExtractInv => WarmRunNoticesMostEdits
  <2> SUFFICES ASSUME WarmInv, Unnoticed(Watched(before.sources) \cup before.sources.unwatched)
               PROVE  SameAsBefore
    BY DEF WarmRunNoticesMostEdits
  <2>1. before.outcome = "done" /\ outcome # "running" /\ before.edited \cap Noticed = {}
    BY DEF Unnoticed, Noticed
  <2>2. before.edited # {}
    BY <2>1 DEF WarmInv
  <2>3. PICK H, F : Retraced(H, F)
    BY <2>1, <2>2 DEF WarmInv
  <2>4. Now.outcome = outcome /\ Now.sources = sources
    BY DEF Now, Moment
  <2>5. Now = F
    BY <2>1, <2>3, <2>4 DEF Retraced
  <2> QED
    BY <2>3, <2>4, <2>5 DEF Retraced, SameAsBefore, Manifest
<1> QED
  BY WarmBegins, <1>1, <1>2, ExtractHolds, PTL DEF ExtractSpec

=============================================================================
