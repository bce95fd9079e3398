-------------------------- MODULE ParseCacheProofs --------------------------
(***************************************************************************)
(* No run of ParseCache is given an old module, for any number of files,   *)
(* runs, contexts and versions, and any granularity of the timestamps that *)
(* the racy window covers.  The argument: a key that was taken once never  *)
(* fits a version written later.  A hash key holds an earlier version; a   *)
(* stat key was taken of a file whose ctime was a full window old, and any *)
(* later write is stamped after that.  So a module found under the key of  *)
(* a file is at least as new as the file.                                  *)
(***************************************************************************)
EXTENDS ParseCache, TLAPS

File == [version : Nat, mtime : Int, ctime : Int]

Key == [by : {"none", "hash", "stat"}, mtime : Int, ctime : Int, version : Nat]

Entries == [file : Files, key : Key, module : Nat]

Process ==
  [at : {"idle", "read", "work", "sweep"}, context : Contexts \cup {NoContext}, now : Int,
   stored : SUBSET Entries, stored_len : {Cardinality(b) : b \in SUBSET Entries} \cup {0},
   sources : SUBSET Files, keys : [Files -> Key], slots : [Files -> Nat],
   parsed : SUBSET Files, began : [Files -> Nat], steady : BOOLEAN, hot : BOOLEAN]

WorldInv ==
  /\ clock \in Nat /\ written \in Nat
  /\ fs \in [Files -> File]
  /\ \A f \in Files : fs[f].version <= written

(* A key that no version written from now on will have.                    *)
KeyIsOld(key) ==
  /\ key.by = "hash" => key.version <= written
  /\ key.by = "stat" => key.ctime + Window <= clock

Fits(key, file) == key = HashFingerprint(file) \/ key = StatFingerprint(file)

(* A module that may be used for f as long as f has that key.              *)
Usable(f, key, module) ==
  /\ KeyIsOld(key)
  /\ Exists(fs[f]) /\ Fits(key, fs[f]) => fs[f].version <= module

(* A version that f had, at least.                                         *)
Had(f, version) ==
  /\ version <= written
  /\ Exists(fs[f]) => version <= fs[f].version

EntriesInv(bundle) == \A e \in bundle : Usable(e.file, e.key, e.module)

ProcessInv(p) ==
  /\ p.at # "idle" => p.context \in Contexts
  /\ p.now <= clock
  /\ EntriesInv(p.stored)
  /\ \A f \in Files :
        /\ KeyIsOld(p.keys[f])
        /\ Had(f, p.began[f])
        /\ p.slots[f] # 0 => Usable(f, p.keys[f], p.slots[f]) /\ p.began[f] <= p.slots[f]

BundlesInv ==
  /\ bundles \in [Contexts -> SUBSET Entries]
  /\ \A c \in Contexts : EntriesInv(bundles[c])

RunsInv ==
  /\ run \in [Runs -> Process]
  /\ \A r \in Runs : ProcessInv(run[r])

CacheInv == WorldInv /\ BundlesInv /\ RunsInv

-----------------------------------------------------------------------------
(* A write is stamped less than one step of the timestamps before now.     *)
LEMMA StampFacts ==
  ASSUME NEW t \in Nat
  PROVE  Stamp(t) \in Int /\ Stamp(t) <= t /\ t < Stamp(t) + Granularity
<1>1. t % Granularity \in 0 .. Granularity - 1
  BY GranularityAssumption
<1> QED
  BY <1>1, GranularityAssumption DEF Stamp

(* What an edit makes of a file.                                           *)
LEMMA EditedFile ==
  ASSUME WorldInv, NEW f \in Files, NEW file,
         file = Written(written + 1, clock) \/ file = Copied(written + 1, fs[f], clock)
  PROVE  /\ file \in File
         /\ file.version = written + 1
         /\ file.ctime = Stamp(clock)
<1>1. Stamp(clock) \in Int /\ written + 1 \in Nat /\ fs[f].mtime \in Int
  BY StampFacts DEF WorldInv, File
<1> QED
  BY <1>1 DEF Written, Copied, File

(* A key that is old does not fit a file that was just written.            *)
LEMMA OldKeyFitsNoEdit ==
  ASSUME WorldInv, NEW key \in Key, KeyIsOld(key), NEW file \in File,
         file.version = written + 1, file.ctime = Stamp(clock)
  PROVE  ~ Fits(key, file)
<1>1. CASE key = HashFingerprint(file)
  <2>1. key.by = "hash" /\ key.version = written + 1
    BY <1>1 DEF HashFingerprint
  <2> QED
    BY <2>1 DEF KeyIsOld, WorldInv
<1>2. CASE key = StatFingerprint(file)
  <2>1. key.by = "stat" /\ key.ctime = Stamp(clock)
    BY <1>2 DEF StatFingerprint
  <2>2. Stamp(clock) + Window <= clock
    BY <2>1 DEF KeyIsOld
  <2>3. clock \in Nat /\ Stamp(clock) \in Int /\ clock < Stamp(clock) + Granularity
    BY StampFacts DEF WorldInv
  <2> QED
    BY <2>2, <2>3, WindowAssumption, GranularityAssumption
<1> QED
  BY <1>1, <1>2 DEF Fits

(* The fingerprint taken of a file fits it, and is old from the start.     *)
LEMMA FingerprintIsOld ==
  ASSUME WorldInv, NEW f \in Files, NEW now \in Int, now <= clock
  PROVE  /\ FingerprintAt(fs[f], now) \in Key
         /\ FingerprintAt(fs[f], now) # NoKey
         /\ KeyIsOld(FingerprintAt(fs[f], now))
         /\ Fits(FingerprintAt(fs[f], now), fs[f])
<1>1. fs[f] \in File /\ fs[f].version <= written /\ clock \in Nat
  BY DEF WorldInv
<1>2. fs[f].version \in Nat /\ fs[f].mtime \in Int /\ fs[f].ctime \in Int
  BY <1>1 DEF File
<1>3. CASE Settled(fs[f], now)
  <2>1. FingerprintAt(fs[f], now) = StatFingerprint(fs[f])
    BY <1>3 DEF FingerprintAt
  <2>2. fs[f].ctime + Window <= now
    BY <1>2, <1>3, WindowAssumption DEF Settled, IsRacy
  <2>3. fs[f].ctime + Window <= clock
    BY <1>1, <1>2, <2>2, WindowAssumption
  <2> QED
    BY <1>2, <2>1, <2>3 DEF StatFingerprint, Key, NoKey, KeyIsOld, Fits
<1>4. CASE ~ Settled(fs[f], now)
  <2>1. FingerprintAt(fs[f], now) = HashFingerprint(fs[f])
    BY <1>4 DEF FingerprintAt
  <2> QED
    BY <1>1, <1>2, <2>1 DEF HashFingerprint, Key, NoKey, KeyIsOld, Fits
<1> QED
  BY <1>3, <1>4

-----------------------------------------------------------------------------
(* What is known of keys, modules and versions stays true under any change *)
(* of the world: time passes, files are written, replaced and removed.     *)
Kept ==
  /\ \A key \in Key : KeyIsOld(key) => KeyIsOld(key)'
  /\ \A f \in Files, key \in Key, module \in Nat :
        Usable(f, key, module) => Usable(f, key, module)'
  /\ \A f \in Files, version \in Nat : Had(f, version) => Had(f, version)'

LEMMA SameWorldKeeps == ASSUME WorldInv, UNCHANGED world PROVE WorldInv' /\ Kept
BY DEF world, WorldInv, Kept, KeyIsOld, Usable, Had

LEMMA PassKeeps == ASSUME WorldInv, Pass PROVE WorldInv' /\ Kept
<1>1. clock \in Nat /\ clock' = clock + 1 /\ UNCHANGED <<fs, written>>
  BY DEF WorldInv, Pass
<1>2. WorldInv'
  BY <1>1 DEF WorldInv
<1>3. \A key \in Key : KeyIsOld(key) => KeyIsOld(key)'
  BY <1>1, WindowAssumption DEF KeyIsOld, Key
<1>4. \A f \in Files, key \in Key, module \in Nat :
         Usable(f, key, module) => Usable(f, key, module)'
  BY <1>1, <1>3 DEF Usable
<1>5. \A f \in Files, version \in Nat : Had(f, version) => Had(f, version)'
  BY <1>1 DEF Had
<1> QED
  BY <1>2, <1>3, <1>4, <1>5 DEF Kept

(* One file is now another version, or gone.                               *)
LEMMA ChangeKeeps ==
  ASSUME WorldInv, NEW f \in Files, NEW file \in File, Change(f, file),
         \/ file.version = 0 /\ UNCHANGED written
         \/ /\ file.version = written + 1 /\ written' = written + 1
            /\ file.ctime = Stamp(clock)
  PROVE  WorldInv' /\ Kept
<1>1. /\ fs' = [fs EXCEPT ![f] = file] /\ clock' = clock
      /\ clock \in Nat /\ written \in Nat /\ written' \in Nat /\ written <= written'
      /\ file.version <= written'
  BY DEF Change, WorldInv
<1>2. fs'[f] = file /\ \A g \in Files : g # f => fs'[g] = fs[g]
  BY <1>1 DEF WorldInv
<1>3. WorldInv'
  <2>1. fs' \in [Files -> File]
    BY <1>1 DEF WorldInv
  <2>2. ASSUME NEW g \in Files PROVE fs'[g].version <= written'
    <3>1. CASE g = f
      BY <1>1, <1>2, <3>1
    <3>2. CASE g # f
      <4>1. fs[g] \in File /\ fs[g].version <= written
        BY DEF WorldInv
      <4>2. fs[g].version \in Nat
        BY <4>1 DEF File
      <4> QED
        BY <1>1, <1>2, <3>2, <4>1, <4>2
    <3> QED
      BY <3>1, <3>2
  <2> QED
    BY <1>1, <2>1, <2>2 DEF WorldInv
<1>4. \A key \in Key : KeyIsOld(key) => KeyIsOld(key)'
  <2>1. ASSUME NEW key \in Key, KeyIsOld(key) PROVE KeyIsOld(key)'
    <3>1. key.version \in Nat
      BY DEF Key
    <3> QED
      BY <1>1, <2>1, <3>1 DEF KeyIsOld
  <2> QED
    BY <2>1
<1>5. ASSUME NEW g \in Files, NEW key \in Key, NEW module \in Nat, Usable(g, key, module)
      PROVE  Usable(g, key, module)'
  <2>1. KeyIsOld(key) /\ KeyIsOld(key)'
    BY <1>4, <1>5 DEF Usable
  <2>2. CASE g # f
    BY <1>2, <1>5, <2>1, <2>2 DEF Usable
  <2>3. CASE g = f /\ file.version = 0
    BY <1>2, <2>1, <2>3 DEF Usable, Exists
  <2>4. CASE g = f /\ file.version = written + 1 /\ file.ctime = Stamp(clock)
    <3>1. ~ Fits(key, file)
      BY <2>1, <2>4, OldKeyFitsNoEdit
    <3>2. fs'[g] = file
      BY <1>2, <2>4
    <3>3. ~ Fits(key, fs'[g])
      BY <3>1, <3>2
    <3> QED
      BY <2>1, <3>3 DEF Usable
  <2> QED
    BY <2>2, <2>3, <2>4
<1>6. ASSUME NEW g \in Files, NEW version \in Nat, Had(g, version)
      PROVE  Had(g, version)'
  <2>1. version <= written /\ version <= written'
    BY <1>1, <1>6 DEF Had
  <2>2. CASE g # f
    BY <1>2, <1>6, <2>1, <2>2 DEF Had
  <2>3. CASE g = f
    <3>1. Exists(file) => version <= file.version
      BY <1>1, <2>1 DEF Exists
    <3> QED
      BY <1>2, <2>1, <2>3, <3>1 DEF Had
  <2> QED
    BY <2>2, <2>3
<1> QED
  BY <1>3, <1>4, <1>5, <1>6 DEF Kept

LEMMA EditKeeps == ASSUME WorldInv, NEW f \in Files, Edit(f) PROVE WorldInv' /\ Kept
<1>1. written' = written + 1 /\ written \in Nat /\ clock \in Nat
  BY DEF Edit, WorldInv
<1>2. PICK file : /\ file = Written(written + 1, clock) \/ file = Copied(written + 1, fs[f], clock)
                  /\ Change(f, file)
  BY <1>1 DEF Edit
<1>3. file \in File /\ file.version = written + 1 /\ file.ctime = Stamp(clock)
  BY <1>2, EditedFile
<1> QED
  BY <1>1, <1>2, <1>3, ChangeKeeps

LEMMA RemoveKeeps == ASSUME WorldInv, NEW f \in Files, Remove(f) PROVE WorldInv' /\ Kept
<1>1. Missing \in File /\ Missing.version = 0
  BY DEF Missing, File
<1> QED
  BY <1>1, ChangeKeeps DEF Remove

-----------------------------------------------------------------------------
(* What a run and a bundle hold stays in order while the world changes.    *)
LEMMA ProcessKept ==
  ASSUME WorldInv, WorldInv', Kept, clock <= clock', NEW p \in Process, ProcessInv(p)
  PROVE  ProcessInv(p)'
<1>1. /\ p.now \in Int /\ p.stored \in SUBSET Entries /\ p.keys \in [Files -> Key]
      /\ p.slots \in [Files -> Nat] /\ p.began \in [Files -> Nat]
  BY DEF Process
<1>2. p.now <= clock'
  BY <1>1 DEF ProcessInv, WorldInv
<1>3. \A e \in p.stored : Usable(e.file, e.key, e.module)'
  <2>1. ASSUME NEW e \in p.stored PROVE Usable(e.file, e.key, e.module)'
    <3>1. e.file \in Files /\ e.key \in Key /\ e.module \in Nat
      BY <1>1 DEF Entries
    <3>2. Usable(e.file, e.key, e.module)
      BY DEF ProcessInv, EntriesInv
    <3> QED
      BY <3>1, <3>2 DEF Kept
  <2> QED
    BY <2>1
<1>4. ASSUME NEW f \in Files
      PROVE  /\ KeyIsOld(p.keys[f])'
             /\ Had(f, p.began[f])'
             /\ p.slots[f] # 0 => Usable(f, p.keys[f], p.slots[f])'
  <2>1. p.keys[f] \in Key /\ p.slots[f] \in Nat /\ p.began[f] \in Nat
    BY <1>1
  <2> QED
    BY <2>1 DEF ProcessInv, Kept
<1> QED
  BY <1>2, <1>3, <1>4 DEF ProcessInv, EntriesInv

LEMMA EntriesKept ==
  ASSUME Kept, NEW b \in SUBSET Entries, EntriesInv(b)
  PROVE  EntriesInv(b)'
<1>1. ASSUME NEW e \in b PROVE Usable(e.file, e.key, e.module)'
  <2>1. e.file \in Files /\ e.key \in Key /\ e.module \in Nat
    BY DEF Entries
  <2> QED
    BY <2>1 DEF EntriesInv, Kept
<1> QED
  BY <1>1 DEF EntriesInv

-----------------------------------------------------------------------------
LEMMA GoneFine == ASSUME WorldInv PROVE Gone \in Process /\ ProcessInv(Gone)
<1>1. Gone \in Process
  BY DEF Gone, Process, NoKey, Key
<1>2. ProcessInv(Gone)
  BY DEF Gone, ProcessInv, EntriesInv, NoKey, KeyIsOld, Had, Exists, WorldInv, File
<1> QED
  BY <1>1, <1>2

(* What run' holds is in order if each run's is.                           *)
LEMMA RunsInvNext ==
  ASSUME run' \in [Runs -> Process],
         \A s \in Runs : \E p \in Process : p = run'[s] /\ ProcessInv(p)'
  PROVE  RunsInv'
<1>1. ASSUME NEW s \in Runs PROVE ProcessInv(run[s])'
  <2>1. PICK p \in Process : p = run'[s] /\ ProcessInv(p)'
    OBVIOUS
  <2> QED
    BY <2>1 DEF ProcessInv, EntriesInv, Usable, Had, KeyIsOld, Exists, Fits,
                HashFingerprint, StatFingerprint
<1> QED
  BY <1>1 DEF RunsInv

(* A step that changes what one run holds, and nothing of the world.       *)
LEMMA OneRunMoves ==
  ASSUME CacheInv, UNCHANGED world, NEW r \in Runs, NEW p \in Process, ProcessInv(p),
         run' = [run EXCEPT ![r] = p]
  PROVE  WorldInv' /\ RunsInv'
<1>1. WorldInv' /\ Kept /\ clock <= clock'
  BY SameWorldKeeps DEF CacheInv, world, WorldInv
<1>2. run' \in [Runs -> Process]
  BY DEF CacheInv, RunsInv
<1>3. ASSUME NEW s \in Runs PROVE \E q \in Process : q = run'[s] /\ ProcessInv(q)'
  <2>1. PICK q \in Process : q = IF s = r THEN p ELSE run[s]
    BY DEF CacheInv, RunsInv
  <2>2. q = run'[s]
    BY <2>1 DEF CacheInv, RunsInv
  <2>3. ProcessInv(q)
    BY <2>1 DEF CacheInv, RunsInv
  <2>4. ProcessInv(q)'
    BY <1>1, <2>3, ProcessKept DEF CacheInv
  <2> QED
    BY <2>2, <2>4
<1> QED
  BY <1>1, <1>2, <1>3, RunsInvNext

(* The same, of any number of runs.                                        *)
LEMMA UnsettledFine ==
  ASSUME RunsInv, NEW moved
  PROVE  \A s \in Runs : Unsettled(moved)[s] \in Process /\ ProcessInv(Unsettled(moved)[s])
<1> SUFFICES ASSUME NEW s \in Runs
             PROVE  Unsettled(moved)[s] \in Process /\ ProcessInv(Unsettled(moved)[s])
  OBVIOUS
<1>1. run[s] \in Process /\ ProcessInv(run[s])
  BY DEF RunsInv
<1>2. \/ Unsettled(moved)[s] = run[s]
      \/ Unsettled(moved)[s] = [run[s] EXCEPT !.steady = FALSE, !.hot = FALSE]
  BY DEF Unsettled
<1>3. [run[s] EXCEPT !.steady = FALSE, !.hot = FALSE] \in Process
  BY <1>1 DEF Process
<1>4. ProcessInv([run[s] EXCEPT !.steady = FALSE, !.hot = FALSE])
  BY <1>1 DEF ProcessInv, Process
<1> QED
  BY <1>1, <1>2, <1>3, <1>4

(* Bundles that are in order now still are after the world has changed.    *)
LEMMA BundlesInvNext ==
  ASSUME Kept, \A c \in Contexts : bundles'[c] \in SUBSET Entries /\ EntriesInv(bundles'[c]),
         bundles' = [c \in Contexts |-> bundles'[c]]
  PROVE  BundlesInv'
<1>1. ASSUME NEW c \in Contexts PROVE EntriesInv(bundles[c])'
  <2>1. PICK b \in SUBSET Entries : b = bundles'[c]
    OBVIOUS
  <2>2. EntriesInv(b)'
    BY <2>1, EntriesKept
  <2> QED
    BY <2>1, <2>2 DEF EntriesInv, Usable, KeyIsOld, Exists, Fits,
                      HashFingerprint, StatFingerprint
<1>2. bundles' \in [Contexts -> SUBSET Entries]
  OBVIOUS
<1> QED
  BY <1>1, <1>2 DEF BundlesInv

LEMMA BundlesStay ==
  ASSUME CacheInv, UNCHANGED <<world, bundles>>
  PROVE  BundlesInv'
<1>1. Kept
  BY SameWorldKeeps DEF CacheInv
<1>2. \A c \in Contexts : bundles'[c] \in SUBSET Entries /\ EntriesInv(bundles'[c])
  BY DEF CacheInv, BundlesInv
<1>3. bundles' = [c \in Contexts |-> bundles'[c]]
  BY DEF CacheInv, BundlesInv
<1> QED
  BY <1>1, <1>2, <1>3, BundlesInvNext

-----------------------------------------------------------------------------
(* The steps of a run.                                                     *)
LEMMA BeginKeeps ==
  ASSUME CacheInv, NEW r \in Runs, NEW c \in Contexts, NEW t \in {Stamp(clock), clock},
         Begin(r, c, t)
  PROVE  CacheInv'
<1>1. t \in Int /\ t <= clock
  BY StampFacts DEF CacheInv, WorldInv
<1>2. PICK p \in Process :
         /\ p.context = c
         /\ p.now = t /\ p.stored = {} /\ p.keys = Gone.keys /\ p.slots = Gone.slots
         /\ p.began = [f \in Files |-> fs[f].version]
         /\ run' = [run EXCEPT ![r] = p]
  <2> DEFINE discovered == {f \in Files : Exists(fs[f])}
             calm == \A f \in discovered : Settled(fs[f], t)
             warmed == c \in warm
             begun == [f \in Files |-> fs[f].version]
             p == [Gone EXCEPT !.at = "read", !.context = c, !.now = t, !.sources = discovered,
                       !.began = begun, !.steady = calm, !.hot = warmed]
  <2>1. Gone \in Process
    BY GoneFine DEF CacheInv
  <2>2. begun \in [Files -> Nat] /\ calm \in BOOLEAN /\ warmed \in BOOLEAN
        /\ discovered \subseteq Files
    BY DEF CacheInv, WorldInv, File
  <2>3. run' = [run EXCEPT ![r] = p]
    BY DEF Begin
  <2> HIDE DEF discovered, calm, warmed, begun
  <2>4. p \in Process
    BY <1>1, <2>1, <2>2 DEF Process
  <2>5. /\ p.context = c
        /\ p.now = t /\ p.stored = {} /\ p.keys = Gone.keys /\ p.slots = Gone.slots
        /\ p.began = begun
    BY DEF Gone
  <2> HIDE DEF p
  <2> QED
    BY <2>3, <2>4, <2>5 DEF begun
<1>3. ProcessInv(p)
  <2>1. \A f \in Files : p.keys[f] = NoKey /\ p.slots[f] = 0 /\ p.began[f] = fs[f].version
    BY <1>2 DEF Gone
  <2>2. \A f \in Files : fs[f].version \in Nat /\ fs[f].version <= written
    BY DEF CacheInv, WorldInv, File
  <2> QED
    BY <1>1, <1>2, <2>1, <2>2 DEF ProcessInv, EntriesInv, NoKey, KeyIsOld, Had
<1>4. UNCHANGED world /\ bundles' = bundles
  BY DEF Begin
<1>5. BundlesInv'
  BY <1>4, BundlesStay
<1> QED
  BY <1>2, <1>3, <1>4, <1>5, OneRunMoves DEF CacheInv

LEMMA ReadBundleKeeps == ASSUME CacheInv, NEW r \in Runs, ReadBundle(r) PROVE CacheInv'
<1>1. run[r] \in Process /\ ProcessInv(run[r]) /\ run[r].at = "read"
  BY DEF ReadBundle, CacheInv, RunsInv
<1>2. UNCHANGED <<world, bundles>>
  BY DEF ReadBundle
<1>3. PICK p \in Process :
         /\ \/ p.stored = {} \/ \E c \in Contexts : p.stored = bundles[c]
         /\ p.context \in Contexts /\ p.now = run[r].now /\ p.keys = run[r].keys
         /\ p.slots = run[r].slots /\ p.began = run[r].began
         /\ run' = [run EXCEPT ![r] = p]
  <2> DEFINE bundle == bundles[run[r].context]
             p == [run[r] EXCEPT !.at = "work", !.stored = bundle,
                                 !.stored_len = Cardinality(bundle)]
  <2>1. run[r].context \in Contexts
    BY <1>1 DEF ProcessInv
  <2>2. bundle \in SUBSET Entries
    BY <2>1 DEF CacheInv, BundlesInv
  <2>3. p \in Process
    BY <1>1, <2>2 DEF Process
  <2>4. /\ p.stored = bundle /\ p.context = run[r].context /\ p.now = run[r].now /\ p.keys = run[r].keys
        /\ p.slots = run[r].slots /\ p.began = run[r].began
    BY <1>1 DEF Process
  <2>5. run' = [run EXCEPT ![r] = p]
    BY DEF ReadBundle
  <2> HIDE DEF p
  <2> QED
    BY <2>1, <2>3, <2>4, <2>5
<1>4. ProcessInv(p)
  <2>1. EntriesInv(p.stored)
    BY <1>3 DEF CacheInv, BundlesInv, EntriesInv
  <2> QED
    BY <1>1, <1>3, <2>1 DEF ProcessInv
<1> QED
  BY <1>2, <1>3, <1>4, OneRunMoves, BundlesStay DEF CacheInv

(* A module found under the key that f has now is as new as f.             *)
LEMMA HitIsUsable ==
  ASSUME WorldInv, NEW p \in Process, ProcessInv(p), NEW f \in Files, Exists(fs[f]),
         NEW key \in Key, KeyIsOld(key), Fits(key, fs[f])
  PROVE  /\ Hit(p, f, key) \in Nat
         /\ Hit(p, f, key) # 0 => /\ Usable(f, key, Hit(p, f, key))
                                  /\ p.began[f] <= Hit(p, f, key)
<1> DEFINE hits == {e \in p.stored : e.file = f /\ e.key = key}
<1>1. CASE hits = {}
  BY <1>1 DEF Hit
<1>2. CASE hits # {}
  <2>1. PICK e \in hits : Hit(p, f, key) = e.module
    BY <1>2 DEF Hit
  <2>2. e \in Entries
    BY <2>1 DEF Process
  <2>3. e.module \in Nat
    BY <2>2 DEF Entries
  <2>4. Usable(f, key, e.module)
    BY <2>1 DEF ProcessInv, EntriesInv
  <2>5. p.began[f] <= fs[f].version /\ fs[f].version <= e.module
    BY <2>4 DEF ProcessInv, Had, Usable
  <2>6. p.began[f] \in Nat /\ fs[f].version \in Nat
    BY DEF Process, WorldInv, File
  <2> QED
    BY <2>1, <2>3, <2>4, <2>5, <2>6
<1> QED
  BY <1>1, <1>2

LEMMA TakeKeyKeeps ==
  ASSUME CacheInv, NEW r \in Runs, NEW f \in Files, TakeKey(r, f)
  PROVE  CacheInv'
<1>1. /\ run[r] \in Process /\ ProcessInv(run[r]) /\ WorldInv
      /\ run[r].keys[f] = NoKey /\ Exists(fs[f])
  BY DEF TakeKey, Unkeyed, CacheInv, RunsInv
<1>2. UNCHANGED <<world, bundles>>
  BY DEF TakeKey
<1> DEFINE key == FingerprintAt(fs[f], run[r].now)
           hit == Hit(run[r], f, key)
           left == Remaining(run[r], f)
<1>3. key \in Key /\ KeyIsOld(key) /\ Fits(key, fs[f])
  <2>1. run[r].now \in Int /\ run[r].now <= clock
    BY <1>1 DEF Process, ProcessInv
  <2> QED
    BY <1>1, <2>1, FingerprintIsOld
<1>4. hit \in Nat /\ (hit # 0 => Usable(f, key, hit) /\ run[r].began[f] <= hit)
  BY <1>1, <1>3, HitIsUsable
<1>5. left \subseteq run[r].stored
  BY DEF Remaining
<1>6. PICK p \in Process :
         /\ p.at = run[r].at /\ p.context = run[r].context
         /\ p.stored = left /\ p.now = run[r].now /\ p.began = run[r].began
         /\ p.keys = [run[r].keys EXCEPT ![f] = key]
         /\ p.slots = [run[r].slots EXCEPT ![f] = hit]
         /\ run' = [run EXCEPT ![r] = p]
  <2> DEFINE p == [run[r] EXCEPT !.keys[f] = key, !.slots[f] = hit, !.stored = left]
  <2>1. run' = [run EXCEPT ![r] = p]
    BY DEF TakeKey
  <2> HIDE DEF key, hit, left
  <2>2. p \in Process
    BY <1>1, <1>3, <1>4, <1>5 DEF Process
  <2>3. /\ p.at = run[r].at /\ p.context = run[r].context
        /\ p.stored = left /\ p.now = run[r].now /\ p.began = run[r].began
        /\ p.keys = [run[r].keys EXCEPT ![f] = key]
        /\ p.slots = [run[r].slots EXCEPT ![f] = hit]
    BY <1>1 DEF Process
  <2> HIDE DEF p
  <2> QED
    BY <2>1, <2>2, <2>3
<1> HIDE DEF key, hit, left
<1>7. ProcessInv(p)
  <2>1. /\ p.at # "idle" => p.context \in Contexts
        /\ p.now <= clock /\ EntriesInv(p.stored)
    BY <1>1, <1>5, <1>6 DEF ProcessInv, EntriesInv
  <2>2. ASSUME NEW g \in Files
        PROVE  /\ KeyIsOld(p.keys[g])
               /\ Had(g, p.began[g])
               /\ p.slots[g] # 0 => Usable(g, p.keys[g], p.slots[g]) /\ p.began[g] <= p.slots[g]
    <3>1. CASE g = f
      <4>1. p.keys[g] = key /\ p.slots[g] = hit
        BY <1>1, <1>6, <3>1 DEF Process
      <4> QED
        BY <1>1, <1>3, <1>4, <1>6, <3>1, <4>1 DEF ProcessInv
    <3>2. CASE g # f
      <4>1. p.keys[g] = run[r].keys[g] /\ p.slots[g] = run[r].slots[g]
        BY <1>1, <1>6, <3>2 DEF Process
      <4> QED
        BY <1>1, <1>6, <4>1 DEF ProcessInv
    <3> QED
      BY <3>1, <3>2
  <2> QED
    BY <2>1, <2>2 DEF ProcessInv
<1> QED
  BY <1>2, <1>6, <1>7, OneRunMoves, BundlesStay DEF CacheInv

LEMMA ParseKeeps ==
  ASSUME CacheInv, NEW r \in Runs, NEW f \in Files, Parse(r, f)
  PROVE  CacheInv'
<1>1. /\ run[r] \in Process /\ ProcessInv(run[r]) /\ WorldInv
      /\ Exists(fs[f]) /\ fs[f].version \in Nat
  BY DEF Parse, CacheInv, RunsInv, WorldInv, File
<1>2. UNCHANGED <<world, bundles>>
  BY DEF Parse
<1>3. PICK p \in Process :
         /\ p.at = run[r].at /\ p.context = run[r].context
         /\ p.stored = run[r].stored /\ p.now = run[r].now
         /\ p.keys = run[r].keys /\ p.began = run[r].began
         /\ p.slots = [run[r].slots EXCEPT ![f] = fs[f].version]
         /\ run' = [run EXCEPT ![r] = p]
  <2> DEFINE p == [run[r] EXCEPT !.slots[f] = fs[f].version, !.parsed = @ \cup {f}]
  <2>1. run' = [run EXCEPT ![r] = p]
    BY DEF Parse
  <2>2. p \in Process
    BY <1>1 DEF Process
  <2>3. /\ p.at = run[r].at /\ p.context = run[r].context
        /\ p.stored = run[r].stored /\ p.now = run[r].now
        /\ p.keys = run[r].keys /\ p.began = run[r].began
        /\ p.slots = [run[r].slots EXCEPT ![f] = fs[f].version]
    BY <1>1 DEF Process
  <2> HIDE DEF p
  <2> QED
    BY <2>1, <2>2, <2>3
<1>4. ProcessInv(p)
  <2>1. ASSUME NEW g \in Files
        PROVE  /\ KeyIsOld(p.keys[g])
               /\ Had(g, p.began[g])
               /\ p.slots[g] # 0 => Usable(g, p.keys[g], p.slots[g]) /\ p.began[g] <= p.slots[g]
    <3>1. KeyIsOld(p.keys[g]) /\ Had(g, p.began[g])
      BY <1>1, <1>3 DEF ProcessInv
    <3>2. CASE g = f
      <4>1. p.slots[g] = fs[g].version
        BY <1>1, <1>3, <3>2 DEF Process
      <4> QED
        BY <1>1, <3>1, <3>2, <4>1 DEF Usable, Had
    <3>3. CASE g # f
      <4>1. p.slots[g] = run[r].slots[g]
        BY <1>1, <1>3, <3>3 DEF Process
      <4> QED
        BY <1>1, <1>3, <4>1 DEF ProcessInv
    <3> QED
      BY <3>1, <3>2, <3>3
  <2> QED
    BY <1>1, <1>3, <2>1 DEF ProcessInv
<1> QED
  BY <1>2, <1>3, <1>4, OneRunMoves, BundlesStay DEF CacheInv

(* A run that is over, however it ended.                                   *)
LEMMA EndKeeps ==
  ASSUME CacheInv, NEW r \in Runs, run' = [run EXCEPT ![r] = Gone],
         UNCHANGED <<world, bundles>>
  PROVE  CacheInv'
<1>1. Gone \in Process /\ ProcessInv(Gone)
  BY GoneFine DEF CacheInv
<1>2. PICK p \in Process : p = Gone
  BY <1>1
<1>3. ProcessInv(p) /\ run' = [run EXCEPT ![r] = p]
  BY <1>1, <1>2
<1> QED
  BY <1>3, OneRunMoves, BundlesStay DEF CacheInv

(* A step that may change the world and what every run holds.              *)
LEMMA RunsMove ==
  ASSUME CacheInv, WorldInv', Kept, clock <= clock',
         \A s \in Runs : run'[s] \in Process /\ ProcessInv(run'[s]),
         run' = [s \in Runs |-> run'[s]]
  PROVE  RunsInv'
<1>1. run' \in [Runs -> Process]
  OBVIOUS
<1>2. ASSUME NEW s \in Runs PROVE \E q \in Process : q = run'[s] /\ ProcessInv(q)'
  <2>1. PICK q \in Process : q = run'[s]
    OBVIOUS
  <2>2. ProcessInv(q)
    BY <2>1
  <2>3. ProcessInv(q)'
    BY <2>2, ProcessKept DEF CacheInv
  <2> QED
    BY <2>1, <2>3
<1> QED
  BY <1>1, <1>2, RunsInvNext

(* A run writes back what it holds, and each module is usable as long as   *)
(* its file has the key that was taken of it.                              *)
LEMMA RetainedUsable ==
  ASSUME NEW p \in Process, ProcessInv(p), Parsed(p)
  PROVE  Retained(p) \in SUBSET Entries /\ EntriesInv(Retained(p))
<1>1. ASSUME NEW f \in p.sources
      PROVE  /\ f \in Files /\ p.keys[f] \in Key /\ p.slots[f] \in Nat
             /\ Usable(f, p.keys[f], p.slots[f])
  <2>1. f \in Files /\ p.keys[f] \in Key /\ p.slots[f] \in Nat
    BY DEF Process
  <2>2. p.slots[f] # 0
    BY DEF Parsed, Outstanding
  <2> QED
    BY <2>1, <2>2 DEF ProcessInv
<1> QED
  BY <1>1 DEF Retained, Entry, Entries, EntriesInv

LEMMA WriteBundleKeeps == ASSUME CacheInv, NEW r \in Runs, WriteBundle(r) PROVE CacheInv'
<1> DEFINE c == run[r].context
           moved == [s \in Runs |-> run[s].context = c]
           p == [Gone EXCEPT !.at = "sweep", !.context = c, !.steady = run[r].steady]
<1>1. /\ run[r] \in Process /\ ProcessInv(run[r]) /\ Parsed(run[r])
      /\ run' = [Unsettled(moved) EXCEPT ![r] = p]
      /\ bundles' = [bundles EXCEPT ![c] = NewBundle(run[r])]
      /\ UNCHANGED world
  BY DEF WriteBundle, CacheInv, RunsInv
<1>2. c \in Contexts
  BY <1>1 DEF ProcessInv, Parsed
<1>3. p \in Process /\ ProcessInv(p)
  <2>1. Gone \in Process /\ ProcessInv(Gone)
    BY GoneFine DEF CacheInv
  <2>2. run[r].steady \in BOOLEAN
    BY <1>1 DEF Process
  <2>3. p \in Process
    BY <1>2, <2>1, <2>2 DEF Process
  <2>4. /\ p.now = Gone.now /\ p.stored = Gone.stored /\ p.keys = Gone.keys
        /\ p.slots = Gone.slots /\ p.began = Gone.began /\ p.context = c
    BY DEF Gone
  <2> HIDE DEF p
  <2> QED
    BY <1>2, <2>1, <2>3, <2>4 DEF ProcessInv
<1>4. WorldInv' /\ Kept /\ clock <= clock'
  BY <1>1, SameWorldKeeps DEF CacheInv, world, WorldInv
<1> HIDE DEF p, moved
<1>5. RunsInv'
  <2>1. \A s \in Runs : Unsettled(moved)[s] \in Process /\ ProcessInv(Unsettled(moved)[s])
    BY UnsettledFine DEF CacheInv
  <2>2. DOMAIN Unsettled(moved) = Runs
    BY DEF Unsettled
  <2>3. \A s \in Runs : run'[s] = IF s = r THEN p ELSE Unsettled(moved)[s]
    BY <1>1, <2>2
  <2>4. run' = [s \in Runs |-> run'[s]]
    BY <1>1, <2>2
  <2>5. \A s \in Runs : run'[s] \in Process /\ ProcessInv(run'[s])
    BY <1>3, <2>1, <2>3
  <2> QED
    BY <1>4, <2>4, <2>5, RunsMove
<1>6. BundlesInv'
  <2>1. NewBundle(run[r]) \in SUBSET Entries /\ EntriesInv(NewBundle(run[r]))
    BY <1>1, RetainedUsable DEF NewBundle
  <2>2. \A d \in Contexts : bundles'[d] \in SUBSET Entries /\ EntriesInv(bundles'[d])
    BY <1>1, <2>1 DEF CacheInv, BundlesInv
  <2>3. bundles' = [d \in Contexts |-> bundles'[d]]
    BY <1>1 DEF CacheInv, BundlesInv
  <2> QED
    BY <1>4, <2>2, <2>3, BundlesInvNext
<1> QED
  BY <1>4, <1>5, <1>6 DEF CacheInv

LEMMA SweepKeeps == ASSUME CacheInv, NEW r \in Runs, Sweep(r) PROVE CacheInv'
<1> DEFINE c == run[r].context
           moved == [s \in Runs |-> run[s].context # c]
<1>1. /\ run' = [Unsettled(moved) EXCEPT ![r] = Gone]
      /\ bundles' = [d \in Contexts |-> IF d = c THEN bundles[c] ELSE {}]
      /\ UNCHANGED world
  BY DEF Sweep
<1>2. WorldInv' /\ Kept /\ clock <= clock'
  BY <1>1, SameWorldKeeps DEF CacheInv, world, WorldInv
<1> HIDE DEF moved
<1>3. RunsInv'
  <2>1. \A s \in Runs : Unsettled(moved)[s] \in Process /\ ProcessInv(Unsettled(moved)[s])
    BY UnsettledFine DEF CacheInv
  <2>2. DOMAIN Unsettled(moved) = Runs
    BY DEF Unsettled
  <2>3. \A s \in Runs : run'[s] = IF s = r THEN Gone ELSE Unsettled(moved)[s]
    BY <1>1, <2>2
  <2>4. run' = [s \in Runs |-> run'[s]]
    BY <1>1, <2>2
  <2>5. Gone \in Process /\ ProcessInv(Gone)
    BY GoneFine DEF CacheInv
  <2>6. \A s \in Runs : run'[s] \in Process /\ ProcessInv(run'[s])
    BY <2>1, <2>3, <2>5
  <2> QED
    BY <1>2, <2>4, <2>6, RunsMove
<1>4. \A d \in Contexts : bundles'[d] \in SUBSET Entries /\ EntriesInv(bundles'[d])
  <2>1. {} \in SUBSET Entries /\ EntriesInv({})
    BY DEF EntriesInv
  <2>2. \A d \in Contexts : bundles'[d] = bundles[d] \/ bundles'[d] = {}
    BY <1>1
  <2> QED
    BY <2>1, <2>2 DEF CacheInv, BundlesInv
<1>5. bundles' = [d \in Contexts |-> bundles'[d]]
  BY <1>1
<1> QED
  BY <1>2, <1>3, <1>4, <1>5, BundlesInvNext DEF CacheInv

LEMMA PowerCutKeeps == ASSUME CacheInv, NEW c \in Contexts, PowerCut(c) PROVE CacheInv'
<1>1. /\ run' = [r \in Runs |-> Gone]
      /\ bundles' = [bundles EXCEPT ![c] = {}]
      /\ UNCHANGED world
  BY DEF PowerCut
<1>2. WorldInv' /\ Kept /\ clock <= clock'
  BY <1>1, SameWorldKeeps DEF CacheInv, world, WorldInv
<1>3. RunsInv'
  <2>1. Gone \in Process /\ ProcessInv(Gone)
    BY GoneFine DEF CacheInv
  <2>2. \A s \in Runs : run'[s] \in Process /\ ProcessInv(run'[s])
    BY <1>1, <2>1
  <2>3. run' = [s \in Runs |-> run'[s]]
    BY <1>1
  <2> QED
    BY <1>2, <2>2, <2>3, RunsMove
<1>4. \A d \in Contexts : bundles'[d] \in SUBSET Entries /\ EntriesInv(bundles'[d])
  <2>1. {} \in SUBSET Entries /\ EntriesInv({})
    BY DEF EntriesInv
  <2>2. \A d \in Contexts : bundles'[d] = bundles[d] \/ bundles'[d] = {}
    BY <1>1 DEF CacheInv, BundlesInv
  <2> QED
    BY <2>1, <2>2 DEF CacheInv, BundlesInv
<1>5. bundles' = [d \in Contexts |-> bundles'[d]]
  BY <1>1 DEF CacheInv, BundlesInv
<1> QED
  BY <1>2, <1>3, <1>4, <1>5, BundlesInvNext DEF CacheInv

-----------------------------------------------------------------------------
(* The world changes; what runs hold is at most marked as not steady.      *)
LEMMA WorldMoves ==
  ASSUME CacheInv, WorldInv', Kept, clock <= clock', bundles' = bundles,
         run' = run \/ run' = Unsettled([r \in Runs |-> TRUE])
  PROVE  CacheInv'
<1>1. RunsInv'
  <2>1. \A s \in Runs : run'[s] \in Process /\ ProcessInv(run'[s])
    <3>1. CASE run' = run
      BY <3>1 DEF CacheInv, RunsInv
    <3>2. CASE run' = Unsettled([r \in Runs |-> TRUE])
      BY <3>2, UnsettledFine DEF CacheInv
    <3> QED
      BY <3>1, <3>2
  <2>2. run' = [s \in Runs |-> run'[s]]
    BY DEF CacheInv, RunsInv, Unsettled
  <2> QED
    BY <2>1, <2>2, RunsMove
<1>2. \A c \in Contexts : bundles'[c] \in SUBSET Entries /\ EntriesInv(bundles'[c])
  BY DEF CacheInv, BundlesInv
<1>3. bundles' = [c \in Contexts |-> bundles'[c]]
  BY DEF CacheInv, BundlesInv
<1> QED
  BY <1>1, <1>2, <1>3, BundlesInvNext DEF CacheInv

LEMMA EnvironmentKeeps ==
  ASSUME CacheInv, Pass \/ \E f \in Files : Edit(f) \/ Remove(f)
  PROVE  CacheInv'
<1>1. WorldInv
  BY DEF CacheInv
<1>2. CASE Pass
  <2>1. WorldInv' /\ Kept
    BY <1>1, <1>2, PassKeeps
  <2>2. clock <= clock' /\ bundles' = bundles /\ run' = run
    BY <1>1, <1>2 DEF Pass, WorldInv
  <2> QED
    BY <2>1, <2>2, WorldMoves
<1>3. ASSUME NEW f \in Files, Edit(f) PROVE CacheInv'
  <2>1. WorldInv' /\ Kept
    BY <1>1, <1>3, EditKeeps
  <2>2. clock <= clock' /\ bundles' = bundles /\ run' = Unsettled([r \in Runs |-> TRUE])
    BY <1>1, <1>3 DEF Edit, Change, WorldInv
  <2> QED
    BY <2>1, <2>2, WorldMoves
<1>4. ASSUME NEW f \in Files, Remove(f) PROVE CacheInv'
  <2>1. WorldInv' /\ Kept
    BY <1>1, <1>4, RemoveKeeps
  <2>2. clock <= clock' /\ bundles' = bundles /\ run' = Unsettled([r \in Runs |-> TRUE])
    BY <1>1, <1>4 DEF Remove, Change, WorldInv
  <2> QED
    BY <2>1, <2>2, WorldMoves
<1> QED
  BY <1>2, <1>3, <1>4

LEMMA StartsInOrder == Init => CacheInv
<1> SUFFICES ASSUME Init PROVE CacheInv
  OBVIOUS
<1>1. WorldInv
  <2>1. Stamp(0) \in Int /\ clock = 0
    BY StampFacts DEF Init
  <2>2. Written(1, 0) \in File
    BY <2>1 DEF Written, File
  <2>3. Written(1, 0).version = 1
    BY DEF Written
  <2> QED
    BY <2>1, <2>2, <2>3 DEF Init, WorldInv
<1>2. RunsInv
  BY <1>1, GoneFine DEF Init, RunsInv
<1>3. BundlesInv
  BY DEF Init, BundlesInv, EntriesInv
<1> QED
  BY <1>1, <1>2, <1>3 DEF CacheInv

LEMMA StepsKeepOrder == CacheInv /\ [Next]_vars => CacheInv'
<1> SUFFICES ASSUME CacheInv, [Next]_vars PROVE CacheInv'
  OBVIOUS
<1>1. ASSUME NEW r \in Runs, Work(r) PROVE CacheInv'
  <2>1. CASE \E c \in Contexts, t \in {Stamp(clock), clock} : Begin(r, c, t)
    BY <2>1, BeginKeeps
  <2>2. CASE ReadBundle(r)
    BY <2>2, ReadBundleKeeps
  <2>3. CASE WriteBundle(r)
    BY <2>3, WriteBundleKeeps
  <2>4. CASE Sweep(r)
    BY <2>4, SweepKeeps
  <2>5. CASE KeepBundle(r)
    BY <2>5, EndKeeps DEF KeepBundle
  <2>6. CASE \E f \in Files : TakeKey(r, f)
    BY <2>6, TakeKeyKeeps
  <2>7. CASE \E f \in Files : Parse(r, f)
    BY <2>7, ParseKeeps
  <2>8. CASE \E f \in Files : SourceGone(r, f)
    BY <2>8, EndKeeps DEF SourceGone
  <2> QED
    BY <1>1, <2>1, <2>2, <2>3, <2>4, <2>5, <2>6, <2>7, <2>8 DEF Work
<1>2. ASSUME NEW r \in Runs, Die(r) PROVE CacheInv'
  BY <1>2, EndKeeps DEF Die
<1>3. CASE Pass \/ \E f \in Files : Edit(f) \/ Remove(f)
  BY <1>3, EnvironmentKeeps
<1>4. ASSUME NEW c \in Contexts, PowerCut(c) PROVE CacheInv'
  BY <1>4, PowerCutKeeps
<1>5. CASE UNCHANGED vars
  BY <1>5, WorldMoves, SameWorldKeeps DEF vars, world, CacheInv, WorldInv
<1> QED
  BY <1>1, <1>2, <1>3, <1>4, <1>5 DEF Next

THEOREM CacheInvariant == Spec => []CacheInv
<1> QED
  BY StartsInOrder, StepsKeepOrder, PTL DEF Spec

(* No run is given a module older than its source was when the run began.  *)
THEOREM NeverStale == Spec => []NoStaleModule
<1>1. CacheInv => NoStaleModule
  <2> SUFFICES ASSUME CacheInv, NEW r \in Runs, NEW f \in run[r].sources, run[r].slots[f] # 0
               PROVE  run[r].slots[f] >= run[r].began[f]
    BY DEF NoStaleModule
  <2>1. run[r] \in Process /\ ProcessInv(run[r])
    BY DEF CacheInv, RunsInv
  <2>2. f \in Files /\ run[r].slots[f] \in Nat /\ run[r].began[f] \in Nat
    BY <2>1 DEF Process
  <2> QED
    BY <2>1, <2>2 DEF ProcessInv
<1> QED
  BY <1>1, CacheInvariant, PTL

-----------------------------------------------------------------------------
(* A bundle holds one module of each source.                               *)
THEOREM OneEntryPerSource == Spec => []OneModulePerSource
<1>1. Init => OneModulePerSource
  BY DEF Init, OneModulePerSource
<1>2. CacheInv /\ OneModulePerSource /\ [Next]_vars => OneModulePerSource'
  <2> SUFFICES ASSUME CacheInv, OneModulePerSource, [Next]_vars
               PROVE  OneModulePerSource'
    OBVIOUS
  <2>1. bundles \in [Contexts -> SUBSET Entries]
    BY DEF CacheInv, BundlesInv
  <2>2. ASSUME NEW r \in Runs, WriteBundle(r) PROVE OneModulePerSource'
    <3>1. \A e, g \in NewBundle(run[r]) : e.file = g.file => e = g
      BY DEF NewBundle, Retained, Entry
    <3>2. \A d \in Contexts : bundles'[d] = bundles[d] \/ bundles'[d] = NewBundle(run[r])
      BY <2>1, <2>2 DEF WriteBundle
    <3> HIDE DEF NewBundle
    <3> QED
      BY <3>1, <3>2 DEF OneModulePerSource
  <2>3. ASSUME NEW r \in Runs, Sweep(r) PROVE OneModulePerSource'
    <3>1. \A d \in Contexts : bundles'[d] = bundles[d] \/ bundles'[d] = {}
      BY <2>3 DEF Sweep
    <3> QED
      BY <3>1 DEF OneModulePerSource
  <2>4. ASSUME NEW c \in Contexts, PowerCut(c) PROVE OneModulePerSource'
    <3>1. \A d \in Contexts : bundles'[d] = bundles[d] \/ bundles'[d] = {}
      BY <2>1, <2>4, SMTT(60) DEF PowerCut
    <3> QED
      BY <3>1 DEF OneModulePerSource
  <2>5. bundles' = bundles \/ (\E r \in Runs : WriteBundle(r) \/ Sweep(r))
                           \/ (\E c \in Contexts : PowerCut(c))
    BY ZenonT(60) DEF Next, Work, vars, Begin, ReadBundle, KeepBundle, TakeKey, Parse, SourceGone, Die,
           Edit, Remove, Change, Pass
  <2>6. CASE bundles' = bundles
    BY <2>6 DEF OneModulePerSource
  <2> QED
    BY <2>2, <2>3, <2>4, <2>5, <2>6
<1> QED
  BY <1>1, <1>2, CacheInvariant, PTL DEF Spec

-----------------------------------------------------------------------------
(* The part of TypeOK about what a run holds, and about the bounds.        *)
HeldInv(p) ==
  /\ p.parsed \subseteq p.sources
  /\ p.stored # {} => Unkeyed(p) # {} \/ p.sources = {}
  /\ p.at = "read" => p.stored = {} /\ Unkeyed(p) = p.sources

BoundsInv ==
  /\ clock \in 0 .. MaxClock /\ written \in 1 .. MaxVersion
  /\ \A f \in Files : fs[f].ctime \in 0 .. clock

TypeInv == BoundsInv /\ \A r \in Runs : HeldInv(run[r])

LEMMA StampIsNatural == ASSUME NEW t \in Nat PROVE Stamp(t) \in 0 .. t
<1>1. t % Granularity \in 0 .. Granularity - 1 /\ Granularity \in Nat \ {0}
  BY GranularityAssumption
<1>2. t % Granularity <= t
  <2>1. CASE t < Granularity
    <3>1. t % Granularity = t
      BY <1>1, <2>1, GranularityAssumption
    <3> QED
      BY <3>1
  <2>2. CASE t >= Granularity
    BY <1>1, <2>2
  <2> QED
    BY <1>1, <2>1, <2>2
<1> QED
  BY <1>1, <1>2 DEF Stamp

LEMMA BoundsKept == ASSUME BoundsInv, WorldInv, [Next]_vars PROVE BoundsInv'
<1>1. CASE UNCHANGED world
  BY <1>1 DEF BoundsInv, world
<1>2. CASE Pass
  <2>1. clock \in 0 .. MaxClock /\ clock < MaxClock /\ clock' = clock + 1 /\ UNCHANGED <<fs, written>>
    BY <1>2 DEF Pass, BoundsInv
  <2>2. clock' \in 0 .. MaxClock
    BY <2>1, BoundsAssumption
  <2>3. \A f \in Files : fs'[f].ctime \in 0 .. clock'
    BY <2>1, <2>2 DEF BoundsInv
  <2> QED
    BY <2>1, <2>2, <2>3 DEF BoundsInv
<1>3. ASSUME NEW f \in Files, NEW file, fs' = [fs EXCEPT ![f] = file], clock' = clock,
             file.ctime \in 0 .. clock, written' \in 1 .. MaxVersion
      PROVE  BoundsInv'
  <2>1. \A g \in Files : fs'[g] = fs[g] \/ fs'[g] = file
    BY <1>3 DEF WorldInv
  <2> QED
    BY <1>3, <2>1 DEF BoundsInv
<1>4. ASSUME NEW f \in Files, Edit(f) PROVE BoundsInv'
  <2>1. written' = written + 1 /\ written < MaxVersion /\ written \in 1 .. MaxVersion
    BY <1>4 DEF Edit, BoundsInv
  <2>2. written' \in 1 .. MaxVersion
    BY <2>1, BoundsAssumption
  <2>3. PICK file : /\ file = Written(written', clock) \/ file = Copied(written', fs[f], clock)
                    /\ Change(f, file)
    BY <1>4 DEF Edit
  <2>4. file.ctime \in 0 .. clock
    BY <2>3, StampIsNatural DEF Written, Copied, WorldInv
  <2> QED
    BY <1>3, <2>2, <2>3, <2>4 DEF Change
<1>5. ASSUME NEW f \in Files, Remove(f) PROVE BoundsInv'
  <2>1. Missing.ctime \in 0 .. clock /\ written' \in 1 .. MaxVersion
    BY <1>5 DEF Missing, Remove, BoundsInv, WorldInv
  <2> QED
    BY <1>3, <1>5, <2>1 DEF Remove, Change
<1>6. UNCHANGED world \/ Pass \/ \E f \in Files : Edit(f) \/ Remove(f)
  <2>1. ASSUME NEW r \in Runs, Work(r) PROVE UNCHANGED world
    <3>1. ASSUME NEW c \in Contexts, NEW t \in {Stamp(clock), clock}, Begin(r, c, t)
          PROVE  UNCHANGED world
      BY <3>1 DEF Begin
    <3>2. ASSUME NEW f \in Files, TakeKey(r, f) \/ Parse(r, f) \/ SourceGone(r, f)
          PROVE  UNCHANGED world
      BY <3>2 DEF TakeKey, Parse, SourceGone
    <3>3. ReadBundle(r) \/ WriteBundle(r) \/ Sweep(r) \/ KeepBundle(r) => UNCHANGED world
      BY DEF ReadBundle, WriteBundle, Sweep, KeepBundle
    <3> QED
      BY <2>1, <3>1, <3>2, <3>3 DEF Work
  <2>2. \A r \in Runs : Die(r) => UNCHANGED world
    BY DEF Die
  <2>3. \A c \in Contexts : PowerCut(c) => UNCHANGED world
    BY DEF PowerCut
  <2>4. UNCHANGED vars => UNCHANGED world
    BY DEF vars
  <2> QED
    BY <2>1, <2>2, <2>3, <2>4 DEF Next
<1> QED
  BY <1>1, <1>2, <1>4, <1>5, <1>6

(* A process that starts, ends, or has only its sweep left holds nothing.  *)
LEMMA FreshHeld ==
  ASSUME NEW p \in Process, p.stored = {}, p.parsed = {}, p.keys = Gone.keys
  PROVE  HeldInv(p)
<1>1. Unkeyed(p) = p.sources
  <2>1. \A f \in p.sources : p.keys[f] = NoKey
    BY DEF Process, Gone
  <2> QED
    BY <2>1 DEF Unkeyed
<1> QED
  BY <1>1 DEF HeldInv

LEMMA HeldKept ==
  ASSUME CacheInv, CacheInv', \A r \in Runs : HeldInv(run[r]), [Next]_vars
  PROVE  \A r \in Runs : HeldInv(run'[r])
<1>1. run \in [Runs -> Process] /\ run' \in [Runs -> Process] /\ WorldInv
  BY DEF CacheInv, RunsInv
<1>2. ASSUME NEW moved, NEW s \in Runs PROVE HeldInv(Unsettled(moved)[s])
  <2>1. \/ Unsettled(moved)[s] = run[s]
        \/ Unsettled(moved)[s] = [run[s] EXCEPT !.steady = FALSE, !.hot = FALSE]
    BY DEF Unsettled
  <2>2. HeldInv(run[s]) => HeldInv([run[s] EXCEPT !.steady = FALSE, !.hot = FALSE])
    BY <1>1 DEF HeldInv, Unkeyed, Process
  <2> QED
    BY <2>1, <2>2
<1>3. HeldInv(Gone)
  BY GoneFine, FreshHeld, <1>1 DEF Gone
<1>4. ASSUME NEW r \in Runs, NEW p, run' = [run EXCEPT ![r] = p], HeldInv(p)
      PROVE  \A s \in Runs : HeldInv(run'[s])
  BY <1>1, <1>4
<1>5. ASSUME NEW moved, NEW r \in Runs, NEW p,
             run' = [Unsettled(moved) EXCEPT ![r] = p], HeldInv(p)
      PROVE  \A s \in Runs : HeldInv(run'[s])
  <2>1. \A s \in Runs : run'[s] = IF s = r THEN p ELSE Unsettled(moved)[s]
    BY <1>5 DEF Unsettled
  <2> QED
    BY <1>2, <1>5, <2>1
<1>6. ASSUME NEW r \in Runs, NEW c \in Contexts, NEW t, Begin(r, c, t)
      PROVE  HeldInv(run'[r])
  <2>1. run'[r].stored = {} /\ run'[r].parsed = {} /\ run'[r].keys = Gone.keys
    BY <1>1, <1>6 DEF Begin, Gone
  <2> QED
    BY <1>1, <2>1, FreshHeld
<1>7. ASSUME NEW r \in Runs, ReadBundle(r) PROVE HeldInv(run'[r])
  <2>1. /\ run'[r].sources = run[r].sources /\ run'[r].keys = run[r].keys
        /\ run'[r].parsed = run[r].parsed /\ run'[r].at = "work" /\ run[r].at = "read"
    BY <1>1, <1>7 DEF ReadBundle, Process
  <2>2. Unkeyed(run'[r]) = Unkeyed(run[r]) /\ Unkeyed(run[r]) = run[r].sources
    BY <2>1 DEF HeldInv, Unkeyed
  <2> QED
    BY <2>1, <2>2 DEF HeldInv
<1>8. ASSUME NEW r \in Runs, NEW f \in Files, TakeKey(r, f) PROVE HeldInv(run'[r])
  <2> DEFINE key == FingerprintAt(fs[f], run[r].now)
  <2>1. key # NoKey
    <3>1. run[r].now \in Int /\ run[r].now <= clock
      BY <1>1 DEF Process, CacheInv, RunsInv, ProcessInv
    <3> QED
      BY <1>1, <3>1, FingerprintIsOld
  <2> HIDE DEF key
  <2>2. /\ run'[r].sources = run[r].sources /\ run'[r].parsed = run[r].parsed
        /\ run'[r].keys = [run[r].keys EXCEPT ![f] = key]
        /\ run'[r].stored = Remaining(run[r], f) /\ run'[r].at = "work"
        /\ f \in Unkeyed(run[r])
    BY <1>1, <1>8 DEF TakeKey, Process, key
  <2>3. run[r].keys \in [Files -> Key] /\ run[r].sources \subseteq Files
    BY <1>1 DEF Process
  <2>4. Unkeyed(run'[r]) = Unkeyed(run[r]) \ {f}
    BY <2>1, <2>2, <2>3 DEF Unkeyed
  <2>5. run'[r].stored # {} => Unkeyed(run'[r]) # {}
    BY <2>2, <2>4 DEF Remaining
  <2> QED
    BY <2>2, <2>5 DEF HeldInv
<1>9. ASSUME NEW r \in Runs, NEW f \in Files, Parse(r, f) PROVE HeldInv(run'[r])
  <2>1. /\ run'[r].sources = run[r].sources /\ run'[r].keys = run[r].keys
        /\ run'[r].parsed = run[r].parsed \cup {f} /\ run'[r].stored = run[r].stored
        /\ run'[r].at = "work" /\ f \in run[r].sources
    BY <1>1, <1>9 DEF Parse, Process, Outstanding
  <2>2. Unkeyed(run'[r]) = Unkeyed(run[r])
    BY <2>1 DEF Unkeyed
  <2> QED
    BY <2>1, <2>2 DEF HeldInv
<1>10. ASSUME NEW r \in Runs, WriteBundle(r) PROVE \A s \in Runs : HeldInv(run'[s])
  <2> DEFINE p == [Gone EXCEPT !.at = "sweep", !.context = run[r].context, !.steady = run[r].steady]
  <2>1. run' = [Unsettled([s \in Runs |-> run[s].context = run[r].context]) EXCEPT ![r] = p]
    BY <1>10 DEF WriteBundle
  <2>2. p \in Process
    <3>1. run'[r] = p
      BY <2>1 DEF Unsettled
    <3> QED
      BY <1>1, <3>1
  <2>3. p.stored = {} /\ p.parsed = {} /\ p.keys = Gone.keys
    BY DEF Gone
  <2> HIDE DEF p
  <2> QED
    BY <1>5, <2>1, <2>2, <2>3, FreshHeld
<1>11. ASSUME NEW r \in Runs, HeldInv(run'[r]), \A s \in Runs : s # r => run'[s] = run[s]
       PROVE  \A s \in Runs : HeldInv(run'[s])
  BY <1>11
<1>12. ASSUME NEW r \in Runs, Work(r) PROVE \A s \in Runs : HeldInv(run'[s])
  <2>1. CASE \E c \in Contexts, t \in {Stamp(clock), clock} : Begin(r, c, t)
    <3>1. \A s \in Runs : s # r => run'[s] = run[s]
      BY <1>1, <2>1 DEF Begin
    <3> QED
      BY <1>6, <1>11, <2>1, <3>1
  <2>2. CASE ReadBundle(r)
    <3>1. \A s \in Runs : s # r => run'[s] = run[s]
      BY <1>1, <2>2 DEF ReadBundle
    <3> QED
      BY <1>7, <1>11, <2>2, <3>1
  <2>3. ASSUME NEW f \in Files, TakeKey(r, f) PROVE \A s \in Runs : HeldInv(run'[s])
    <3>1. \A s \in Runs : s # r => run'[s] = run[s]
      BY <1>1, <2>3 DEF TakeKey
    <3> QED
      BY <1>8, <1>11, <2>3, <3>1
  <2>4. ASSUME NEW f \in Files, Parse(r, f) PROVE \A s \in Runs : HeldInv(run'[s])
    <3>1. \A s \in Runs : s # r => run'[s] = run[s]
      BY <1>1, <2>4 DEF Parse
    <3> QED
      BY <1>9, <1>11, <2>4, <3>1
  <2>5. CASE Sweep(r)
    BY <1>3, <1>5, <2>5 DEF Sweep
  <2>6. KeepBundle(r) \/ (\E f \in Files : SourceGone(r, f)) => run' = [run EXCEPT ![r] = Gone]
    BY DEF KeepBundle, SourceGone
  <2>7. CASE run' = [run EXCEPT ![r] = Gone]
    BY <1>3, <1>4, <2>7
  <2> QED
    BY <1>10, <1>12, <2>1, <2>2, <2>3, <2>4, <2>5, <2>6, <2>7 DEF Work
<1>13. ASSUME NEW r \in Runs, Die(r) PROVE \A s \in Runs : HeldInv(run'[s])
  BY <1>3, <1>4, <1>13 DEF Die
<1>14. ASSUME NEW f \in Files, Edit(f) \/ Remove(f) PROVE \A s \in Runs : HeldInv(run'[s])
  <2>1. run' = Unsettled([r \in Runs |-> TRUE])
    BY <1>14 DEF Edit, Remove, Change
  <2> QED
    BY <1>2, <2>1
<1>15. ASSUME NEW c \in Contexts, PowerCut(c) PROVE \A s \in Runs : HeldInv(run'[s])
  BY <1>3, <1>15 DEF PowerCut
<1>16. CASE Pass \/ UNCHANGED vars
  BY <1>16 DEF Pass, vars
<1> QED
  BY <1>12, <1>13, <1>14, <1>15, <1>16 DEF Next

(* The variables stay in range, and a bundle in memory is dropped once     *)
(* every source has been looked up in it.                                  *)
THEOREM CacheTypeCorrect == Spec => []TypeOK
<1>1. Init => TypeInv
  <2> SUFFICES ASSUME Init PROVE TypeInv
    OBVIOUS
  <2>1. Stamp(0) = 0
    BY StampIsNatural
  <2>2. BoundsInv
    BY <2>1, BoundsAssumption DEF Init, BoundsInv, Written
  <2>3. HeldInv(Gone)
    <3>1. Gone \in Process
      BY StartsInOrder, GoneFine DEF CacheInv
    <3> QED
      BY <3>1, FreshHeld DEF Gone
  <2> QED
    BY <2>2, <2>3 DEF Init, TypeInv
<1>2. CacheInv /\ CacheInv' /\ TypeInv /\ [Next]_vars => TypeInv'
  <2> SUFFICES ASSUME CacheInv, CacheInv', TypeInv, [Next]_vars PROVE TypeInv'
    OBVIOUS
  <2>1. BoundsInv'
    BY BoundsKept DEF CacheInv, TypeInv
  <2>2. \A r \in Runs : HeldInv(run'[r])
    BY HeldKept DEF TypeInv
  <2> QED
    BY <2>1, <2>2 DEF TypeInv, HeldInv, Unkeyed
<1>3. CacheInv /\ TypeInv => TypeOK
  <2> SUFFICES ASSUME CacheInv, TypeInv PROVE TypeOK
    OBVIOUS
  <2>1. \A f \in Files : fs[f].version \in 0 .. written
    BY DEF CacheInv, WorldInv, File
  <2>2. \A r \in Runs : run[r].at \in {"idle", "read", "work", "sweep"}
    BY DEF CacheInv, RunsInv, Process
  <2> QED
    BY <2>1, <2>2 DEF TypeOK, TypeInv, BoundsInv, HeldInv
<1> QED
  BY <1>1, <1>2, <1>3, CacheInvariant, PTL DEF Spec
-----------------------------------------------------------------------------
(* A bundle with a module for each file, under the key that any run takes  *)
(* of it once it is settled.                                               *)
Covers(bundle, files) ==
  \A f \in Files : Exists(files[f]) =>
     \E e \in bundle : e.file = f /\ e.key = StatFingerprint(files[f])

Modules(bundle) == \A e \in bundle : e.module # 0

(* A steady run takes settled keys only, of all files, and leaves a bundle *)
(* that covers them.                                                       *)
SteadyRun(p, files, bs) ==
  p.steady =>
    /\ p.at \in {"read", "work"} =>
          /\ p.sources = {f \in Files : Exists(files[f])}
          /\ \A f \in p.sources : /\ Settled(files[f], p.now)
                                  /\ p.keys[f] \in {NoKey, StatFingerprint(files[f])}
    /\ p.at = "sweep" => Covers(bs[p.context], files)

(* One that begins where such a run ended finds what it looks up.          *)
WarmRun(p, files, bs) ==
  p.steady /\ p.hot =>
    /\ p.parsed = {}
    /\ p.at = "read" => Covers(bs[p.context], files) /\ \A f \in Files : p.keys[f] = NoKey
    /\ p.at = "work" =>
          \A f \in p.sources :
             IF p.keys[f] = NoKey
             THEN \E e \in p.stored : e.file = f /\ e.key = StatFingerprint(files[f])
             ELSE p.slots[f] # 0

WarmInv ==
  /\ \A c \in Contexts : Modules(bundles[c])
  /\ \A c \in warm : c \in Contexts /\ Covers(bundles[c], fs)
  /\ \A r \in Runs : /\ Modules(run[r].stored)
                     /\ SteadyRun(run[r], fs, bundles)
                     /\ WarmRun(run[r], fs, bundles)

LEMMA NoRunIsWarm ==
  ASSUME NEW files, NEW bs
  PROVE  SteadyRun(Gone, files, bs) /\ WarmRun(Gone, files, bs) /\ Modules(Gone.stored)
BY DEF Gone, SteadyRun, WarmRun, Modules

(* A step of one run that leaves the files, the bundles and warm alone.    *)
LEMMA WarmWhenOneMoves ==
  ASSUME CacheInv, WarmInv, UNCHANGED <<fs, bundles, warm>>, NEW r \in Runs,
         \A s \in Runs \ {r} : run'[s] = run[s],
         Modules(run'[r].stored), SteadyRun(run'[r], fs, bundles), WarmRun(run'[r], fs, bundles)
  PROVE  WarmInv'
<1>1. \A s \in Runs : /\ Modules(run'[s].stored)
                      /\ SteadyRun(run'[s], fs', bundles') /\ WarmRun(run'[s], fs', bundles')
  BY DEF WarmInv
<1> QED
  BY <1>1 DEF WarmInv

LEMMA BeginWarm ==
  ASSUME CacheInv, WarmInv, NEW r \in Runs, NEW c \in Contexts, NEW t \in {Stamp(clock), clock},
         Begin(r, c, t)
  PROVE  WarmInv'
<1> DEFINE discovered == {f \in Files : Exists(fs[f])}
           p == run'[r]
<1>1. /\ p.at = "read" /\ p.context = c /\ p.now = t /\ p.sources = discovered
      /\ p.steady = (\A f \in discovered : Settled(fs[f], t))
      /\ p.hot = (c \in warm) /\ p.parsed = {} /\ p.stored = {}
      /\ \A f \in Files : p.keys[f] = NoKey
  BY DEF Begin, Gone, CacheInv, RunsInv
<1>2. \A s \in Runs \ {r} : run'[s] = run[s]
  BY DEF Begin, CacheInv, RunsInv
<1>3. UNCHANGED <<fs, bundles, warm>>
  BY DEF Begin, world
<1>4. SteadyRun(p, fs, bundles)
  BY <1>1 DEF SteadyRun
<1>5. WarmRun(p, fs, bundles)
  BY <1>1 DEF WarmRun, WarmInv
<1> QED
  BY <1>1, <1>2, <1>3, <1>4, <1>5, WarmWhenOneMoves DEF Modules

LEMMA ReadBundleWarm == ASSUME CacheInv, WarmInv, NEW r \in Runs, ReadBundle(r) PROVE WarmInv'
<1> DEFINE p == run'[r]
<1>1. /\ run[r] \in Process /\ run[r].at = "read"
      /\ run[r].context \in Contexts
  BY DEF ReadBundle, CacheInv, RunsInv, ProcessInv
<1>2. /\ p.at = "work" /\ p.context = run[r].context /\ p.now = run[r].now
      /\ p.sources = run[r].sources /\ p.keys = run[r].keys /\ p.slots = run[r].slots
      /\ p.steady = run[r].steady /\ p.hot = run[r].hot /\ p.parsed = run[r].parsed
      /\ p.stored = bundles[run[r].context]
  BY <1>1 DEF ReadBundle, CacheInv, RunsInv, Process
<1>3. \A s \in Runs \ {r} : run'[s] = run[s]
  BY DEF ReadBundle, CacheInv, RunsInv
<1>4. UNCHANGED <<fs, bundles, warm>>
  BY DEF ReadBundle, world
<1>5. SteadyRun(run[r], fs, bundles) /\ WarmRun(run[r], fs, bundles)
  BY DEF WarmInv
<1>6. SteadyRun(p, fs, bundles)
  BY <1>1, <1>2, <1>5 DEF SteadyRun
<1>7. WarmRun(p, fs, bundles)
  <2> SUFFICES ASSUME p.steady, p.hot
               PROVE  /\ p.parsed = {}
                      /\ \A f \in p.sources :
                            IF p.keys[f] = NoKey
                            THEN \E e \in p.stored : e.file = f /\ e.key = StatFingerprint(fs[f])
                            ELSE p.slots[f] # 0
    BY <1>2 DEF WarmRun
  <2>1. /\ p.parsed = {} /\ Covers(bundles[run[r].context], fs)
        /\ \A f \in Files : p.keys[f] = NoKey
    BY <1>1, <1>2, <1>5 DEF WarmRun
  <2>2. p.sources = {f \in Files : Exists(fs[f])}
    BY <1>1, <1>2, <1>5 DEF SteadyRun
  <2> QED
    BY <1>2, <2>1, <2>2 DEF Covers
<1>8. Modules(p.stored)
  BY <1>1, <1>2 DEF WarmInv
<1> QED
  BY <1>3, <1>4, <1>6, <1>7, <1>8, WarmWhenOneMoves

LEMMA TakeKeyWarm ==
  ASSUME CacheInv, WarmInv, NEW r \in Runs, NEW f \in Files, TakeKey(r, f)
  PROVE  WarmInv'
<1> DEFINE key == FingerprintAt(fs[f], run[r].now)
           p == run'[r]
<1>1. /\ run[r] \in Process /\ run[r].at = "work" /\ f \in run[r].sources
      /\ run[r].keys[f] = NoKey /\ Exists(fs[f]) /\ f \in Unkeyed(run[r])
  BY DEF TakeKey, CacheInv, RunsInv, Unkeyed
<1>2. /\ p.at = "work" /\ p.context = run[r].context /\ p.now = run[r].now
      /\ p.sources = run[r].sources
      /\ p.keys = [run[r].keys EXCEPT ![f] = key]
      /\ p.slots = [run[r].slots EXCEPT ![f] = Hit(run[r], f, key)]
      /\ p.steady = run[r].steady /\ p.hot = run[r].hot /\ p.parsed = run[r].parsed
      /\ p.stored = Remaining(run[r], f)
  BY <1>1 DEF TakeKey, CacheInv, RunsInv, Process
<1>3. \A s \in Runs \ {r} : run'[s] = run[s]
  BY DEF TakeKey, CacheInv, RunsInv
<1>4. UNCHANGED <<fs, bundles, warm>>
  BY DEF TakeKey, world
<1>5. SteadyRun(run[r], fs, bundles) /\ WarmRun(run[r], fs, bundles) /\ Modules(run[r].stored)
  BY DEF WarmInv
<1>6. /\ p.keys[f] = key /\ p.slots[f] = Hit(run[r], f, key)
      /\ \A g \in Files \ {f} : p.keys[g] = run[r].keys[g] /\ p.slots[g] = run[r].slots[g]
  <2>1. run[r].keys \in [Files -> Key] /\ run[r].slots \in [Files -> Nat]
    BY <1>1 DEF Process
  <2> HIDE DEF key, p
  <2> QED
    BY <1>2, <2>1
<1>7. run[r].sources \subseteq Files
  BY <1>1 DEF Process
<1>8. run[r].steady => key = StatFingerprint(fs[f])
  BY <1>1, <1>5 DEF SteadyRun, FingerprintAt
<1>9. SteadyRun(p, fs, bundles)
  <2> HIDE DEF key, p
  <2> QED
    BY <1>1, <1>2, <1>5, <1>6, <1>7, <1>8 DEF SteadyRun
<1>10. WarmRun(p, fs, bundles)
  <2> SUFFICES ASSUME p.steady, p.hot
               PROVE  /\ p.parsed = {}
                      /\ \A g \in p.sources :
                            IF p.keys[g] = NoKey
                            THEN \E e \in p.stored : e.file = g /\ e.key = StatFingerprint(fs[g])
                            ELSE p.slots[g] # 0
    BY <1>2 DEF WarmRun
  <2>1. /\ run[r].parsed = {}
        /\ \A g \in run[r].sources :
              IF run[r].keys[g] = NoKey
              THEN \E e \in run[r].stored : e.file = g /\ e.key = StatFingerprint(fs[g])
              ELSE run[r].slots[g] # 0
    BY <1>1, <1>2, <1>5 DEF WarmRun
  <2>2. p.slots[f] # 0
    <3> DEFINE hits == {e \in run[r].stored : e.file = f /\ e.key = key}
    <3>1. hits # {}
      BY <1>1, <1>2, <1>8, <2>1
    <3>2. (CHOOSE e \in hits : TRUE) \in hits
      BY <3>1
    <3>3. Hit(run[r], f, key) = (CHOOSE e \in hits : TRUE).module
      BY <3>1 DEF Hit
    <3> QED
      BY <1>5, <1>6, <3>2, <3>3 DEF Modules
  <2>3. ASSUME NEW g \in p.sources, g # f
        PROVE  IF p.keys[g] = NoKey
               THEN \E e \in p.stored : e.file = g /\ e.key = StatFingerprint(fs[g])
               ELSE p.slots[g] # 0
    <3>1. g \in Files /\ p.keys[g] = run[r].keys[g] /\ p.slots[g] = run[r].slots[g]
      BY <1>2, <1>6, <1>7, <2>3
    <3>2. run[r].keys[g] = NoKey => g \in Unkeyed(run[r])
      BY <1>2, <2>3 DEF Unkeyed
    <3>3. run[r].keys[g] = NoKey => p.stored = run[r].stored
      BY <1>2, <2>3, <3>2 DEF Remaining
    <3> HIDE DEF p
    <3> QED
      BY <1>2, <2>1, <3>1, <3>3
  <2>4. p.keys[f] # NoKey
    BY <1>2, <1>6, <1>8 DEF StatFingerprint, NoKey
  <2> HIDE DEF p
  <2> QED
    BY <1>2, <2>1, <2>2, <2>3, <2>4
<1>11. Modules(p.stored)
  BY <1>2, <1>5 DEF Remaining, Modules
<1> QED
  BY <1>3, <1>4, <1>9, <1>10, <1>11, WarmWhenOneMoves

LEMMA ParseWarm ==
  ASSUME CacheInv, WarmInv, NEW r \in Runs, NEW f \in Files, Parse(r, f)
  PROVE  WarmInv'
<1> DEFINE p == run'[r]
<1>1. /\ run[r] \in Process /\ run[r].at = "work" /\ f \in run[r].sources
      /\ run[r].slots[f] = 0 /\ run[r].keys[f] # NoKey
  BY DEF Parse, CacheInv, RunsInv, Outstanding, Unkeyed
<1>2. /\ p.at = "work" /\ p.now = run[r].now /\ p.sources = run[r].sources
      /\ p.keys = run[r].keys /\ p.steady = run[r].steady /\ p.hot = run[r].hot
      /\ p.stored = run[r].stored
  BY <1>1 DEF Parse, CacheInv, RunsInv, Process
<1>3. \A s \in Runs \ {r} : run'[s] = run[s]
  BY DEF Parse, CacheInv, RunsInv
<1>4. UNCHANGED <<fs, bundles, warm>>
  BY DEF Parse, world
<1>5. SteadyRun(run[r], fs, bundles) /\ WarmRun(run[r], fs, bundles) /\ Modules(run[r].stored)
  BY DEF WarmInv
<1>6. ~(run[r].steady /\ run[r].hot)
  BY <1>1, <1>5 DEF WarmRun
<1>7. SteadyRun(p, fs, bundles) /\ WarmRun(p, fs, bundles)
  BY <1>1, <1>2, <1>5, <1>6 DEF SteadyRun, WarmRun
<1> QED
  BY <1>2, <1>3, <1>4, <1>5, <1>7, WarmWhenOneMoves

LEMMA EndWarm ==
  ASSUME CacheInv, WarmInv, NEW r \in Runs, UNCHANGED <<fs, bundles, warm>>,
         run' = [run EXCEPT ![r] = Gone]
  PROVE  WarmInv'
<1>1. run'[r] = Gone /\ \A s \in Runs \ {r} : run'[s] = run[s]
  BY DEF CacheInv, RunsInv
<1> QED
  BY <1>1, NoRunIsWarm, WarmWhenOneMoves

(* What has to hold of one run for the next state's sake.                  *)
LEMMA WarmNext ==
  ASSUME \A c \in Contexts : Modules(bundles'[c]),
         \A c \in warm' : c \in Contexts /\ Covers(bundles'[c], fs'),
         \A s \in Runs : /\ Modules(run'[s].stored)
                         /\ SteadyRun(run'[s], fs', bundles') /\ WarmRun(run'[s], fs', bundles')
  PROVE  WarmInv'
BY DEF WarmInv

(* A run that is unsettled is neither steady nor hot.                      *)
LEMMA UnsettledFields ==
  ASSUME CacheInv, NEW moved, NEW s \in Runs
  PROVE  LET q == Unsettled(moved)[s]
         IN  /\ moved[s] => ~q.steady /\ ~q.hot /\ q.stored = run[s].stored
             /\ ~moved[s] => q = run[s]
BY DEF Unsettled, CacheInv, RunsInv, Process

(* A run that has not moved, over files and a bundle that have not either.  *)
LEMMA UntouchedRun ==
  ASSUME WarmInv, NEW s \in Runs, run'[s] = run[s], fs' = fs,
         run[s].at # "idle" => bundles'[run[s].context] = bundles[run[s].context]
  PROVE  /\ Modules(run'[s].stored)
         /\ SteadyRun(run'[s], fs', bundles') /\ WarmRun(run'[s], fs', bundles')
<1>1. /\ Modules(run[s].stored)
      /\ SteadyRun(run[s], fs, bundles) /\ WarmRun(run[s], fs, bundles)
  BY DEF WarmInv
<1>2. SteadyRun(run'[s], fs', bundles')
  BY <1>1 DEF SteadyRun
<1>3. WarmRun(run'[s], fs', bundles')
  BY <1>1 DEF WarmRun
<1> QED
  BY <1>1, <1>2, <1>3

LEMMA WriteBundleWarm == ASSUME CacheInv, WarmInv, NEW r \in Runs, WriteBundle(r) PROVE WarmInv'
<1> DEFINE c == run[r].context
           moved == [s \in Runs |-> run[s].context = c]
           left == [Gone EXCEPT !.at = "sweep", !.context = c, !.steady = run[r].steady]
<1>1. /\ run[r] \in Process /\ run[r].at = "work" /\ c \in Contexts
      /\ \A f \in run[r].sources : f \in Files /\ run[r].keys[f] # NoKey /\ run[r].slots[f] # 0
  BY DEF WriteBundle, Parsed, Outstanding, Unkeyed, CacheInv, RunsInv, ProcessInv, Process
<1>2. /\ bundles' = [bundles EXCEPT ![c] = Retained(run[r])]
      /\ run' = [Unsettled(moved) EXCEPT ![r] = left]
      /\ warm' = warm \ {c} /\ fs' = fs
  BY DEF WriteBundle, NewBundle, world
<1>3. /\ bundles'[c] = Retained(run[r])
      /\ \A d \in Contexts \ {c} : bundles'[d] = bundles[d]
  BY <1>1, <1>2 DEF CacheInv, BundlesInv
<1>4. run'[r] = left /\ \A s \in Runs \ {r} : run'[s] = Unsettled(moved)[s]
  BY <1>2 DEF Unsettled
<1>5. Modules(Retained(run[r]))
  BY <1>1 DEF Retained, Entry, Modules
<1>6. run[r].steady => Covers(Retained(run[r]), fs)
  <2> SUFFICES ASSUME run[r].steady, NEW f \in Files, Exists(fs[f])
               PROVE  \E e \in Retained(run[r]) : e.file = f /\ e.key = StatFingerprint(fs[f])
    BY DEF Covers
  <2>1. SteadyRun(run[r], fs, bundles)
    BY DEF WarmInv
  <2>2. f \in run[r].sources /\ run[r].keys[f] = StatFingerprint(fs[f])
    BY <1>1, <2>1 DEF SteadyRun
  <2>3. Entry(f, run[r].keys[f], run[r].slots[f]) \in Retained(run[r])
    BY <2>2 DEF Retained
  <2> QED
    BY <2>2, <2>3 DEF Entry
<1>7. \A d \in Contexts : Modules(bundles'[d])
  BY <1>3, <1>5 DEF WarmInv
<1>8. \A d \in warm' : d \in Contexts /\ Covers(bundles'[d], fs')
  BY <1>2, <1>3 DEF WarmInv
<1>9. ASSUME NEW s \in Runs
      PROVE  /\ Modules(run'[s].stored)
             /\ SteadyRun(run'[s], fs', bundles') /\ WarmRun(run'[s], fs', bundles')
  <2>1. CASE s = r
    <3>1. /\ left.at = "sweep" /\ left.context = c /\ left.steady = run[r].steady
          /\ left.hot = FALSE /\ left.stored = {}
      BY DEF Gone
    <3>2. run'[s] = left
      BY <1>4, <2>1
    <3> HIDE DEF left, c
    <3>3. Modules(run'[s].stored) /\ WarmRun(run'[s], fs', bundles')
      BY <3>1, <3>2 DEF Modules, WarmRun
    <3>4. SteadyRun(run'[s], fs', bundles')
      <4>1. run'[s].steady => Covers(bundles'[c], fs')
        BY <1>2, <1>3, <1>6, <3>1, <3>2
      <4> QED
        BY <3>1, <3>2, <4>1 DEF SteadyRun
    <3> QED
      BY <3>3, <3>4
  <2>2. CASE s # r /\ run[s].context = c
    <3>1. ~run'[s].steady /\ run'[s].stored = run[s].stored
      <4>1. moved[s]
        BY <2>2
      <4> HIDE DEF moved
      <4> QED
        BY <1>4, <2>2, <4>1, UnsettledFields
    <3>2. Modules(run[s].stored)
      BY DEF WarmInv
    <3> HIDE DEF moved, c, left
    <3> QED
      BY <3>1, <3>2 DEF SteadyRun, WarmRun
  <2>3. CASE s # r /\ run[s].context # c
    <3>1. run'[s] = run[s]
      <4>1. ~moved[s]
        BY <2>3
      <4> HIDE DEF moved
      <4> QED
        BY <1>4, <2>3, <4>1, UnsettledFields
    <3>2. run[s].at # "idle" => bundles'[run[s].context] = bundles[run[s].context]
      BY <1>3, <2>3 DEF CacheInv, RunsInv, ProcessInv
    <3> HIDE DEF moved, c, left
    <3> QED
      BY <1>2, <3>1, <3>2, UntouchedRun
  <2> QED
    BY <2>1, <2>2, <2>3
<1> QED
  BY <1>7, <1>8, <1>9, WarmNext

LEMMA SweepWarm == ASSUME CacheInv, WarmInv, NEW r \in Runs, Sweep(r) PROVE WarmInv'
<1> DEFINE c == run[r].context
           moved == [s \in Runs |-> run[s].context # c]
<1>1. /\ run[r].at = "sweep" /\ c \in Contexts
      /\ bundles' = [d \in Contexts |-> IF d = c THEN bundles[c] ELSE {}]
      /\ run' = [Unsettled(moved) EXCEPT ![r] = Gone]
      /\ warm' = IF run[r].steady THEN {c} ELSE warm \cap {c}
      /\ fs' = fs
  BY DEF Sweep, world, CacheInv, RunsInv, ProcessInv
<1>2. run'[r] = Gone /\ \A s \in Runs \ {r} : run'[s] = Unsettled(moved)[s]
  BY <1>1 DEF Unsettled
<1>3. bundles'[c] = bundles[c]
  BY <1>1
<1>4. \A d \in Contexts : Modules(bundles'[d])
  BY <1>1 DEF WarmInv, Modules
<1>5. run[r].steady => Covers(bundles[c], fs)
  BY <1>1 DEF WarmInv, SteadyRun
<1>6. \A d \in warm' : d \in Contexts /\ Covers(bundles'[d], fs')
  BY <1>1, <1>3, <1>5 DEF WarmInv
<1>7. ASSUME NEW s \in Runs
      PROVE  /\ Modules(run'[s].stored)
             /\ SteadyRun(run'[s], fs', bundles') /\ WarmRun(run'[s], fs', bundles')
  <2>1. CASE s = r
    BY <1>2, <2>1, NoRunIsWarm
  <2>2. CASE s # r /\ run[s].context # c
    <3>1. ~run'[s].steady /\ run'[s].stored = run[s].stored
      BY <1>2, <2>2, UnsettledFields
    <3>2. Modules(run[s].stored)
      BY DEF WarmInv
    <3> QED
      BY <3>1, <3>2 DEF SteadyRun, WarmRun
  <2>3. CASE s # r /\ run[s].context = c
    <3>1. run'[s] = run[s]
      BY <1>2, <2>3, UnsettledFields
    <3>2. fs' = fs
      BY <1>1
    <3>3. bundles'[run[s].context] = bundles[run[s].context]
      BY <1>3, <2>3
    <3> HIDE DEF moved, c
    <3> QED
      BY <3>1, <3>2, <3>3, UntouchedRun
  <2> QED
    BY <2>1, <2>2, <2>3
<1> QED
  BY <1>4, <1>6, <1>7, WarmNext

LEMMA EnvironmentWarm ==
  ASSUME CacheInv, WarmInv,
         \/ \E f \in Files : Edit(f) \/ Remove(f)
         \/ Pass
         \/ \E c \in Contexts : PowerCut(c)
         \/ UNCHANGED vars
  PROVE  WarmInv'
<1>1. CASE \E f \in Files : Edit(f) \/ Remove(f)
  <2>1. run' = Unsettled([r \in Runs |-> TRUE]) /\ warm' = {} /\ bundles' = bundles
    BY <1>1 DEF Edit, Remove, Change
  <2>2. \A s \in Runs : ~run'[s].steady /\ run'[s].stored = run[s].stored
    BY <2>1, UnsettledFields
  <2>3. \A s \in Runs : SteadyRun(run'[s], fs', bundles') /\ WarmRun(run'[s], fs', bundles')
    BY <2>2 DEF SteadyRun, WarmRun
  <2> QED
    BY <2>1, <2>2, <2>3, WarmNext DEF WarmInv
<1>2. CASE Pass \/ UNCHANGED vars
  <2>1. UNCHANGED <<fs, bundles, run, warm>>
    BY <1>2 DEF Pass, vars, world
  <2> QED
    BY <2>1, WarmNext DEF WarmInv
<1>3. CASE \E c \in Contexts : PowerCut(c)
  <2>1. PICK c \in Contexts : PowerCut(c)
    BY <1>3
  <2>2. /\ bundles' = [bundles EXCEPT ![c] = {}] /\ run' = [r \in Runs |-> Gone]
        /\ warm' = warm \ {c} /\ fs' = fs
    BY <2>1 DEF PowerCut, world
  <2>3. \A d \in Contexts : bundles'[d] = IF d = c THEN {} ELSE bundles[d]
    BY <2>2 DEF CacheInv, BundlesInv
  <2>4. \A d \in Contexts : Modules(bundles'[d])
    BY <2>3 DEF WarmInv, Modules
  <2>5. \A d \in warm' : d \in Contexts /\ Covers(bundles'[d], fs')
    BY <2>2, <2>3 DEF WarmInv
  <2> QED
    BY <2>2, <2>4, <2>5, NoRunIsWarm, WarmNext
<1> QED
  BY <1>1, <1>2, <1>3

(* A run that begins where a steady one ended, and is not disturbed, finds *)
(* every module in the bundle: what is written back includes what was      *)
(* taken from the bundle itself (retained_entries, write_parse_bundle_ref).*)
THEOREM WarmRunsParseNothing == Spec => []WarmRunParsesNothing
<1>1. Init => WarmInv
  <2> SUFFICES ASSUME Init PROVE WarmInv
    OBVIOUS
  <2>1. \A r \in Runs : run[r] = Gone
    BY DEF Init
  <2>2. \A c \in Contexts : Modules(bundles[c])
    BY DEF Init, Modules
  <2> QED
    BY <2>1, <2>2, NoRunIsWarm DEF Init, WarmInv
<1>2. CacheInv /\ WarmInv /\ [Next]_vars => WarmInv'
  <2> SUFFICES ASSUME CacheInv, WarmInv, [Next]_vars PROVE WarmInv'
    OBVIOUS
  <2>1. ASSUME NEW r \in Runs, Work(r) \/ Die(r) PROVE WarmInv'
    <3>1. CASE \E c \in Contexts, t \in {Stamp(clock), clock} : Begin(r, c, t)
      BY <3>1, BeginWarm
    <3>2. CASE ReadBundle(r) \/ WriteBundle(r) \/ Sweep(r)
      BY <3>2, ReadBundleWarm, WriteBundleWarm, SweepWarm
    <3>3. CASE \E f \in Files : TakeKey(r, f) \/ Parse(r, f)
      BY <3>3, TakeKeyWarm, ParseWarm
    <3>4. CASE KeepBundle(r) \/ Die(r) \/ \E f \in Files : SourceGone(r, f)
      BY <3>4, EndWarm DEF KeepBundle, Die, SourceGone, world
    <3> QED
      BY <2>1, <3>1, <3>2, <3>3, <3>4 DEF Work
  <2> QED
    BY <2>1, EnvironmentWarm DEF Next
<1>3. WarmInv => WarmRunParsesNothing
  BY DEF WarmInv, WarmRun, WarmRunParsesNothing
<1> QED
  BY <1>1, <1>2, <1>3, CacheInvariant, PTL DEF Spec
============================================================================
