----------------------------- MODULE ParseCache -----------------------------
(***************************************************************************)
(* The parse cache (src/cache.rs, parse_project_sources_with_cache of      *)
(* src/parser/parse.rs): concurrent runs over one checkout share a bundle  *)
(* per context.  A run probes the clock, reads its bundle, fingerprints    *)
(* every source, takes what the bundle holds under these keys, parses the  *)
(* rest, writes back what it holds and sweeps the other bundles.  Parsing  *)
(* a version of a file yields that version.                                *)
(*                                                                         *)
(* The user writes, replaces and removes files at any moment; a run may    *)
(* die at any moment, and a power cut may corrupt a bundle, which is       *)
(* written without fsync and reads as empty from then on.                  *)
(***************************************************************************)
EXTENDS FileStamps, FiniteSets

CONSTANTS
  Files,        \* the source files
  Runs,         \* concurrent runs
  Contexts,     \* cache key contexts: version, configuration, layout, target
  MaxClock,     \* bound: time
  MaxVersion    \* bound: versions written

ASSUME BoundsAssumption == MaxClock \in Nat /\ MaxVersion \in Nat \ {0}

VARIABLES
  clock,        \* the clock of the filesystem
  fs,           \* what each file is
  written,      \* the number of versions written so far
  bundles,      \* the entries of each context's bundle
  run,          \* what each run holds, see Gone
  warm          \* ghost: contexts whose bundle a steady run left, untouched since

world == <<clock, fs, written>>
vars == <<world, bundles, run, warm>>

NoContext == "no context"
NoKey == [by |-> "none", mtime |-> 0, ctime |-> 0, version |-> 0]

Entry(f, key, module) == [file |-> f, key |-> key, module |-> module]

(* A process that is not running.  The fields of one that is: its context, *)
(* the time its probe told, the bundle it read and how many entries that   *)
(* had, the sources it discovered, their keys, the module it holds of each *)
(* (0 for none) and those it parsed itself; and three ghosts: the version  *)
(* each file had when it began, that all were settled then and nothing     *)
(* moved since, and that its context was warm.                             *)
Gone ==
  [at |-> "idle", context |-> NoContext, now |-> 0,
   stored |-> {}, stored_len |-> 0, sources |-> {},
   keys |-> [f \in Files |-> NoKey], slots |-> [f \in Files |-> 0], parsed |-> {},
   began |-> [f \in Files |-> 0], steady |-> FALSE, hot |-> FALSE]

----------------------------------------------------------------------------
Init ==
  /\ clock = 0
  /\ fs = [f \in Files |-> Written(1, 0)]
  /\ written = 1
  /\ bundles = [c \in Contexts |-> {}]
  /\ run = [r \in Runs |-> Gone]
  /\ warm = {}

(* Discovery, and filesystem_now: the probe is stamped like any file.  If  *)
(* it cannot be written, the local clock stands in, which must agree.      *)
Begin(r, c, t) ==
  LET discovered == {f \in Files : Exists(fs[f])}
  IN /\ run[r].at = "idle"
     /\ t \in {Stamp(clock), clock}
     /\ run' = [run EXCEPT ![r] =
          [Gone EXCEPT !.at = "read", !.context = c, !.now = t, !.sources = discovered,
                       !.began = [f \in Files |-> fs[f].version],
                       !.steady = \A f \in discovered : Settled(fs[f], t),
                       !.hot = c \in warm]]
     /\ UNCHANGED <<world, bundles, warm>>

(* read_parse_bundle: a missing or corrupt bundle reads as empty.          *)
ReadBundle(r) ==
  /\ run[r].at = "read"
  /\ LET bundle == bundles[run[r].context]
     IN run' = [run EXCEPT ![r].at = "work", ![r].stored = bundle,
                           ![r].stored_len = Cardinality(bundle)]
  /\ UNCHANGED <<world, bundles, warm>>

Unkeyed(p) == {f \in p.sources : p.keys[f] = NoKey}

(* drain_cache: one entry for each key.                                    *)
Hit(p, f, key) ==
  LET hits == {e \in p.stored : e.file = f /\ e.key = key}
  IN IF hits = {} THEN 0 ELSE (CHOOSE e \in hits : TRUE).module

(* Mutant: the bundle is dropped after one lookup.                         *)
RemainingNone(p, f) == {}

(* The bundle is dropped once the last source was looked up.               *)
Remaining(p, f) == IF Unkeyed(p) = {f} THEN {} ELSE p.stored

(* collect_pending fingerprints one source at a time; drain_cache, which   *)
(* follows it and touches nothing others see, is folded into these steps.  *)
TakeKey(r, f) ==
  /\ run[r].at = "work" /\ f \in Unkeyed(run[r]) /\ Exists(fs[f])
  /\ LET key == FingerprintAt(fs[f], run[r].now)
     IN run' = [run EXCEPT ![r].keys[f] = key,
                           ![r].slots[f] = Hit(run[r], f, key),
                           ![r].stored = Remaining(run[r], f)]
  /\ UNCHANGED <<world, bundles, warm>>

(* What is left to parse, once every source has its key.                   *)
Outstanding(p) == {f \in p.sources : Unkeyed(p) = {} /\ p.slots[f] = 0}

Parsed(p) == p.at = "work" /\ Unkeyed(p) = {} /\ Outstanding(p) = {}

(* run_parse_job: workers take the outstanding files in any order.         *)
Parse(r, f) ==
  /\ run[r].at = "work" /\ f \in Outstanding(run[r]) /\ Exists(fs[f])
  /\ run' = [run EXCEPT ![r].slots[f] = fs[f].version, ![r].parsed = @ \cup {f}]
  /\ UNCHANGED <<world, bundles, warm>>

(* A source that is gone fails the whole run, and nothing is written.      *)
SourceGone(r, f) ==
  /\ run[r].at = "work" /\ f \in Unkeyed(run[r]) \cup Outstanding(run[r])
  /\ ~ Exists(fs[f])
  /\ run' = [run EXCEPT ![r] = Gone]
  /\ UNCHANGED <<world, bundles, warm>>

(* Mutant: only what this run parsed is written back.                      *)
RetainedFresh(p) == {Entry(f, p.keys[f], p.slots[f]) : f \in p.parsed}

(* retained_entries: what this run holds, under the keys it took first.    *)
Retained(p) == {Entry(f, p.keys[f], p.slots[f]) : f \in p.sources}

MustWrite(p) == p.parsed # {} \/ Cardinality(Retained(p)) # p.stored_len

(* What other runs would have read has moved: they are not steady.         *)
Unsettled(moved) == [s \in Runs |-> IF moved[s] THEN [run[s] EXCEPT !.steady = FALSE, !.hot = FALSE] ELSE run[s]]

(* Mutant: the entries are added to those of the bundle.                   *)
BundleMerged(p) == bundles[p.context] \cup Retained(p)

(* The bundle is replaced.                                                 *)
NewBundle(p) == Retained(p)

(* write_parse_bundle_ref, atomic by its rename.  Of the run, only what    *)
(* the sweep needs is kept.                                                *)
WriteBundle(r) ==
  LET c == run[r].context
  IN /\ Parsed(run[r]) /\ MustWrite(run[r])
     /\ bundles' = [bundles EXCEPT ![c] = NewBundle(run[r])]
     /\ run' = [Unsettled([s \in Runs |-> run[s].context = c]) EXCEPT ![r] =
                  [Gone EXCEPT !.at = "sweep", !.context = c, !.steady = run[r].steady]]
     /\ warm' = warm \ {c}
     /\ UNCHANGED world

(* sweep_siblings: bundles of other contexts are never read again.         *)
Sweep(r) ==
  LET c == run[r].context
  IN /\ run[r].at = "sweep"
     /\ bundles' = [d \in Contexts |-> IF d = c THEN bundles[c] ELSE {}]
     /\ run' = [Unsettled([s \in Runs |-> run[s].context # c]) EXCEPT ![r] = Gone]
     /\ warm' = IF run[r].steady THEN {c} ELSE warm \cap {c}
     /\ UNCHANGED world

KeepBundle(r) ==
  /\ Parsed(run[r]) /\ ~ MustWrite(run[r])
  /\ run' = [run EXCEPT ![r] = Gone]
  /\ UNCHANGED <<world, bundles, warm>>

----------------------------------------------------------------------------
(* The environment.                                                        *)
Pass ==
  /\ clock < MaxClock
  /\ clock' = clock + 1
  /\ UNCHANGED <<fs, written, bundles, run, warm>>

Change(f, file) ==
  /\ fs' = [fs EXCEPT ![f] = file]
  /\ run' = Unsettled([r \in Runs |-> TRUE])
  /\ warm' = {}
  /\ UNCHANGED <<clock, bundles>>

Edit(f) ==
  /\ written < MaxVersion
  /\ written' = written + 1
  /\ \/ Change(f, Written(written', clock))
     \/ Exists(fs[f]) /\ Change(f, Copied(written', fs[f], clock))

Remove(f) == Exists(fs[f]) /\ Change(f, Missing) /\ UNCHANGED written

Die(r) ==
  /\ run[r].at # "idle"
  /\ run' = [run EXCEPT ![r] = Gone]
  /\ UNCHANGED <<world, bundles, warm>>

PowerCut(c) ==
  /\ bundles[c] # {}
  /\ bundles' = [bundles EXCEPT ![c] = {}]
  /\ run' = [r \in Runs |-> Gone]
  /\ warm' = warm \ {c}
  /\ UNCHANGED world

Work(r) ==
  \/ \E c \in Contexts, t \in {Stamp(clock), clock} : Begin(r, c, t)
  \/ ReadBundle(r) \/ WriteBundle(r) \/ Sweep(r) \/ KeepBundle(r)
  \/ \E f \in Files : TakeKey(r, f) \/ Parse(r, f) \/ SourceGone(r, f)

Next ==
  \/ \E r \in Runs : Work(r) \/ Die(r)
  \/ \E f \in Files : Edit(f) \/ Remove(f)
  \/ Pass
  \/ \E c \in Contexts : PowerCut(c)

Spec == Init /\ [][Next]_vars
----------------------------------------------------------------------------
TypeOK ==
  /\ clock \in 0 .. MaxClock /\ written \in 1 .. MaxVersion
  /\ \A f \in Files : fs[f].version \in 0 .. written /\ fs[f].ctime \in 0 .. clock
  /\ \A r \in Runs :
        /\ run[r].at \in {"idle", "read", "work", "sweep"}
        /\ run[r].parsed \subseteq run[r].sources
        /\ run[r].stored # {} => Unkeyed(run[r]) # {} \/ run[r].sources = {}

(* "Never an old parse result" (docs/dev/spec.ja.md 1896): a run never     *)
(* reports a version older than the one a file had when the run began,     *)
(* however coarse the timestamps, with copies that keep the mtime, files   *)
(* edited between the fingerprint and the parse, and other runs writing    *)
(* the same bundle.                                                        *)
NoStaleModule ==
  \A r \in Runs : \A f \in run[r].sources :
     run[r].slots[f] # 0 => run[r].slots[f] >= run[r].began[f]

(* A bundle tracks the project instead of growing with every edit          *)
(* (src/parser/parse.rs 388): one module for each source, so the hash of   *)
(* its key finds the module that was written with it.                      *)
OneModulePerSource ==
  \A c \in Contexts : \A e, g \in bundles[c] : e.file = g.file => e = g

(* A run over settled files that follows such a run undisturbed finds      *)
(* every module in the bundle: what a run writes back includes what it     *)
(* took from the bundle itself.                                            *)
WarmRunParsesNothing ==
  \A r \in Runs : run[r].hot /\ run[r].steady => run[r].parsed = {}
============================================================================
