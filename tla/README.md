# A verification development of chokkin

chokkin analyses a Python project and reports unused, missing, misplaced and
duplicate dependencies, unreachable files and unused symbols; `--fix` edits the
manifests. It is a batch program: one process reads a checkout, computes, prints
and exits. What is hard in it is not a protocol between servers but

* **fixpoint computations** (the walk over imports, names that travel through
  star imports) whose result must not depend on the order of files and imports,
* **threads** that share a cursor, with panics, refused threads, failures, and a
  promise that the result is that of a sequential run,
* two **caches on disk** and one in memory, shared by processes and walks that run
  at the same time as each other and as the user's editor,
* an **editor of the user's manifests** whose edits shift each other's targets,
  fail half-way, and are repeated,
* **reports that are compared across options**: `--baseline`, `--production`,
  `--strict` each promise something relative to a run without them.

This directory models those parts in TLA+, checks them with TLC on small
instances, and proves the central safety properties of eight of them for every
instance.
`PROJECT.json` lists components, runs, mutants, the source lines each definition
models, findings, hazards and theorems. Paths below are relative to `src/` of
the repository (`src/cache.rs` is `src/src/cache.rs` in `PROJECT.json`).

## 1. Inventory

The pipeline is `src/pipeline/analyze.rs`: load the configuration, probe the root
and the members of the workspace (manifests through the scan cache, sources by
walks that share their ignore files), scan the configuration of frameworks
(through the scan cache), parse the sources (in parallel, through the parse
cache), build the module index, resolve the imports, choose entry roots and mode,
walk the import graph, run the rules on dependencies and symbols, lower, override,
silence and filter the issues, apply the baseline and the fixes, set the exit
status. Components call one another in that order; they share state only through
the checkout, the cache directory and the threads of a pool.

| component | state it keeps | operations | what is hard | what makes it correct | status |
|---|---|---|---|---|---|
| reachability walk (`reachability/bfs.rs`) | queue, `reached` (class, predecessor, last class followed at), used modules, listed modules | seed, enqueue, follow, record an import, record a use | a file is reached again with a better class; cycles; two drains | least closed assignment of classes, traces that end, uses recorded once, termination | modelled |
| symbols (`rules/symbols/`) | star import chains, one index and one cache per worker, evidence of the tests | index references, follow star imports up and down, merge, look up, seek evidence, report | cycles, shadowing, `__all__`, modules that were not read; code that only tests reach | a name counts as referenced exactly if some chain leads to it; `--production` loses no finding of live code | partly |
| worker pool (`parallel.rs`) | cursor, batches, thread handles | spawn, claim, work, join, unwind, sort | threads refused, panics in any worker, out-of-order finish | equals the sequential map or unwinds; each item once; no thread outlives the call | partly |
| parse job (`parser/parse.rs`) | cursor, batches, failures | claim, parse, stop, join, merge, report | several failures at once; sources that vanish | the failure, panic or modules of reading one source after the other | modelled |
| parse cache (`cache.rs`, `parser/parse.rs`) | one bundle per context on disk; keys, slots, remaining bundle in a run | probe clock, read, fingerprint, drain, parse, write, sweep | coarse timestamps, mtimes that are kept, edits at any moment, other runs, power cuts | never an old module; a warm run parses nothing; the bundle does not grow | modelled |
| scan cache (`cache.rs`, `manifest/extract.rs`, `plugins/extract.rs`) | one record per unit: key, inputs, result | key, look up, verify, extract, fingerprint inputs, write, sweep | inputs known only after extraction; files that appear, vanish, change in between | what a hit returns is what a run without cache would find | modelled |
| manifest extraction (`manifest/`) | files read, files missing, include stack | parse, follow includes and constraints, keep extra files, watch | include cycles and diamonds, `-c` below `-r`, files cut short | every declaration once, in its context; errors as the includes say; all that matters is watched | partly |
| source discovery (`sources/`) | stack of ignore rules, shared memo of ignore files | walk, skip, descend, leave, prune | nested ignore files, links, walks that race each other and an editor | what git would ignore; walks over the same entries agree | partly |
| workspaces (`pipeline/probe.rs`) | results of root and members, cursor | walk the root, claim a member, join, drop members under `--production` | faults in several threads | the error a sequential probe meets; exactly the members that ship | modelled |
| automatic fixes (`fix/`) | plan, manifests on disk, temporary files | plan, contain, read, edit, write, rename, report | indexes shift, faults, kills, concurrent edits, repetition | exactly the planned entries go; the exit status follows the files; repeating ends | partly |
| dependency rules (`rules/deps/`) | the distributions found to be used, the weight of each misplaced one | collect, mark members, mark companions, CHK002, 003, 004, 005, 009, weigh an import | rounds of use; member and root both speak for an import, differently under `--strict`; rules that share a declaration | one rule per import; use is the least closed set; no dependence on the order of sites; a fix brings no finding | partly |
| issue filters, baseline, exit status (`rules/`, `baseline/`) | baseline file | lower, override, silence, filter, record, apply | order of the stages; runs under different options | a baseline silences what it lists and no more; a recorded run is clean; what is silenced is not edited | partly |
| unreachable files (`reachability/build.rs`, `rules/chk001.rs`) | surfaces, orphans | re-score, report | depends on the classes of the walk | only files no surface reaches | no |
| entry roots and mode (`entry/`), resolver, plugins, parser, configuration, reporters | none or a table | see `PROJECT.json` | mostly data and grammar | | no |

Section 6 says what of this is not modelled, and why.

## 2. Modules

```
ProjectFiles
   |     \
   |      StarImports
   |          |
   |      SymbolIndex ----------------+
   |                                  |
ReachModel --- ReachFixpoint          |                OrderedMap   (abstract)
   |               ^ implements       |                   ^ implements
   +-------- ReachabilityBfs --- AnalysisReport       ParallelFold
                |                 |        |           |        |
                |      AnalysisReport      |   MCParallelFold  ParallelFoldProofs
                |          Proofs          |
         MCReachabilityBfs --------- MCAnalysisReport  SequentialParse  (abstract)
                                                          ^ implements
IssueReport --- FixPlan --- FixApply --- MCFixApply    ParseJob --- MCParseJob
                               |                          |
                         FixApplyProofs               ParseJobProofs

FileStamps --+-- ParseCache --- MCParseCache
             |       |
             |   ParseCacheProofs       IgnoreRules --- SourceWalk --- WorkspaceProbe
             +-- ScanCache  --- MCScanCache                             |      |
                     |                              WorkspaceProbeProofs  MCWorkspaceProbe
                     |
              ManifestProofs
                     |
             RequirementsFiles --- MCRequirementsFiles

DependencyRules --- DependencyReport --- MCDependencyReport
                           |
                 DependencyReportProofs
```

**ReachModel, ReachFixpoint, ReachabilityBfs** — `run_reachability_bfs` and what
it calls. `ReachModel` has the classes (`Reach`: Reachable < Eager < Exposed <
Certain), the class one import site passes on (`edge_class`, `root_class`,
`plugin_ref_class`) and what a closed and a least closed assignment is.
`ReachFixpoint` is the promise: classes rise one at a time along seeds and sites
until nothing is owed. `ReachabilityBfs` is the walk itself: three seeding loops
and two drains of the queue (`stage`), the queue, `enqueue_file`, `Skip` for a
stale queue entry, `Follow` and the walk over a file's sites one at a time. A
file's sites are a list of edges in the order the three passes of
`record_file_imports` visit them; which edges an import has (the module, its
packages, submodules, literal prefixes) is input.

**StarImports** — `StarImports::sources`: from which modules a name reaches a
package through `from m import *`. `Ask` starts the walk up from all modules that
bind the name, `ClimbUp` is one module of it, `Turn` starts the walk down from the
package if the name arrived, `ClimbDown` is one module of that, `Answer` keeps the
binders that were met. Both queues are sets: the code's order is one of those the
model allows. `HandsOn` is `Exports::may_hand_on` with its four states of
`__all__`, `Shadows` a module's own definition of the name.

**SymbolIndex** — `ReferenceIndex`: modules are dealt to workers (`Take`), each
reference is recorded with the modules its name comes from (`RecordCached` from
the worker's own cache of walks, `AskSources` and `RecordAnswer` around one), the
partial indexes are united in any order (`Merge`), and a star-imported module that
was not read is asked about at the end (`Opaque`, `Lookup`).

**AnalysisReport** — walk and symbols composed, in one run of `analyze`:
`WalkOn` is a step of `ReachabilityBfs`; when it is done `StartReferences` indexes
the reached modules; under `--production` `Seek` collects the modules only the
tests reach, and `StartTestimony` indexes those and the tests; `ReportSymbols`
builds the registry and the public API and reports CHK006 and CHK007. Private
modules, package inits, wheels, library mode, conventions are sets in the record
`code`.

**OrderedMap, ParallelFold** — `map_on` and `fold_on`. The promise is a map that
returns all results in order or unwinds; the module has the shared cursor
(`fetch_add`), one batch per worker, `scope.spawn` that may panic for want of a
thread, panics in helpers and in the calling thread, joins in spawning order,
and the sort by index.

**SequentialParse, ParseJob** — `run_parse_job` and `run_worker`. The promise is
that sources are read one after the other up to the first that cannot be read, or
that the job unwinds. The module has the cursor, workers that stop at their first
failure and lose nothing they parsed, sources that vanish while the job runs,
parser panics, refused threads, the merge of the batches and `earlier_failure`.

**RequirementsFiles** — `parse_requirements_file_path` with its include stack, a
line at a time, and `read_extra_requirements`: `-r` and `-c`, remote paths, files
missing, unreadable, undecodable or outside the root, contexts that follow the
path, which extra files are kept, and what the cached manifest watches. The user
edits one file and the manifest is extracted again.

**IgnoreRules, SourceWalk, WorkspaceProbe** — `IgnoreRules` is git's rule for a
chain of directories; `SourceWalk` the walk with its stack of matchers, exclude
globs and links and the memo of ignore files that walks share (parsed outside the
lock, `Insert`); `WorkspaceProbe` the threads of the root and the members that
make those walks, their faults and panics, `Joined`, and `drop_dev_only_members`.

**IssueReport, FixPlan, FixApply** — `IssueReport` is what `emit_issues` does to
candidates: gaps lower, severities override, ignores and directives silence,
filters hide, baselines record and subtract. `FixPlan` is the analysis as operators: which
declarations there are in four places (`[project] dependencies`, a group,
`requirements.txt` and a `base.txt` it includes, which `requirements-dev.txt` may
include as well), which context each has, the findings CHK002, CHK003, CHK005 and CHK009
and the edit each asks for, the order of the edits and what one edit does to a
document. `FixApply` is the run around them: analyse, apply or record the
baseline, one edit at a time through
containment, read, edit, temporary file, rename, with the report and
`exit_status_after_fix`; then the command repeated until a run applies nothing.
Every entry carries a ghost origin, so that a property can tell *which* `a` went.

**DependencyRules, DependencyReport** — `rules/deps/` in a workspace.
`DependencyRules` has what is pure: the buckets of a declaration, the
declarations that speak for an import (`Indexed` with the extras a lockfile
lists, `MemberSatisfies`, `Governing`), the conditions of CHK002 to CHK005, the
evidence of lockfiles and the weight of a site (`Weigh`, `Absorb`, `Settle`).
`DependencyReport` is `reconcile_project`: `CollectUsed`, the rounds
`MarkMembers` and `MarkCompanions`, `Detect`, one site of CHK005 at a time
(`WeighImport`), and then `Fix`: what `--fix` plans for the certain findings
(removals, and the move of the one group entry of the manifest that governs),
applied to the manifests, which are analysed again. `FixPlan` has fewer rules
and more of the files; how an edit fails is `FixApply`'s part.

**FileStamps** — files under edit and their fingerprints: content versions, mtime
and ctime in steps of `Granularity`, `is_racy_mtime`, hash and stat fingerprints.

**ParseCache** — `parse_project_sources_with_cache`: a run probes the
filesystem's clock (`Begin`), reads its bundle, takes the key of each source and
the entry under it (`TakeKey`; `drain_cache` touches nothing others see and is
folded in), parses what is missing in any order, writes the bundle if anything
changed (`MustWrite`) and sweeps the bundles of other contexts. The environment
edits, replaces with the mtime kept, removes, kills and cuts power.

**ScanCache** — `extract_manifest_with_cache` and `cached_config_scan`, one after
the other in one run. The manifest unit fingerprints its inputs *after* the
extraction, since only then it knows them, the scan unit *before* the scan.
Extraction reads one file per step, so an edit may fall between any two reads.

Proof modules EXTEND the module they are about. The MC modules define the
projects, documents and options TLC is given.

## 3. Runs

| run | module, cfg | asks | size |
|---|---|---|---|
| `reachability` | MCAnalysisReport | walk: is the result the least closed assignment, whatever the order; do traces end and stay shortest; is each use recorded once; does it implement `ReachFixpoint` with its liveness. Symbols: are names followed through star imports exactly, is the united index exact, what does `--production` lose | 3,045 walks, 1,600 packages, 2 indexing workers |
| `production_loses` | MCProductionLoses | *violation*: a finding of a default run that `--production` drops | the same |
| `parallel_fold` | MCParallelFold | does the pool implement the ordered map, with panics and refused threads; does it end | 3 threads, 4 items |
| `parse_job` | MCParseJob | does the job end, and as if sources were read one by one | 2 workers, 3 sources, each cached, unreadable, vanishing or panicking |
| `parse_cache` | MCParseCache | never an old module, one entry per source, warm runs parse nothing | 2 runs over 1 source or 1 over 2, 2 contexts, 3 versions |
| `scan_cache` | MCScanCache | what a hit returns is current | 3 files, 2 changes |
| `scan_deleted` | MCScanDeleted | *violation*: a run over files nobody changes fails | 1 change |
| `scan_raced` | MCScanRaced | *violation*: the scan of an old manifest is served for the new one | 1 change |
| `requirements` | MCRequirementsFiles | do outcome and declarations follow from the include lines alone; is what matters watched | 5 paths, 6 x 2 x 5 x 7 x 6 trees, 1 edit |
| `probe` | MCWorkspaceProbe | do walks ignore what git ignores and agree with each other; is the error the sequential one; what ships | root, member, member within it; 2 threads; 1 edit |
| `fix` | MCFixApply | exactly the named entries go, additions land, used distributions keep what they install, the exit status is honest, what the settings or the baseline silence is left alone, a recorded run is clean, bystanders survive, repeating ends | 5,744 projects with command lines; 1 fault and 1 kill, or 1 insertion |
| `dependencies` | MCDependencyReport | is use the least closed set; does exactly one rule report an import that nothing covers; is CHK005 a function of the set of sites; does `--strict` keep findings; does a fix bring none | 12,392 projects, with and without `--strict` |

Why the bounds are enough to be interesting:

* *reachability*, walks: three files admit every cycle and a file reached first weakly
  and then strongly through another; the first file has two sites in either
  order, one plain and the other plain, lazy or optional, so every order of arrival
  occurs; the four classes all occur as final classes. A fourth file as a second
  entry root gives one file two traces of different length.
* *reachability*, packages: four files, one of them a root and one a test or a
  helper of tests. Three modules star-import each other in every way but in a cycle
  through the root; a name is defined in one or two of them, some list other names in
  `__all__`, and the root or the test refers to it: a chain of two star imports past
  a module that shadows or withholds the name is the shortest interesting one.
  Of two workers, each may read any of the modules. A module left out of the
  testimony is star-imported by one within it (`Opaque`). The packages are
  chosen, not enumerated; that `SourcesExact` holds for all code is proved.
* *parallel fold*: a helper may work on two items, finish before another starts,
  or never start; any subset of the four items panics.
* *parse job*: with three sources and two workers each worker may fail at a source
  of its own, and one may be past the failure of the other. Proved for any number.
* *requirements*: two lines in a file reach chains of four, a diamond (`r` and
  `x` both include `b`), a cycle through every file, and `-c` above and below `-r`.
* *probe*: four directories deep, with every verdict of a rule in each; an edit at
  every moment between the walks of the root and of a member; all combinations of
  faults of root and members; all graphs of dev and runtime use of three packages.
* *fix*: arrays of three entries make one removal shift the index of the next,
  two entries of one name under different specifiers make CHK009 choose, and
  `base.txt` is read once or twice. One fault and one kill in a sequence of
  repeated runs can hit every edit at every step. Five families of projects and
  command lines are multiplied out separately (failing, edited, gapped,
  recording, silencing), not with each other.
* *dependencies*: four families, multiplied out separately. Declarations: up to
  two entries of the root and one of a member, of every context, marked, opaque,
  including another group or requesting an extra, against nine sets of imports
  and lockfiles of root and member, so that an import is covered by name, by
  extra, by either manifest or by none. Special: entries that are what a
  metapackage is for, that a build environment or `--production` takes out of
  the comparison. Sites: two or three sites of one distribution, each with any
  of the signals CHK005 weighs, ignored or not, in every order. Use: four
  distributions, two of them members, one a companion of another and one a
  pytest plugin, so that use travels through three rounds of each kind.
* *parse cache*: with `Granularity` = `Window` = 2 and a clock to 2 there is a
  write in the same step of the timestamps as the probe, one in the step after,
  and a copy that keeps the mtime of either; three versions let a file change
  once between two keys and once between key and parse. One source is enough for
  staleness, which is about one file (and is proved for any number); what sources
  share, the bundle in memory and the write back, needs two: the action
  constraint `Narrow` gives two sources to a single run that begins with an empty
  cache and one edit, and one source to two runs. Runs and contexts are
  interchangeable: symmetry sets.
* *scan cache*: two changes can edit and remove, or create and edit, each at
  any point of two consecutive runs. One process slot is enough since processes
  that follow each other share the records exactly as overlapping ones do; two
  slots with one change were explored as well, without error.

Deadlock is checked in the runs of the walk, the pool, the parse job, the probe,
the dependency rules and the fixes, where a final state stutters explicitly; the
cache models may stop when the bounds on clock and versions are used up and
every process is gone, and the requirements model when the second extraction has
ended.

**Fairness.** The walk and the report after it are one thread that runs on (the
indexing workers run until they are joined): weak fairness of `Next`. In the
pool, weak fairness of every thread that the system started (the operating
system schedules it) and of the caller; none for `SpawnFails`; the same in the
parse job. In `RequirementsFiles`, weak fairness of the extraction and none of
the edit. In `FixApply`, weak fairness of `Progress`: the process runs on, and
*the user repeats the command* until nothing is applied, which is what `Settles`
is about; faults, kills and edits never have to happen and are bounded by the
`limits` of a command line. The caches, the walks over the file tree, the probe
and the dependency rules are checked for safety only.

## 4. Proofs

TLC has checked each formula below on the runs above first.

**`AnalysisReportProofs`**, *the walk*, assumes only that a project is well formed
(`ProjectsAssumption`) and `NoFile` is no file. `LeastWhenDone` is not inductive:
during the walk the assignment is not yet closed. `ClassInv` adds what the walk
owes: a file whose class exceeds the class it was last followed at is in the queue
(`QueueInv`); the sites of a file passed on at least what it was followed at,
except those of the current file from `next` on (`SitesInv`); the seeds of past
loops hold (`SeedsInv`); and every class is at most that of any closed assignment
(`Justified`). Each action preserves each conjunct; at "done" the queue is empty,
so the assignment is closed and least. Results: `TypeCorrect`,
`WalkComputesLeast`, `TracesEnd` (indexes decrease along predecessors),
`FollowBound` (a file is followed at most four times, the comment of the code) and
`WalkRefinesFixpoint` (every step is a rise of `ReachFixpoint` or a stutter).
A file may be followed four times, yet `UsesRecorded`: each of its uses is recorded
once. `UsesInv` says which are recorded so far: all of a file that has been followed
(`Yielded`), except those from `next` on while its *first* following lasts.
All of these, and the next, are theorems of the walk alone (`Spec`) and of the
analysis it is the beginning of (`AnalysisSpec`): a step of the report leaves the
variables of the walk as they are (`Walks`, `EveryWalk`).

*The traces* need that there are finitely many files (`FilesAssumption`). That a
trace is as short as any chain of import sites is not obvious of a walk that is
breadth-first only in part: a file is queued again whenever its class rises, and the
framework-glob files come when the walk from the entry roots is over. `OrderInv` is the
order of arrival that survives this: a file that arrived earlier has been followed
or is ahead in the queue (`AheadInv`), so files are *first* followed in the order of
arrival and their predecessors ascend with it (`PredsInv`); what a followed file
imports arrived from it or from a file before it (`LinksInv`). All this holds
of the files that the entry seeds lead to and of the others, each on their own;
`InEntry` tells them apart by closed sets, and what the walk from the entry roots has
followed when it is over is such a set (`DrainedIsEntry`). At the end, a trace and any
other chain are compared from the file backwards: the predecessor arrived no later
than the file of the chain that is as far away, so the chain cannot reach a
seed, which has no predecessor, before the trace does (`WayIsShortest`).
Result: `TracesShortest`.

*The symbols*: nothing is assumed of the star imports but their types: any
files, cycles, definitions and `__all__`. The answer is compared with `Gets`, a
second-order definition: a name gets from a module to another if the other is in
every set that holds the first step and is closed under `Carries`. That the walks
add nothing is an invariant (`DownInv`: whatever the walk down carried gets the name
to the goal, by `OneStepDown`). That they miss nothing needs sets: if the name did
not arrive, the climbed modules with those that hand nothing on are closed and
lack the goal (`NothingArrives`); if a climbed binder was not carried, those that
were not carried are closed (`AllCarried`). Result: `SourcesCorrect`, the comment of
the code that two shared walks are "the same as `StarChain::reaches` from each
binder".

*The index* (`IndexInv`) assumes no more of a project's code than the types of
`IsAnalysed`. Every reference of a module that was read is still to be recorded, or
what it touches is marked, in the index of some worker or in the united one
(`MarksComplete`); nothing is marked but for such a reference (`MarksFounded`); and
what a worker cached of a star walk is what another walk would answer
(`CachedInv`), which is `SourcesCorrect` in the step that records an answer
(`AskedFor`: the walk under way was asked for the reference being recorded).
A module that was not read has no sources, so its names are looked up along
`StarChain::reaches` when the index is whole. The chain is walked in at most as many
rounds as there are files; that it is walked to its end then (`Saturates`) is a count:
up to the first round that adds nothing, each adds a file (`Rounds`, the least round
of which this fails; `LeastNatural`). `IndexIsExact` puts both together, and
`ReportInv` carries it through the composed specification: the index is built from
nothing twice, of the reached modules and of what vouches. Result:
`ReferencesCorrect`, of `AnalysisSpec`.

*The report* assumes of a project's code, besides the types, two things that
the parser ensures (`CodesOfAssumption`): a module binds what it defines, and a file
imports what it refers to (`Imports`): references and star imports come from
the import statements that `record_file_imports` goes through, so the walk follows the
file to them. `HeardInv` and `EvidenceInv` say what is known once the walk is over: the
set `reached_from_tests` finds is the least that its queue can end in, and each index
holds the references of exactly the modules it was made of. `ProductionReportsMost`
compares this with the report that a default run *would* give, which is a second
set of modules over the same code, so the operators of `SymbolIndex` are restated
for any code and any set of modules read (`GetsIn`, `UsesIn`). Reading more modules
loses no reference to a symbol of a module that was read before (`MetMore`, `UsesMore`). A default run reaches a set of files that is closed under
import sites (`IsFollowedUp`), so whatever chain or reference begins in it stays in
it (`GetsTraced`, `UsesTraced`): what vouches for a name in the testimony and
lies within the default run is said there too (`LostIsVouchedFor`). What is left are
the two exceptions the property names (section 5). Results: `AnalysisInvariant`,
`ProductionReportsMostCorrect`.

**`ParallelFoldProofs`** assumes that the number of items is a natural number and
the caller is no helper. `FoldInv`: items in hand and in batches are below the
cursor (`ClaimInv`), no two coincide (`HandedOutOnce`), every index below the
cursor is in a batch, in hand, or lost to a panic that somebody will report
(`Accounted`), the caller knows of every helper that was started (`PoolInv`), and
what a return means (`ReturnInv`). Results: `EachItemOnce`, `AllHelpersStopped`,
`NoItemLost`. With what a worker has in hand above all it has done (`ItemsAscend`)
follows `WorkersAscend`, the comment of `fold_on`. `FoldRefinesMap` shows that the pool
implements `OrderedMap`, all but its liveness. Only the last step of a call is seen by the
caller. If it returns, no item has panicked, since each is in a batch and a batch holds
only items whose work did not (`OriginInv`); a batch has a place for each item and
for no item two (`PlacesAreItems`), so sorting the places by index puts each at its own
index (`AscendingIsIdentity`), whatever order they came in. If it unwinds, a panic or a
refused thread was the cause (`OriginInv`).

**`ParseJobProofs`** assumes that the number of sources is a natural number and that
there is a worker. `JobInv`: every outstanding source below the
cursor is read, in hand, failed, or at a worker that unwound (`AccountedInv`); a
worker's batch ascends and ends before its failure (`BatchInv`); what the caller
has merged so far is from the workers it has already joined, and its failure the
least of theirs (`CallerInv`). A claim only moves the cursor forward, so a failure
at source *i* leaves no source below *i* unclaimed, and whoever claimed an earlier
one has read it or failed earlier still (`FirstErrorIsEarliest`). Results:
`EarliestFailure`, `NoWorkerSurvives`, `DeliveryInOrder` and `RefinesSequential`
(each step of the job is a step of `SequentialParse` under the mapping, or a
stutter).

**`ParseCacheProofs`** assumes that the window covers the granularity of the
timestamps (`WindowAssumption`) and that the bounds are natural numbers.
`NoStaleModule` alone is not inductive: an old module could sit in a bundle.
`CacheInv` says why it would not be found. A key that was taken once is *old*
(`KeyIsOld`): a hash key holds a version already written, a stat key a ctime a full
window in the past, so neither fits any version written from now on
(`OldKeyFitsNoEdit`, the step that needs the window). Hence every entry of a bundle,
of a bundle in memory and of a run stays *usable* (`Usable`): if its file still
exists under its key, its module is as new as the file. Each change of the world
keeps these facts (`ChangeKeeps`, `PassKeeps`) and each step of a run keeps them
for what it holds and writes. Results: `NeverStale`, `OneEntryPerSource` and
`CacheTypeCorrect` (with `TypeInv`: a bundle in memory is dropped once every source
has been looked up), for any number of files, runs and contexts. `WarmRunsParseNothing`
needs one more invariant, `WarmInv`: a run all of whose sources are settled takes
stat keys that still fit, so the bundle it leaves *covers* the files (`Covers`: a
module for each of them, under the key any later run takes), whether it wrote that
bundle or kept the one it found; no change of the world but a pass of time leaves
a bundle marked warm, and a run that begins then finds all it looks up.

**`ManifestProofs`**, *the scan cache*, makes the same assumptions. The argument has
two parts. A fingerprint that was taken once never fits a state the file takes later
(`IsOld`, `Fits`), so where the fingerprint fits still, what was read since is what
the file is (`Tells`). But the key of a record, and the inputs of a scan, are taken
*before* the files are read, and a file may change in between: what a run finds
under the fingerprints it holds need not be what it would read now. `Agrees`
(in `AgreementInv`) says what it is: a version the file had while the run held these
fingerprints. `RecordsInv` says this of the records on disk, `RunsInv` of each run
at each of its steps, and every change of the world keeps both. Results:
`ManifestNeverOutdated`, `ScanNeverOutdated`.

*The requirements files* assume that the names are paths (`RootsAssumption`), that a
file without text has no lines and tries only paths (`StatesAssumption`), and that no
context is a path (`ContextsAssumption`). The parser goes through the includes depth
first with a stack and no memory of the files it is done with, so a file that is included
twice is read twice, and only a file met on the stack is an error. The properties
speak of the include lines alone: what a file leads to is the least set closed under
them (`ReachedFrom`). Between them stands `ExtractInv`. A file that is done is `Whole`: nothing
it leads to is at fault, and every line below it has been taken in for what the last
include makes of it. `FrameInv` says of each open file that it is taken in up to its
line and the files it included are whole, but for the one that is open above it;
`LinkInv` that this one is what that line leads to, in the mode it names. So each
open file leads to all above it (`ChainInv`), and a file met on the stack closes a
cycle; conversely a file is on no cycle if none of those it includes is
(`SoundFacts`), which is why it is enough to look at the stack. `RootInv` says
that nothing is taken in for what it is not, and `SourcesInv` what is left of it
all when a root is done: the fixed names done so far are whole in `sources`, and an
error ends the extraction for a fault that one of them leads to. `GroupedInv` is about
the extra files, whose entries are grouped only where no fixed name led to the
file. Results: `ExtractTypeCorrect`, `OutcomeCorrect`, `LastIncludeCorrect`, `DeclaredOnce`.

That a warm run notices an edit (`WarmRunNoticesMostEdits`) compares two extractions,
of which the second is of another disk. The proof runs them side by side. Where an
extraction is, disk apart, is its `Moment`, and what it does next is a function of the
disk (`After`): the one choice the specification leaves, the order of the extra
files, is none, since a set of positions has one increasing enumeration (`OneOrder`).
A step looks at few files: on any disk that agrees with this one on what is covered so
far (`Depended`: the fixed names, what was read or missed, and the files outside the
project) the step is the same (`ParseIsAfter`), and what is covered only grows until the
extraction fails (`CoverGrows`). So while the first extraction runs there is a set of
moments that any such disk leads through (`Traced`), and after an edit of nothing
that was covered the second never leaves this set (`Retraced`) and ends where
the first did. `WarmInv` carries this through the edit; what is watched, or excepted as
left unwatched, is all that the first depended on. Result: `WarmRunNoticesMostEditsCorrect`.

**`WorkspaceProbeProofs`** assumes that there is at least one thread and that
projects are well formed (`ProjectsAssumption`: the root has been read when the
probe begins, a panic is of a thread, each directory has the ignore file and the
entries it may have). Every member below the cursor has a
result or is with exactly one worker (`MembersInv`), and a result follows from the
fault of the member alone (`WorkersInv`), so the report depends on no order. That
`--production` follows the shipped members one at a time is `FollowInv`: what is
shipped lies in every closed set, and what a shipped member needs is shipped or
still to be followed. Results: `ReportFollowsFaults`, `DroppedAreDevOnly`.

The walks need of the tree that every set of entries has one whose parent is
outside it (`TreeAssumption`: following parents ends at the root), of the
readings of an ignore file that none is the mark for "not read yet"
(`ReadingsAssumption`), and that walks begin at directories. From the first follows
that every directory has one path from the root (`PathExists`, `PathUnique`) and that
the recursive function `PathTo` is that path (`PathEquation`), by taking a
counterexample no parent of which is one (`TreeInduction`) and the least number of a
set (`LeastNatural`), so without the library's induction theorems. `WalksInv`, which
all three properties follow from, has four parts for each walk: it asks the cache for
the directory it enters and for those above its root in order (`AsksInOrder`); what it
holds is what the cache has, and what is there stays (`HasRead`, with `MemoGrows`, a
fact about every step); the directories it has open, and those whose rules it has
pushed, lead down from its root (`Descends`); and every verdict it has passed is git's
over rules that are all read (`HasJudged`). The step that takes an argument is a
verdict: the stack may be too deep or too shallow for the entry, since it is
adjusted only when the next entry is judged; popped and pushed it is the chain from
the root of the walk to the parent of the entry, whatever it was before
(`SyncedFacts`), and `gitignore_skips`, which goes through that chain from its
end and then through the ancestors up to a repository, decides as git does,
which goes from the outermost directory inward (`SkipsAgree`). Results: `ReadingIsShared`,
`GitIsFollowed`, `WalksAgreeInRepository`, for any tree, any walks and any edits.

**`DependencyReportProofs`** assumes that the projects are workspaces
(`IsWorkspace`: which member owns what, and what a declaration may be) and that the
root is no member (`OwnersAssumption`). Nothing changes project or manifests while a
project is analysed, so whatever a rule made of them it still makes of them
(`DeclarationsStay`, `RulesStay`); `Fix` starts over. On this rest six invariants.

* `IssuesInv`: in each phase the findings are those of the rules that have run, so the
  edits planned from them are of entries that are there (`TypeCorrect`).
* `WeighedInv`: what is known of a distribution to be moved is what its sites so far
  say *together* (`SitesTogether`): the sites that are not ignored decide, or all if
  every one is. The fold passes from one to the other when it meets the first that
  is not ignored, and forgets what it had. With the end of the list (`AtInv`): `WeighedTogetherCorrect`.
* `UsedInv`: what is used lies in every closed set, a member that is done has passed on
  what its tree imports, and after the rounds nobody is left to mark, so what is used
  is itself closed: `UsedIsLeastCorrect`.
* `ReportInv`, their conjunction, relates what the rules say of one import.
  `OneVerdictCorrect` is a case distinction over who governs it; for
  `StrictKeepsMostCorrect` each finding of a default run is followed to the strict
  run (`UnusedStays`, `UndeclaredStays`, `MisplacedStays`), where a runtime import of a
  member either keeps its finding or is governed by the member's own entries,
  which makes it CHK005. The proof brought up the import whose comment ignores
  CHK005 alone (section 5); the run has such projects since.
* `SpreadInv`: what comes out as used is the least set that the two phases of the
  marking end in (`Enough`), members found last included, which `UsedInv` has to
  except. So what is used can be compared over a fix: nothing of it is removed,
  hence it is used afterwards too (`UsedAfter`).
* `FixedInv`: whatever the rules say of the manifests after a fix, given any set that
  may come out as used, is accounted for by a finding before the fix or by one of the
  exceptions, and nothing that was moved is misplaced. It speaks of no finding, so
  the analysis that follows preserves it. That a fix establishes it is shown lookup
  by lookup (`IndexedAfter`, `DeclaredAfter`) and rule by rule (`UnusedAfter`,
  `MissingAfter`, `UndeclaredAfter`, `MisplacedAfter`). Result: `FixesAddLittleCorrect`.
  The property was false before: the proof brought up the build requirement that is
  moved (section 5), and the run has such projects since.

**`FixApplyProofs`** assumes that projects are well formed (`ProjectsAssumption`)
and no more: any manifests, imports, gaps, settings and baselines, any number of
faults, kills and insertions. Its parts build on each other.

* `TypeInv` and `IssuesInv`: documents stay documents, and a run that is past the
  analysis goes by the findings and the plan of what it loaded. From this alone
  follow `FixTypeCorrect`, `TempsNeedCrash` and `NothingTwice` (a gap that reaches
  CHK003 lowers it below what is edited).
* `BaselineInv`: a baseline holds what its manifests and settings report. Runs
  without `--strict` report no more than runs with it (`LaxerFindsLess`), hence
  `RecordedIsClean`.
* `KeepsInv`: what no edit names stays, in the manifest *and* in the text that is
  about to replace one; this is all that is left when the user edits as well
  (`BystandersLive`).
* `EditInv`: where nobody else edits, each manifest `Follows` what was loaded:
  its entries are those that were loaded, in order, less the removals made, with
  the additions at the end; and each pending removal is *in position*, since no
  removal made so far was below it (`InPosition`). This is where the order of the
  edits matters: without it the invariant is not preserved by a removal. Results:
  `NamedEntriesGo`, `AdditionsStay`, `SilencedStays`.
* `ExitInv` connects the findings with the edits applied (`SuccessIsEdited`).
  `UsedKeep` needs no more invariant but an argument over the plan: a gap keeps what
  unread input may use out of CHK002 (`UsedIsNotUnused`), so all that goes of a used
  name is the one line CHK009 chose, and that only where a declaration of the same
  specifier stays in each of its contexts (`OnlyTheDuplicateGoes`).
* `PreviewInv`: a run under the options of a preview, over the same manifests, has
  the same plan (`PlanUnder`), and an edit that is in position is not refused
  (`PreviewIsKept`).

So every safety property of the passing runs is proved for every instance, and only
liveness is left to TLC. Five of the theorems have no run of their own.
`EarliestFailureReported` and
`DeliveredInOrder` follow from the refinement that the run `parse_job` checks;
`HandedOutOnce`, `NoWorkerOutlivesJob` and `TempsOnlyAfterCrash` are proved for every
instance, and TLC does not check them again on a small one.

Only model-checked: liveness, which is out of the prover's reach. These are the
termination of the walk, the pool, the parse job and the extraction, `Settles`, and
the half of `ImplementsFixpoint`, `ImplementsSequential` and `ImplementsMap` that says
that the end is reached.

## 5. Findings

1. **A deleted constraints file fails every later run** (`scan_deleted`).
   Verifying a hit fingerprints the files the cached manifest was read from, and
   fails if one is gone; extraction without the cache would warn.
2. **A scan of the old manifest under the new key** (`scan_raced`). The scan's key
   is taken from the manifest files when the scan starts, not when the manifest
   it uses was extracted; an edit in between is recorded as already seen.
3. **`--production` drops a finding of live code** (`production_loses`). The
   changelog (`CHANGELOG.md:454`) and `docs/dev/spec.ja.md:1192` say that a CHK006
   of a default run disappears under `--production` only when its file becomes
   CHK001, since what vouches lies within what a default run reaches. But every
   held-back test vouches, also a helper of tests that no default entry root
   reaches. `ProductionReportsMost` says that nothing is lost but to such files and
   in one more way: the testimony is indexed without the module that defines the
   name, so that module counts as one without `__all__`, and a star import that
   its `__all__` forbids clears the name.

Observed while modelling, and left without a run of its own:

* A preview promises what the run refuses. The preview checks
  containment only; removal of a line of a requirements file that pins hashes is
  shown as planned and then refused. The comment at `src/fix/apply.rs:145` and
  `docs/dev/spec.ja.md:1258` say a preview never does that.
  `PreviewKeptUnlessPinned` excepts such files.
* `tests/prop_fix_converge.rs:2` says "a fix removes the issues it applies and adds
  none". `FixesAddLittle` holds with three exceptions. (a) `pkg[extra]` is declared,
  only what the extra adds is imported: `pkg` is CHK002 and certain, the fix
  removes it, and the import is then CHK003, CHK004 or CHK005 (`BroughtExtra`).
  (b) Under `--strict`, an import of a member that only the root's dev group declares
  is CHK005; the fix moves the entry in the root, and the member's import is then
  CHK003 (`MovedToRoot`). (c) Under `--strict`, removing the build requirement of a
  group that exports the build environment, or moving it to the runtime list, makes
  the pins of that group unused (`MadeBuildGroup`). Removing an entry may also turn CHK004 into a weaker
  CHK003 for an import whose only lock edge it was, and of two unused entries of one
  name each run reports and removes one.
* `tests/prop_workspace_mode.rs:411` says "`--strict` keeps every finding of the
  default run". A runtime import of a member that declares it for development only,
  not declared by the root, is CHK003 by default and only CHK005 under `--strict`,
  where the member's own entries govern. If a comment at the import ignores CHK005
  alone, the strict run says nothing of it. `StrictKeepsMost` excepts both.
* The comment in `reconcile_project` on the members, "Last of the evidence a
  member can have", is not quite so: companions are marked after it, so a local
  member that is a companion does not pass the imports of its tree on
  (`CompanionMember`).
* With `--strict --production`, an unused entry of a dev group hides an entry
  of an optional extra of the same name that is loaded after it:
  `report_order` sorts as for a run without `--strict`, where neither is reported.
* CHK002 and CHK009 may ask for the same line; the two edits carry their rules and
  differ, so both are planned, the second is skipped, and under `--strict` the exit
  status says "issues" although the file is right (`src/fix/plan.rs:121` says the
  first edit resolves both). The model has this behaviour.
* The files read for an extra requirements file that failed or was cut short and
  declared nothing are dropped (`read_extra_requirements`), so mending one of them
  goes unnoticed by a warm run. `WarmRunNoticesMostEdits` excepts exactly these.
* `StarChain` takes the module a star import names as written, where other
  references go through `sibling_module` and symbolic links first.

## 6. What is left out

Abstractions in what is modelled:

* *Reachability*: which edges an import has; contexts, library mode and conditions
  of a site are input.
* *Symbols*: a file stands for its module and each has one name, so sibling modules,
  symbolic links and two files of one module name are left out, as are attribute
  chains and dynamic imports as ways to make a reference (a reference is a module
  and a name). Which names conventions, plugins, entry points and strings use is
  one set (`outside`). Modules are read one at a time although workers overlap:
  a worker shares nothing before the merge. The edges of `reached_from_tests` are
  those of import sites. CHK010 (unresolved imports) and severities are left out.
* *Parse job, pool*: what a result is; `join`, whose two stages share nothing, and
  `drop_in_background`, whose result nobody awaits.
* *Requirements files*: a path stands for the file it leads to; warnings and
  the grammar of a line are left out; edits during an extraction are `ScanCache`'s.
* *Walks*: patterns and globs are given by what they say of an entry; layout and
  contexts of the files that are found are left out. Ignore files are edited while
  walks run, the tree itself is not.
* *Issues*: gaps of CHK001, CHK006, CHK008 and CHK010, workspace members,
  deprecated shims, globs and `--explain` are left out.
* *Dependency rules*: which distribution an import has, what configuration uses and
  which files are reached are input; a lockfile that lists nothing counts as none;
  specifiers, and which requirement forms can be moved, are one flag (`movable`).
  CHK008 (binaries), scripts with inline metadata, the removal of files that a fix
  orphans and `--add-missing` are left out; CHK009 is `FixPlan`'s.
* *Fixes*: no lockfile (CHK004), so declarations and imports match by name; all
  imports are top-level, in runtime files; only static `[project]` dependencies,
  groups and requirements files, not `setup.cfg`, Poetry tables, workspace
  members, scripts, or the removal of files; metapackages and platform markers
  are left out; additions are unordered among themselves (the code orders them by
  the position of their imports). A user's edit that falls between the read and the
  rename of its file is lost, by the code and in the model: `BystandersSurvive`
  excepts that moment (the ghost `inserted`).
* *Caches*: a version is never written twice, so a file that returns to earlier
  bytes is excluded; one clock, whereas the configuration scan judges by the local
  clock (`src/plugins/extract.rs`) what the comment at `src/cache.rs:59` says must
  be judged by the filesystem's; parsing a version yields that version. In the
  scan cache a file is not removed twice, and an include edited between extraction
  and fingerprint is excepted from `ManifestIsCurrent` by the ghost `raced`: the
  code leaves that race open.

Not modelled, and by far the larger part of the lines: the parser and its visitors,
the readers of framework configuration, the manifest grammars and the evaluator of
`setup.py`, reporters and the command line (grammars, formats and tables over
syntax trees and text, without state a model checker could explore; what they
yield is input to the modules above); the bundled maps (data); the resolver, a
pure function of an import and an index.

## 7. Plan

Done, in this order: walk, pool, fixes, parse cache, scan cache, with proofs of the
walk, the pool and the parse cache; then the parse job with its refinement and
proofs, requirements files, the walks and the probe of a workspace, the report of
issues with baselines and settings, and the symbols composed with the walk, with
the proof of the star imports; then the proofs of the scan cache, the probe and the
fixes; then the dependency rules in a workspace; then the proofs of those rules, of
warm runs, of the walks over the file tree, of the uses, of the index, of shortest
traces, of the pool's refinement, of requirements files and of what a fix brings; last
those that compare two runs, of what `--production` reports and of the edits a warm
run notices, and the walk's under the composition with the symbols. Next, in order of
importance:

1. `OrphanReport`: surfaces and orphans (`reachability/build.rs`) over the
   classes of the walk, CHK001 and its confidence, composed with `AnalysisReport`.
2. `ProjectMode`: entry roots and the mode of a project and its members.
3. CHK008 and scripts with inline metadata in `DependencyReport`.
