------------------------------ MODULE FixApply ------------------------------
(***************************************************************************)
(* A run of chokkin (src/pipeline/analyze.rs, src/fix/apply.rs): analyse,  *)
(* go by the baseline or record one, plan, apply the edits one at a time,  *)
(* set the exit status; and the command repeated until a run applies       *)
(* nothing.  An edit reads its manifest, changes the text, writes it to a  *)
(* temporary file beside the manifest and renames that over it, and so is  *)
(* the baseline written.                                                   *)
(*                                                                         *)
(* The environment may fail a read, a write or a rename, kill the process  *)
(* at any point, and insert an entry into a manifest at any moment (a user *)
(* with an editor).  A preview (--dry-run) goes through the same plan.     *)
(***************************************************************************)
EXTENDS FixPlan

CONSTANTS
  Projects,     \* pairs of a manifest, a function from Places to sequences of
                \* [name, spec], and [imports, unseen, shared, settings, fix,
                \* addMissing, dryRun, baseline, hashed, outside, limits], where
                \* baseline is "none", "update" or "use"; bound: limits says how many faults (failed
                \* reads, writes and renames), crashes and edits there may be
  Specs,        \* what a requirement may say of a distribution
  NewName       \* the distribution the user's editor inserts

Entries == [name : STRING, spec : Specs, from : (Places \cup {"start", "user", "fix"}) \X Nat]
Documents == [Places -> Seq(Entries)]

Settings ==
  [strict : BOOLEAN, noExit : BOOLEAN, floor : {Unset, Maybe, Likely, Certain},
   rules : SUBSET Rules, off : SUBSET Rules,
   levels : UNION {[on -> {Info, Warning, Error}] : on \in SUBSET Rules},
   ignored : SUBSET (Rules \X STRING), silent : SUBSET (Rules \X STRING)]

Options ==
  [imports : SUBSET (STRING \X STRING), unseen : SUBSET [kind : GapKinds, name : STRING],
   shared : BOOLEAN, settings : Settings, fix : BOOLEAN, addMissing : BOOLEAN,
   dryRun : BOOLEAN, baseline : {"none", "update", "use"}, hashed : SUBSET Files,
   outside : SUBSET Files, limits : [faults : Nat, crashes : Nat, edits : Nat]]

ASSUME ProjectsAssumption ==
  /\ NewName \in STRING /\ {"any", "unread"} \subseteq Specs
  /\ \A p \in Projects : p[1] \in Documents /\ p[2] \in Options

VARIABLES
  disk,         \* what the manifests hold, a document
  options,      \* the command line and the surroundings of the run
  loaded,       \* the document the analysis read
  baseline,     \* the baseline file, as a set of at most one: what it records, and
                \* as ghosts the manifests and the settings it was recorded under
  issues,       \* the findings reported, less those the baseline silences
  plan,         \* the edits planned
  applied,      \* the edits reported as applied (or planned, for a preview)
  skipped,      \* the edits reported as skipped
  current,      \* the edit in progress, as a set of at most one
  text,         \* the document the edit in progress will write
  temps,        \* temporary files on disk
  exit,         \* the exit status: "none", "success", "issues" or "error"
  promised,     \* the edits the preview before this run showed
  budget,       \* faults, crashes and edits so far
  inserted,     \* ghost: the places the user inserted an entry into during this run,
                \* other than of the file between its read and its rename
  pc            \* "analyse", "record", "install", "apply", "write", "rename", "done"
                \* or "crashed"

doc  == <<disk, loaded, text>>
found == <<baseline, issues>>
vars == <<disk, options, loaded, baseline, issues, plan, applied, skipped, current, text,
          temps, exit, promised, budget, inserted, pc>>

----------------------------------------------------------------------------
(* The ghost origin of every entry: where the analysis finds it.           *)
Tagged(d) == [p \in Places |->
                [i \in DOMAIN d[p] |->
                   [name |-> d[p][i].name, spec |-> d[p][i].spec, from |-> <<p, i>>]]]

Analysis == [manifest   |-> loaded,
             imports    |-> options.imports,
             unseen     |-> options.unseen,
             shared     |-> options.shared,
             settings   |-> options.settings,
             addMissing |-> options.addMissing]

Pending == plan \ (applied \cup skipped)

IsNext(x) == x \in Pending /\ \A y \in Pending : ~ AppliesBefore(y, x)

(* Containment: the target resolves inside the project root.               *)
Contained(x) == FileOf[x.place] \notin options.outside

EditsLeft(kind) ==
  CASE kind = "fault" -> budget.faults < options.limits.faults
    [] kind = "crash" -> budget.crashes < options.limits.crashes
    [] kind = "edit"  -> budget.edits < options.limits.edits

NoBudget == [faults |-> 0, crashes |-> 0, edits |-> 0]

----------------------------------------------------------------------------
Init ==
  /\ \E project \in Projects : disk = project[1] /\ options = project[2]
  /\ loaded = disk /\ text = disk /\ baseline = {} /\ issues = {}
  /\ plan = {} /\ applied = {} /\ skipped = {} /\ current = {} /\ promised = {}
  /\ temps = 0 /\ exit = "none" /\ budget = NoBudget /\ inserted = {}
  /\ pc = "analyse"

Stripped(d) == [p \in Places |->
                  [i \in DOMAIN d[p] |-> [name |-> d[p][i].name, spec |-> d[p][i].spec]]]

Load == disk' = Tagged(disk) /\ loaded' = disk' /\ text' = disk'

Planned(a, findings) == IF options.fix THEN PlanFixes(a, findings) ELSE {}

Prints == UNION {b.prints : b \in baseline}

(* Mutant: the plan is made before the baseline is applied.                *)
AnalyseFixingAll ==
  /\ pc = "analyse"
  /\ Load
  /\ LET a == [Analysis EXCEPT !.manifest = disk']
     IN  IF options.baseline = "update"
         THEN issues' = Findings(a) /\ plan' = {} /\ pc' = "record"
         ELSE /\ issues' = IF options.baseline = "use" THEN Unrecorded(Prints, Findings(a))
                                                       ELSE Findings(a)
              /\ plan' = Planned(a, Findings(a)) /\ pc' = "apply"
  /\ UNCHANGED <<options, baseline, applied, skipped, current, temps, exit, promised,
                 budget, inserted>>

(* Steps 1 to 12, what the baseline leaves of the findings, and the plan   *)
(* they lead to.  A missing baseline silences nothing.                     *)
Analyse ==
  /\ pc = "analyse"
  /\ Load
  /\ LET a == [Analysis EXCEPT !.manifest = disk']
     IN  IF options.baseline = "update"
         THEN issues' = Findings(a) /\ plan' = {} /\ pc' = "record"
         ELSE /\ issues' = IF options.baseline = "use" THEN Unrecorded(Prints, Findings(a))
                                                       ELSE Findings(a)
              /\ plan' = Planned(a, issues') /\ pc' = "apply"
  /\ UNCHANGED <<options, baseline, applied, skipped, current, temps, exit, promised,
                 budget, inserted>>

(* write_baseline, before any edit; a preview records as well.             *)
WriteBaseline ==
  /\ pc = "record"
  /\ temps' = temps + 1
  /\ pc' = "install"
  /\ UNCHANGED <<doc, found, options, plan, applied, skipped, current, exit, promised, budget,
                 inserted>>

InstallBaseline ==
  /\ pc = "install"
  /\ baseline' = {[prints |-> Recorded(options.settings, issues), of |-> Stripped(loaded),
                   under |-> options.settings]}
  /\ temps' = temps - 1
  /\ plan' = Planned(Analysis, issues)
  /\ pc' = "apply"
  /\ UNCHANGED <<doc, options, issues, applied, skipped, current, exit, promised, budget, inserted>>

(* A baseline that cannot be read or written ends the run before any edit. *)
BaselineFails ==
  /\ \/ pc \in {"record", "install"}
     \/ pc = "analyse" /\ options.baseline = "use" /\ baseline # {}
  /\ EditsLeft("fault") /\ budget' = [budget EXCEPT !.faults = @ + 1]
  /\ temps' = IF pc = "install" THEN temps - 1 ELSE temps
  /\ IF pc = "analyse" THEN Load ELSE UNCHANGED doc
  /\ exit' = "error" /\ pc' = "done"
  /\ UNCHANGED <<found, options, plan, applied, skipped, current, promised, inserted>>

Skip(x) ==
  /\ skipped' = skipped \cup {x}
  /\ current' = {}
  /\ pc' = "apply"

Succeed(x) ==
  /\ applied' = applied \cup {x}
  /\ current' = {}
  /\ pc' = "apply"

(* A target outside the root is skipped, by a preview as well.             *)
Uncontained(x) ==
  /\ pc = "apply" /\ IsNext(x) /\ ~ Contained(x)
  /\ Skip(x)
  /\ UNCHANGED <<doc, found, options, plan, applied, temps, exit, promised, budget, inserted>>

Preview(x) ==
  /\ pc = "apply" /\ IsNext(x) /\ Contained(x) /\ options.dryRun
  /\ Succeed(x)
  /\ UNCHANGED <<doc, found, options, plan, skipped, temps, exit, promised, budget, inserted>>

Performing(x) == pc = "apply" /\ IsNext(x) /\ Contained(x) /\ ~ options.dryRun

(* The manifest no longer fits the edit, or pins hashes.                   *)
Refuse(x) ==
  /\ Performing(x) /\ Refuses(disk, options.hashed, x)
  /\ Skip(x)
  /\ UNCHANGED <<doc, found, options, plan, applied, temps, exit, promised, budget, inserted>>

(* The dependency to add is there already: a success without a write.      *)
AlreadyThere(x) ==
  /\ Performing(x) /\ x.kind = "add" /\ x.name \in NamesIn(disk["runtime"])
  /\ Succeed(x)
  /\ UNCHANGED <<doc, found, options, plan, skipped, temps, exit, promised, budget, inserted>>

(* Mutant: the edit changes the text the analysis read.                    *)
ReadAndEditLoaded(x) ==
  /\ Performing(x)
  /\ ~ Refuses(disk, options.hashed, x)
  /\ ~ (x.kind = "add" /\ x.name \in NamesIn(disk["runtime"]))
  /\ text' = Edited(loaded, x)
  /\ current' = {x}
  /\ pc' = "write"
  /\ UNCHANGED <<disk, found, options, loaded, plan, applied, skipped, temps, exit, promised,
                 budget, inserted>>

ReadAndEdit(x) ==
  /\ Performing(x)
  /\ ~ Refuses(disk, options.hashed, x)
  /\ ~ (x.kind = "add" /\ x.name \in NamesIn(disk["runtime"]))
  /\ text' = Edited(disk, x)
  /\ current' = {x}
  /\ pc' = "write"
  /\ UNCHANGED <<disk, found, options, loaded, plan, applied, skipped, temps, exit, promised,
                 budget, inserted>>

(* atomic_write: the whole text goes to a temporary file first.            *)
WriteTemp ==
  /\ pc = "write"
  /\ temps' = temps + 1
  /\ pc' = "rename"
  /\ UNCHANGED <<doc, found, options, plan, applied, skipped, current, exit, promised, budget, inserted>>

(* Mutant: the temporary file never takes the place of the manifest.       *)
ReplacedNever(d, new, file) == d

Replaced(d, new, file) == [p \in Places |-> IF FileOf[p] = file THEN new[p] ELSE d[p]]

Rename(x) ==
  /\ pc = "rename" /\ x \in current
  /\ disk' = Replaced(disk, text, FileOf[x.place])
  /\ temps' = temps - 1
  /\ Succeed(x)
  /\ UNCHANGED <<found, options, loaded, text, plan, skipped, exit, promised, budget, inserted>>

(* A failed read, or a failed write before the temporary file is complete: *)
(* nothing is left behind.                                                 *)
ReadOrWriteFails(x) ==
  /\ \/ Performing(x)
     \/ pc = "write" /\ x \in current
  /\ EditsLeft("fault") /\ budget' = [budget EXCEPT !.faults = @ + 1]
  /\ Skip(x)
  /\ UNCHANGED <<doc, found, options, plan, applied, temps, exit, promised, inserted>>

(* A failed fsync or rename: the temporary file is removed.                *)
RenameFails(x) ==
  /\ pc = "rename" /\ x \in current
  /\ EditsLeft("fault") /\ budget' = [budget EXCEPT !.faults = @ + 1]
  /\ temps' = temps - 1
  /\ Skip(x)
  /\ UNCHANGED <<doc, found, options, plan, applied, exit, promised, inserted>>

(* Mutant: every finding with a planned edit counts as resolved.           *)
ResolvedByPlan == {i \in issues : HasFix(Analysis, i)}

(* exit_status_after_fix: an edit that was made resolves its findings.     *)
Resolved ==
  IF options.dryRun \/ ~ options.fix THEN {}
  ELSE {i \in issues : HasFix(Analysis, i) /\ FixFor(Analysis, i) \in applied}

(* To record the findings is the point of the run, so it succeeds.         *)
Finish ==
  /\ pc = "apply" /\ Pending = {}
  /\ exit' = IF options.baseline = "update" THEN "success"
             ELSE ExitStatus(options.settings, issues \ Resolved)
  /\ pc' = "done"
  /\ UNCHANGED <<doc, found, options, plan, applied, skipped, current, temps, promised, budget,
                 inserted>>

(* The command is run again after a preview, after a run that changed      *)
(* something, failed or was killed, this time to edit; and once a baseline *)
(* is recorded, to go by it, with --strict or without if it was recorded   *)
(* with it, to fix or to report only.                                      *)
HasRecorded == options.baseline = "update" /\ exit = "success"

GoByBaseline(fix, settings) ==
  [options EXCEPT !.dryRun = FALSE, !.baseline = "use", !.fix = fix, !.settings = settings]

Laxer == {options.settings, [options.settings EXCEPT !.strict = FALSE]}

Commands == IF HasRecorded THEN {GoByBaseline(fix, settings) : fix \in BOOLEAN, settings \in Laxer}
            ELSE {[options EXCEPT !.dryRun = FALSE]}

MoreToDo == applied # {} \/ exit = "error" \/ HasRecorded

RunAgain ==
  /\ pc = "crashed" \/ (pc = "done" /\ MoreToDo)
  /\ promised' = IF options.dryRun /\ pc = "done" /\ ~ HasRecorded THEN applied ELSE {}
  /\ options' \in Commands
  /\ plan' = {} /\ applied' = {} /\ skipped' = {} /\ current' = {}
  /\ exit' = "none" /\ inserted' = {} /\ issues' = {} /\ pc' = "analyse"
  /\ UNCHANGED <<doc, baseline, temps, budget>>

Settled == pc = "done" /\ ~ MoreToDo /\ UNCHANGED vars

----------------------------------------------------------------------------
(* The environment.                                                        *)
Crash ==
  /\ pc \in {"record", "install", "apply", "write", "rename"}
  /\ EditsLeft("crash") /\ budget' = [budget EXCEPT !.crashes = @ + 1]
  /\ pc' = "crashed"
  /\ UNCHANGED <<doc, found, options, plan, applied, skipped, current, temps, exit, promised, inserted>>

UserInserts(p) ==
  /\ pc \in {"apply", "write", "rename"}
  /\ EditsLeft("edit") /\ budget' = [budget EXCEPT !.edits = @ + 1]
  /\ disk' = [disk EXCEPT ![p] = <<[name |-> NewName, spec |-> "any", from |-> <<"user", 0>>]>> \o @]
  /\ inserted' = IF \E x \in current : FileOf[x.place] = FileOf[p]
                 THEN inserted ELSE inserted \cup {p}
  /\ UNCHANGED <<found, options, loaded, text, plan, applied, skipped, current, temps, exit,
                 promised, pc>>

ApplyOne(x) == \/ Uncontained(x) \/ Preview(x) \/ Refuse(x) \/ AlreadyThere(x)
               \/ ReadAndEdit(x) \/ Rename(x)

Progress == \/ Analyse \/ WriteBaseline \/ InstallBaseline
            \/ WriteTemp \/ Finish \/ RunAgain
            \/ \E x \in plan : ApplyOne(x)

Environment == \/ Crash \/ BaselineFails
               \/ \E x \in plan : ReadOrWriteFails(x) \/ RenameFails(x)
               \/ \E p \in Places : UserInserts(p)

Next == Progress \/ Environment \/ Settled

(* The process keeps running, and the user repeats the command until it    *)
(* has nothing left to apply.  No fault, crash or edit ever has to happen. *)
Spec == Init /\ [][Next]_vars /\ WF_vars(Progress)
----------------------------------------------------------------------------
Phases == {"analyse", "record", "install", "apply", "write", "rename", "done", "crashed"}

(* The variables hold what their comments say, and an edit is in progress  *)
(* exactly while a manifest is being written.                              *)
TypeOK ==
  /\ {disk, loaded, text} \subseteq Documents /\ options \in Options
  /\ applied \subseteq plan /\ skipped \subseteq plan
  /\ applied \cap skipped = {}
  /\ current \subseteq Pending
  /\ pc \in {"write", "rename"} => \E x \in current : current = {x}
  /\ pc \in {"analyse", "apply", "done"} => current = {}
  /\ exit \in {"none", "success", "issues", "error"} /\ (pc = "done") = (exit # "none")
  /\ pc \in Phases

----------------------------------------------------------------------------
Removes(x) == x.kind # "add"

OnceDone(x) == ~ options.dryRun /\ x \in applied

Gone(p, i) == loaded[p][i] \notin RangeOf(disk[p])

SameTarget(x, y) == x.place = y.place /\ x.index = y.index

DistinctTargets == \A x, y \in {x \in plan : Removes(x)} : SameTarget(x, y) => x = y

Untouched == budget.edits = 0 /\ pc # "analyse"

(* Indexes shift under the edits, files are rewritten several times, edits *)
(* fail and the process dies: at every moment the declarations missing     *)
(* from the manifests are exactly the ones that the edits reported as      *)
(* applied were planned for (bottom_up_positional_removals).               *)
ExactlyTheNamedEntriesGo ==
  Untouched /\ DistinctTargets =>
    \A p \in Places : \A i \in DOMAIN loaded[p] :
       Gone(p, i) <=> \E x \in plan : /\ OnceDone(x) /\ Removes(x)
                                      /\ x.place = p /\ x.index = i

(* Every distribution added or moved is a runtime dependency from then on, *)
(* whatever the later edits of the same array remove, and nothing else     *)
(* enters a manifest.                                                      *)
AdditionsLand ==
  Untouched =>
    /\ \A x \in plan : OnceDone(x) /\ x.kind # "remove" => x.name \in NamesIn(disk["runtime"])
    /\ \A p \in Places : \A e \in RangeOf(disk[p]) \ RangeOf(loaded[p]) :
          p = "runtime" /\ \E x \in plan : OnceDone(x) /\ x.kind # "remove" /\ x.name = e.name

(* A user edits the manifests while --fix runs.  A stale index must not    *)
(* remove a different dependency (remove_array_index), so a distribution   *)
(* no edit names keeps its declarations, and what the user wrote, outside  *)
(* of the moment between the read and the rename of that file, survives.   *)
BystandersSurvive ==
  pc # "analyse" =>
    LET names == {x.name : x \in plan}
    IN  /\ \A p \in Places : \A i \in DOMAIN loaded[p] :
              loaded[p][i].name \notin names => ~ Gone(p, i)
        /\ NewName \notin names =>
              \A p \in inserted : \E e \in RangeOf(disk[p]) : e.from[1] = "user"

(* What the project uses, in code that was read and code that was not.     *)
Used == Imported(Analysis)
          \cup {u.name : u \in {u \in options.unseen :
                                 u.kind \in {"unreadCode", "unresolvedImport", "stringRef"}}}

(* What the requirements of a name come to under an install context, by    *)
(* the contexts the analysis gave the files.                               *)
Installs(d, n, c) ==
  {e.spec : e \in {e \in UNION {RangeOf(d[p]) : p \in {p \in Places : c \in Contexts(Analysis, p)}} :
                     e.name = n}}

(* A distribution the project uses, seen or in input that could not be     *)
(* read, and that --fix neither adds nor moves, is installed as before in  *)
(* every context: only a declaration that is repeated wherever it is read  *)
(* goes (removable_among), and a gap keeps an unused one (apply_gaps).     *)
UsedKeepTheirInstall ==
  Untouched =>
    \A n \in Used \ {x.name : x \in {x \in plan : x.kind # "remove"}} :
       \A c \in {"runtime", "dev"} : Installs(disk, n, c) = Installs(loaded, n, c)

EditedAway(i) ==
  /\ i.rule \in {2, 5, 9} => LET x == FixFor(Analysis, i) IN Gone(x.place, x.index)
  /\ i.rule \in {3, 5}    => i.name \in NamesIn(disk["runtime"])

(* The exit status follows the files: a run that ends with success, other  *)
(* than to record a baseline or under --no-exit-code, has edited away      *)
(* every finding it reported that counts (exit_status_after_fix).          *)
SuccessMeansEdited ==
  /\ Untouched /\ exit = "success"
  /\ options.baseline # "update" /\ ~ options.settings.noExit
  => \A i \in issues : Counts(options.settings, i) => HasFix(Analysis, i) /\ EditedAway(i)

(* Nothing becomes a runtime dependency that a line or an extra declares   *)
(* already, in a form that could not be read (apply_gaps).                 *)
UnreadNames ==
  {EntryAt(Analysis, s).name :
     s \in {s \in Lines(Analysis) \ Sites(Analysis) : "runtime" \in Contexts(Analysis, s[1])}}
  \cup {u.name : u \in {u \in options.unseen : u.kind = "unknownExtras"}}

NothingDeclaredTwice ==
  pc # "analyse" => \A x \in plan : x.kind # "remove" => x.name \notin UnreadNames

(* "The baseline silences existing issues, and only a new one fails CI"    *)
(* (docs/dev/spec.ja.md): a run that goes by a baseline recorded of these  *)
(* manifests, with the same settings or less strictly, reports nothing,    *)
(* whatever failed or was killed in between.                               *)
RecordedRunIsClean ==
  \A b \in baseline :
     LET now == options.settings
     IN  /\ pc = "done" /\ exit # "error" /\ options.baseline = "use"
         /\ b.of = Stripped(loaded)
         /\ now \in {b.under, [b.under EXCEPT !.strict = FALSE]}
         => issues = {} /\ exit = "success"

(* A finding is silenced that is ignored, off, filtered out or recorded in *)
(* the baseline the run goes by.                                           *)
IsSilenced(c) ==
  \/ c.rule \in options.settings.off \/ c.rule \notin options.settings.rules
  \/ Silenced(options.settings, c)
  \/ options.baseline = "use" /\ Fingerprint(c) \in Prints

(* What is silenced is left alone: a distribution all of whose findings    *)
(* are silenced keeps its declarations as they are, although other edits   *)
(* of the same files shift them (apply_baseline_options before apply_fixes).*)
SilencedLeftAlone ==
  LET loud == {c.name : c \in {c \in Candidates(Analysis) : ~ IsSilenced(c)}}
  IN  Untouched =>
        \A n \in Declared(Analysis) \ loud : \A p \in Places :
           {e \in RangeOf(disk[p]) : e.name = n} = {e \in RangeOf(loaded[p]) : e.name = n}

(* Only a kill leaves temporary files behind.                              *)
TempsOnlyAfterCrash ==
  temps <= budget.crashes + (IF pc \in {"rename", "install"} THEN 1 ELSE 0)

(* Repeating --fix comes to an end: no edit brings back what an earlier    *)
(* run removed, moves back and forth or reports success without effect.    *)
Settles == <>[](pc = "done" /\ ~ MoreToDo)

(* "so a preview never promises an edit the real run refuses" (apply.rs):  *)
(* with nothing in between and no fault, --fix applies what --dry-run      *)
(* showed as planned.                                                      *)
PreviewKept ==
  pc = "done" /\ ~ options.dryRun /\ budget = NoBudget => promised \subseteq applied

(* The same where no file pins hashes and no two edits name one entry: the *)
(* edits made first never leave a later one without its target, whatever   *)
(* the order they were planned in.                                         *)
PreviewKeptUnlessPinned == options.hashed = {} /\ DistinctTargets => PreviewKept

============================================================================
