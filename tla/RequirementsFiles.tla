-------------------------- MODULE RequirementsFiles --------------------------
(***************************************************************************)
(* Requirements files that include each other                              *)
(* (src/manifest/requirements.rs and extract.rs): the files of the fixed   *)
(* names are read in order, and the first error ends the extraction; then  *)
(* the extra candidates are read as far as they can be.  Each is parsed    *)
(* with an include stack of its own, a line at a time.                     *)
(*                                                                         *)
(* Once the manifest is extracted the user edits one file and it is        *)
(* extracted again.  The scan cache keeps the first manifest unless the    *)
(* edited file is one it watches, so what is not watched must not matter.  *)
(* Edits during an extraction are left to ScanCache, and warnings are left *)
(* out.  A path stands for the file it leads to.                           *)
(***************************************************************************)
EXTENDS Integers, Sequences, FiniteSets

CONSTANTS
  Fixed,        \* the fixed names, in the order they are read
  Extra,        \* the names of the extra candidates, in order
  Others,       \* files that can only be included
  Usual,        \* of a fixed name, the context it is read with
  NamedContext, \* of a path, the context its words name, or NoContext
  NoContext,
  Source,       \* of a .txt file, the .in file beside it, or the file itself
  States,       \* of a path, the states it can be in
  Disks         \* the disks a project begins with

Elements(s) == {s[i] : i \in 1 .. Len(s)}
Roots == Fixed \o Extra
RootFiles == Elements(Roots)
Paths == RootFiles \cup Others

(* The states of a path: nothing, a file that cannot be read or decoded or *)
(* lies outside the root, and text.                                        *)
NotText(is)  == [is |-> is, lines |-> << >>]
Text(lines)  == [is |-> "text", lines |-> lines]

(* Lines.  An include is looked for beside the file, then at the root.     *)
Requirement    == [option |-> "none", tries |-> << >>]
Includes(tries)    == [option |-> "-r", tries |-> tries]
Constrains(tries)  == [option |-> "-c", tries |-> tries]
Remote         == [option |-> "url", tries |-> << >>]

Line == [option : {"none", "-r", "-c", "url"}, tries : Seq(Paths)]

IsState(s) ==
  \/ \E is \in {"absent", "outside", "unreadable", "undecodable"} : s = NotText(is)
  \/ s.is = "text" /\ s = Text(s.lines) /\ s.lines \in Seq(Line)

ASSUME RootsAssumption == Fixed \in Seq(Paths) /\ Extra \in Seq(Paths)

ASSUME StatesAssumption ==
  /\ \A p \in Paths : \A s \in States[p] : IsState(s)
  /\ \A d \in Disks : d \in [Paths -> UNION {States[p] : p \in Paths}]
                       /\ \A p \in Paths : d[p] \in States[p]

Contexts ==
  {Usual[f] : f \in Elements(Fixed)} \cup {NamedContext[f] : f \in Paths} \cup {"runtime"}

ASSUME ContextsAssumption == Contexts \cap Paths = {}

VARIABLES
  disk,     \* the files
  next,     \* the position in Roots of the file to be read next
  frames,   \* the files being parsed, outermost first
  parsed,   \* what the file before next gave so far (RequirementsExtraction)
  failed,   \* why parsing it stopped, "no" if it did not
  sources,  \* what the manifest gathered (ManifestSources)
  outcome,  \* of the extraction
  before    \* the first extraction, and the file edited after it

extraction == <<disk, next, frames, parsed, failed, sources, outcome, before>>

NothingParsed ==
  [declared |-> << >>, constraints |-> << >>, read |-> {}, missing |-> {}, skipped |-> FALSE]

(* unwatched is a ghost: files read for extra ones that declared nothing.  *)
NoSources ==
  [declared |-> << >>, constraints |-> << >>, names |-> {}, read |-> {}, missing |-> {},
   unwatched |-> {}]

NoBefore == [edited |-> {}, outcome |-> "none", sources |-> NoSources, outside |-> {}]

ExtractInit ==
  /\ disk \in Disks
  /\ next = 1 /\ frames = << >> /\ parsed = NothingParsed /\ failed = "no"
  /\ sources = NoSources /\ outcome = "running" /\ before = NoBefore

----------------------------------------------------------------------------
InFixed(i) == i <= Len(Fixed)
IsFile(f) == disk[f].is # "absent"

(* Mutant: a file is on the stack once it was read.                        *)
OnStackForGood == parsed.read

OnStack == {frames[i].file : i \in 1 .. Len(frames)}

Top == frames[Len(frames)]
AtLine == frames # << >> /\ Top.line <= Len(disk[Top.file].lines)
TheLine == disk[Top.file].lines[Top.line]
PastLine == IF frames = << >> THEN frames ELSE [frames EXCEPT ![Len(frames)].line = @ + 1]

(* parse_requirements_file_path: a cycle and a file that cannot be read    *)
(* end every file on the stack, one that cannot be decoded is left out.    *)
Open(f, mode, context, start) ==
  LET kind  == IF f \in OnStack THEN "cycle" ELSE disk[f].is
      fatal == kind \in {"cycle", "unreadable"}
      frame == [file |-> f, line |-> 1, mode |-> mode, context |-> context]
  IN /\ failed' = IF fatal THEN kind ELSE "no"
     /\ parsed' = [start EXCEPT !.read = IF kind = "cycle" THEN @ ELSE @ \cup {f},
                                !.skipped = @ \/ kind = "undecodable"]
     /\ frames' = IF fatal THEN << >>
                  ELSE IF kind = "undecodable" THEN PastLine
                  ELSE Append(PastLine, frame)

(* extract_requirements_file, and the head of read_extra_requirements.     *)
AtRoot ==
  /\ outcome = "running" /\ frames = << >> /\ parsed = NothingParsed
  /\ next <= Len(Roots)
IsRead(i) == IsFile(Roots[i]) /\ (InFixed(i) \/ Roots[i] \notin sources.read)

StartFile ==
  /\ AtRoot /\ IsRead(next)
  /\ Open(Roots[next], "dependencies",
          IF InFixed(next) THEN Usual[Roots[next]] ELSE "runtime", NothingParsed)
  /\ next' = next + 1
  /\ UNCHANGED <<disk, sources, outcome, before>>

PassOver ==
  /\ AtRoot /\ ~ IsRead(next)
  /\ next' = next + 1
  /\ UNCHANGED <<disk, frames, parsed, failed, sources, outcome, before>>

unmoved == <<disk, next, sources, outcome, before>>

(* parse_requirements_line: a requirement is declared, or constrains.      *)
Declare ==
  LET entry == [file |-> Top.file, line |-> Top.line, context |-> Top.context]
  IN /\ AtLine /\ TheLine.option = "none"
     /\ parsed' = IF Top.mode = "dependencies"
                  THEN [parsed EXCEPT !.declared = Append(@, entry)]
                  ELSE [parsed EXCEPT !.constraints = Append(@, entry)]
     /\ frames' = PastLine
     /\ UNCHANGED <<failed, unmoved>>

(* include_not_read.                                                       *)
LeaveRemote ==
  /\ AtLine /\ TheLine = Remote
  /\ parsed' = [parsed EXCEPT !.skipped = TRUE]
  /\ frames' = PastLine
  /\ UNCHANGED <<failed, unmoved>>

(* resolve_requirements_include: the first path that is a file within the  *)
(* root; the paths that are no files are noted, up to it.                  *)
Tried == TheLine.tries
Within(p) == disk[p].is \notin {"absent", "outside"}
Resolves(i) == Within(Tried[i]) /\ \A j \in 1 .. i - 1 : ~ Within(Tried[j])
Unresolved == \A i \in 1 .. Len(Tried) : ~ Within(Tried[i])
Noted(i) ==
  [parsed EXCEPT !.missing = @ \cup {p \in Elements(SubSeq(Tried, 1, i)) : ~ IsFile(p)}]

ContextOf(f) == IF NamedContext[f] = NoContext THEN Top.context ELSE NamedContext[f]

(* Mutant: constraints stay constraints below a -c.                        *)
FollowRequirementsInMode ==
  /\ AtLine /\ TheLine.option = "-r"
  /\ \E i \in 1 .. Len(Tried) :
        /\ Resolves(i)
        /\ Open(Tried[i], Top.mode, ContextOf(Tried[i]), Noted(i))
  /\ UNCHANGED unmoved

(* follow_requirements_include; below a -c too, a -r declares, as in pip.  *)
FollowRequirements ==
  /\ AtLine /\ TheLine.option = "-r"
  /\ \E i \in 1 .. Len(Tried) :
        /\ Resolves(i)
        /\ Open(Tried[i], "dependencies", ContextOf(Tried[i]), Noted(i))
  /\ UNCHANGED unmoved

IncludeFails ==
  /\ AtLine /\ TheLine.option = "-r" /\ Unresolved
  /\ parsed' = Noted(Len(Tried))
  /\ failed' = IF \E p \in Elements(Tried) : IsFile(p) THEN "outside" ELSE "missing"
  /\ frames' = << >>
  /\ UNCHANGED unmoved

(* follow_constraints_include.                                             *)
FollowConstraints ==
  /\ AtLine /\ TheLine.option = "-c"
  /\ \E i \in 1 .. Len(Tried) :
        /\ Resolves(i)
        /\ Open(Tried[i], "constraints", Top.context, Noted(i))
  /\ UNCHANGED unmoved

ConstraintsMissing ==
  /\ AtLine /\ TheLine.option = "-c" /\ Unresolved
  /\ parsed' = Noted(Len(Tried))
  /\ frames' = PastLine
  /\ UNCHANGED <<failed, unmoved>>

EndFile ==
  /\ frames # << >> /\ ~ AtLine
  /\ frames' = SubSeq(frames, 1, Len(frames) - 1)
  /\ UNCHANGED <<parsed, failed, unmoved>>

----------------------------------------------------------------------------
AtEnd == frames = << >> /\ parsed # NothingParsed
Reset == parsed' = NothingParsed /\ failed' = "no"

FinishFixed ==
  /\ AtEnd /\ InFixed(next - 1) /\ failed = "no"
  /\ sources' = [sources EXCEPT
       !.declared    = @ \o parsed.declared,
       !.constraints = @ \o parsed.constraints,
       !.read        = @ \cup parsed.read,
       !.missing     = @ \cup parsed.missing]
  /\ Reset /\ UNCHANGED <<disk, next, frames, outcome, before>>

FailFixed ==
  /\ AtEnd /\ InFixed(next - 1) /\ failed # "no"
  /\ outcome' = failed
  /\ Reset /\ UNCHANGED <<disk, next, frames, sources, before>>

(* read_extra_requirements: a file that names no context only adds names.  *)
Compiled(f) == Source[f] # f /\ Source[f] \in RootFiles /\ IsFile(Source[f])

(* Mutant: every file read for an extra one declares again.                *)
KeepsAgain(entry) == ~ Compiled(entry.file) /\ NamedContext[entry.file] # NoContext

Keeps(entry) ==
  /\ ~ Compiled(entry.file) /\ entry.file \notin sources.read
  /\ NamedContext[entry.file] # NoContext

Name(entry) == <<entry.file, entry.line>>

(* Mutant: what was looked for in vain is watched only for a file that     *)
(* declares.                                                               *)
MissingIfDeclared == IF parsed.declared = << >> THEN {} ELSE parsed.missing

MissingNoted == parsed.missing

FinishExtra ==
  LET dropped == (failed # "no" \/ parsed.skipped) /\ parsed.declared = << >>
      grouped(entry) == [entry EXCEPT !.context = entry.file]
      kept == {i \in 1 .. Len(parsed.declared) : Keeps(parsed.declared[i])}
      noted == [sources EXCEPT !.missing = @ \cup MissingNoted]
  IN /\ AtEnd /\ ~ InFixed(next - 1)
     /\ \E at \in [1 .. Cardinality(kept) -> kept] :
          /\ \A i, j \in DOMAIN at : i < j => at[i] < at[j]
          /\ sources' =
               IF dropped THEN [noted EXCEPT !.unwatched = @ \cup parsed.read]
               ELSE [noted EXCEPT
                      !.declared = @ \o [i \in DOMAIN at |-> grouped(parsed.declared[at[i]])],
                      !.names = @ \cup {Name(e) : e \in Elements(parsed.declared)},
                      !.read = @ \cup parsed.read]
     /\ Reset /\ UNCHANGED <<disk, next, frames, outcome, before>>

Extracted ==
  /\ outcome = "running" /\ frames = << >> /\ parsed = NothingParsed /\ next > Len(Roots)
  /\ outcome' = "done"
  /\ UNCHANGED <<disk, next, frames, parsed, failed, sources, before>>

(* The user edits one file, and the manifest is extracted again.           *)
EditFile(f) ==
  /\ outcome # "running" /\ before.edited = {}
  /\ \E to \in States[f] \ {disk[f]} : disk' = [disk EXCEPT ![f] = to]
  /\ before' = [edited |-> {f}, outcome |-> outcome, sources |-> sources,
                outside |-> {p \in Paths : disk[p].is = "outside"}]
  /\ next' = 1 /\ sources' = NoSources /\ outcome' = "running"
  /\ UNCHANGED <<frames, parsed, failed>>

Parse ==
  \/ StartFile \/ PassOver \/ Declare \/ LeaveRemote \/ FollowRequirements \/ IncludeFails
  \/ FollowConstraints \/ ConstraintsMissing \/ EndFile
  \/ FinishFixed \/ FailFixed \/ FinishExtra \/ Extracted

ExtractNext == Parse \/ \E f \in Paths : EditFile(f)

ExtractSpec == ExtractInit /\ [][ExtractNext]_extraction /\ WF_extraction(Parse)

----------------------------------------------------------------------------
ExtractTypeOK ==
  /\ \A p \in Paths : disk[p] \in States[p]
  /\ next \in 1 .. Len(Roots) + 1
  /\ \A i \in 1 .. Len(frames) : frames[i].file \in Paths /\ frames[i].line \in Nat \ {0}
  /\ failed \in {"no", "cycle", "unreadable", "missing", "outside"}
  /\ outcome \in {"running", "done"} \cup {"cycle", "unreadable", "missing", "outside"}

(* What the include lines say, read off the files.                         *)
Leads(line) ==
  {line.tries[i] : i \in {j \in 1 .. Len(line.tries) :
       Within(line.tries[j]) /\ \A k \in 1 .. j - 1 : ~ Within(line.tries[k])}}
Led(set, options) ==
  UNION {UNION {Leads(line) : line \in {l \in Elements(disk[f].lines) : l.option \in options}} :
           f \in set}
ReachedFrom(set) ==
  {p \in Paths : \A closed \in SUBSET Paths :
      set \subseteq closed /\ Led(closed, {"-r", "-c"}) \subseteq closed => p \in closed}

FixedFiles == {f \in Elements(Fixed) : IsFile(f)}
Cyclic(f) == f \in ReachedFrom(Led({f}, {"-r", "-c"}))
LeadsNowhere(f) == \E line \in Elements(disk[f].lines) : line.option = "-r" /\ Leads(line) = {}

(* A cycle of includes is an error and a diamond is not (requirements.rs   *)
(* 138), a -r that leads nowhere is an error and a -c is not, and a broken *)
(* extra file never fails the manifest (extract.rs 399).                   *)
OutcomeFollowsIncludes ==
  LET read == ReachedFrom(FixedFiles)
  IN /\ outcome = "done" =>
          \A f \in read : ~ Cyclic(f) /\ ~ LeadsNowhere(f) /\ disk[f].is # "unreadable"
     /\ outcome = "cycle" => \E f \in read : Cyclic(f)
     /\ outcome = "unreadable" => \E f \in read : disk[f].is = "unreadable"
     /\ outcome \in {"missing", "outside"} => \E f \in read : LeadsNowhere(f)

RequirementLines(f) == {i \in 1 .. Len(disk[f].lines) : disk[f].lines[i].option = "none"}
Lines(files) == UNION {{<<f, i>> : i \in RequirementLines(f)} : f \in files}
Names(entries) == {Name(e) : e \in Elements(entries)}

(* The last include on the way to a line decides what the line is: a       *)
(* requirement below a -r, a constraint below a -c.  No constraint is ever *)
(* taken for a declared dependency, and no requirement is lost.            *)
LastIncludeDecides ==
  outcome = "done" =>
    LET read == ReachedFrom(FixedFiles)
        extra == ReachedFrom(RootFiles)
    IN /\ Names(sources.constraints) = Lines(Led(read, {"-c"}))
       /\ Lines(FixedFiles \cup Led(read, {"-r"})) \subseteq Names(sources.declared)
       /\ Names(sources.declared) \cup sources.names
            \subseteq Lines(RootFiles \cup Led(extra, {"-r"}))

(* "A file already read declares once" (extract.rs 396): a file that a     *)
(* fixed name led to is not declared again under the group of its own that *)
(* an extra file would give it.                                            *)
ReadFilesDeclareOnce ==
  \A d, e \in Elements(sources.declared) : d.file = e.file => (d.context = d.file <=> e.context = e.file)

----------------------------------------------------------------------------
(* What the manifest is watched by (manifest_candidate_fingerprints and    *)
(* manifest_input_fingerprints): the candidates there are, the files read  *)
(* and the paths looked for in vain.                                       *)
Watched(s) == RootFiles \cup s.read \cup s.missing

Manifest(s) == <<s.declared, s.constraints, s.names>>

(* The edited file does not matter to the cache.  A path that led outside  *)
(* the root is left out: what it leads to then is not of the project.      *)
Unnoticed(watched) ==
  /\ before.outcome = "done" /\ outcome # "running"
  /\ before.edited \cap (watched \cup before.outside) = {}
SameAsBefore == outcome = "done" /\ Manifest(sources) = Manifest(before.sources)

(* "After any run, editing the project and running again with the cache    *)
(* reports what a --no-cache run of the edited project reports"            *)
(* (tests/prop_cache_warm.rs 1): an edit of a file the cached manifest     *)
(* does not watch changes nothing, but for the files extraction leaves     *)
(* unwatched: those it read for an extra file that declared nothing.       *)
WarmRunNoticesMostEdits ==
  Unnoticed(Watched(before.sources) \cup before.sources.unwatched) => SameAsBefore
=============================================================================
