------------------------------ MODULE FixPlan ------------------------------
(***************************************************************************)
(* What --fix plans to edit (src/fix/plan.rs), from the findings the       *)
(* dependency rules report (src/rules/deps) on one project.                *)
(*                                                                         *)
(* The project declares dependencies in four places: the two arrays        *)
(* project.dependencies and dependency-groups.dev of pyproject.toml, the   *)
(* lines of requirements.txt, and the lines of base.txt, which             *)
(* requirements.txt includes with -r on its last line.  A shared base is   *)
(* also included by requirements-dev.txt, which holds nothing else.  An    *)
(* entry is [name, spec, from]: the distribution, everything else a        *)
(* requirement says (extras, specifier, marker) as one value, and a ghost  *)
(* that tells entries apart: the place and index it was read at.  The spec *)
(* "any" says nothing, and a line with spec "unread" starts with the name  *)
(* but is no requirement, so it declares nothing.  Every import is a       *)
(* top-level import in a reachable runtime file, there is no lockfile, and *)
(* [project].dependencies is static.                                       *)
(***************************************************************************)
EXTENDS IssueReport, Sequences

Places == {"runtime", "dev", "lines", "base"}

FileOf == [runtime |-> "pyproject.toml", dev |-> "pyproject.toml",
           lines |-> "requirements.txt", base |-> "base.txt"]

Files == {FileOf[p] : p \in Places}

(* The order in which manifest loading lists the declarations.             *)
LoadRank == [runtime |-> 1, dev |-> 2, lines |-> 3, base |-> 4]

(* The order of the sort key (file, array) of a positional edit.           *)
EditRank == [base |-> 1, dev |-> 2, runtime |-> 3, lines |-> 4]

RangeOf(s) == {s[i] : i \in DOMAIN s}

Readable(e) == e.spec # "unread"

NamesIn(s) == {e.name : e \in {e \in RangeOf(s) : Readable(e)}}

----------------------------------------------------------------------------
(* Declarations.  An analysis a is a record: the manifest it loaded, the   *)
(* set of <<name, file>> imports, the gaps that imports it could not see   *)
(* and extras it could not read leave, whether base.txt is shared, the     *)
(* settings and --add-missing.                                             *)

(* A requirements.txt beside runtime declarations is dev tooling.          *)
LinesContext(a) == IF NamesIn(a.manifest["runtime"]) # {} THEN "dev" ELSE "runtime"

Contexts(a, p) ==
  CASE p = "runtime" -> {"runtime"}
    [] p = "dev"     -> {"dev"}
    [] p = "lines"   -> {LinesContext(a)}
    [] p = "base"    -> {LinesContext(a)} \cup (IF a.shared THEN {"dev"} ELSE {})

(* How often the entries of a place are listed under a context: a shared   *)
(* base is read once per including file.                                   *)
TimesRead(a, p) == IF p = "base" /\ a.shared THEN 2 ELSE 1

Lines(a) == UNION {{<<p, i>> : i \in DOMAIN a.manifest[p]} : p \in Places}

EntryAt(a, s) == a.manifest[s[1]][s[2]]

Sites(a) == {s \in Lines(a) : Readable(EntryAt(a, s))}

SitesOf(a, n) == {s \in Sites(a) : EntryAt(a, s).name = n}

LoadedBefore(s, t) == \/ LoadRank[s[1]] < LoadRank[t[1]]
                      \/ s[1] = t[1] /\ s[2] < t[2]

FirstLoaded(S) == CHOOSE s \in S : \A t \in S \ {s} : LoadedBefore(s, t)

Imported(a) == {m[1] : m \in a.imports}

Declared(a) == {EntryAt(a, s).name : s \in Sites(a)}

RuntimeSites(a, n) == {s \in SitesOf(a, n) : "runtime" \in Contexts(a, s[1])}

----------------------------------------------------------------------------
(* CHK002: one report per unused name, at its first declaration, runtime   *)
(* declarations first; a name only dev declares is reported by --strict.   *)
UnusedNames(a) == {n \in Declared(a) \ Imported(a) : a.settings.strict \/ RuntimeSites(a, n) # {}}

UnusedAt(a, n) == FirstLoaded(IF RuntimeSites(a, n) # {} THEN RuntimeSites(a, n)
                                                         ELSE SitesOf(a, n))

(* Mutant: any second declaration repeats the first.                       *)
RepeatedName(a, s, c) ==
  \E t \in SitesOf(a, EntryAt(a, s).name) \ {s} : c \in Contexts(a, t[1])

(* CHK009: a declaration repeats another in context c when the same        *)
(* requirement is on another line read in c; --fix may remove a line that  *)
(* is repeated in every context that reads it.                             *)
RepeatedIn(a, s, c) ==
  \E t \in SitesOf(a, EntryAt(a, s).name) \ {s} :
      /\ c \in Contexts(a, t[1])
      /\ EntryAt(a, t).spec = EntryAt(a, s).spec

Removable(a, n) ==
  {s \in SitesOf(a, n) : \A c \in Contexts(a, s[1]) : RepeatedIn(a, s, c)}

(* A dev declaration that a runtime one covers is only hinted at, and so   *)
(* is a line repeated in one of its contexts but not in all of them.       *)
CoveredByRuntime(a, n) ==
  \E r \in RuntimeSites(a, n) : \E s \in SitesOf(a, n) \ {r} :
      /\ "dev" \in Contexts(a, s[1])
      /\ EntryAt(a, s).spec \in {"any", EntryAt(a, r).spec}

IsDuplicate(a, n) ==
  \/ \E s \in SitesOf(a, n) : \E c \in Contexts(a, s[1]) : RepeatedIn(a, s, c)
  \/ CoveredByRuntime(a, n)

(* Groups go before runtime, and the last declaration of a context first.  *)
PreferredRemoval(a, s, t) ==
  LET inDev(u) == "dev" \in Contexts(a, u[1])
  IN  IF inDev(s) = inDev(t) THEN LoadedBefore(t, s) ELSE inDev(s)

DuplicateToRemove(a, n) ==
  CHOOSE s \in Removable(a, n) :
      \A t \in Removable(a, n) \ {s} : PreferredRemoval(a, s, t)

(* CHK005: imported at runtime and declared, but for dev only.             *)
MisplacedNames(a) == {n \in Declared(a) \cap Imported(a) : RuntimeSites(a, n) = {}}

(* The move edits TOML, and only a single dev declaration is unambiguous.  *)
IsMovable(a, n) ==
  \E s \in SitesOf(a, n) :
      SitesOf(a, n) = {s} /\ TimesRead(a, s[1]) = 1 /\ FileOf[s[1]] = "pyproject.toml"

----------------------------------------------------------------------------
(* What the rules find, and the edit each finding asks for.                *)
Candidate(rule, n, by, sites, severity, confidence) ==
  [rule |-> rule, name |-> n, by |-> by, sites |-> sites,
   severity |-> severity, confidence |-> confidence]

FilesImporting(a, n) == {m[2] : m \in {m \in a.imports : m[1] = n}}

DuplicateFinding(a, n) ==
  IF Removable(a, n) # {} THEN Candidate(9, n, "manifest", {}, Warning, Certain)
                          ELSE Candidate(9, n, "manifest", {}, Info, Likely)

Candidates(a) ==
       {Candidate(2, n, "manifest", {}, Error, Certain) : n \in UnusedNames(a)}
  \cup {Candidate(3, m[1], m[2], {m[2]}, Error, Certain) :
           m \in {m \in a.imports : m[1] \notin Declared(a)}}
  \cup {Candidate(5, n, "manifest", FilesImporting(a, n), Warning, Certain) :
           n \in MisplacedNames(a)}
  \cup {DuplicateFinding(a, n) : n \in {n \in Declared(a) : IsDuplicate(a, n)}}

(* A line that cannot be read leaves a gap in each context it is read in.  *)
LineGaps(a) ==
  UNION {{[kind |-> IF c = "runtime" THEN "unreadRuntimeLine" ELSE "unreadLine",
           name |-> EntryAt(a, s).name] : c \in Contexts(a, s[1])}
         : s \in Lines(a) \ Sites(a)}

Gaps(a) == a.unseen \cup LineGaps(a)

Findings(a) == Reported(a.settings, Gaps(a), Candidates(a))

(* Only findings that are certain are fixed.                               *)
HasFix(a, issue) ==
  /\ issue.confidence = Certain
  /\ issue.rule = 3 => a.addMissing
  /\ issue.rule = 5 => IsMovable(a, issue.name)

RemoveDependency(rule, n, s) ==
  [kind |-> "remove", rule |-> rule, name |-> n, spec |-> "any", place |-> s[1], index |-> s[2]]

MoveToRuntime(a, n) ==
  LET s == CHOOSE s \in SitesOf(a, n) : TRUE
  IN  [kind |-> "move", rule |-> 5, name |-> n, spec |-> EntryAt(a, s).spec,
       place |-> s[1], index |-> s[2]]

AddMissingDependency(n) ==
  [kind |-> "add", rule |-> 3, name |-> n, spec |-> "any", place |-> "runtime", index |-> 0]

FixFor(a, issue) ==
  CASE issue.rule = 2 -> RemoveDependency(2, issue.name, UnusedAt(a, issue.name))
    [] issue.rule = 3 -> AddMissingDependency(issue.name)
    [] issue.rule = 5 -> MoveToRuntime(a, issue.name)
    [] issue.rule = 9 -> RemoveDependency(9, issue.name, DuplicateToRemove(a, issue.name))

(* The plan is a set: identical edits are one edit, which resolves every   *)
(* finding that asked for it.                                              *)
PlanFixes(a, issues) == {FixFor(a, i) : i \in {i \in issues : HasFix(a, i)}}

----------------------------------------------------------------------------
(* Mutant: the edits of an array are made top-down.                        *)
AppliesTopDown(x, y) ==
  \/ x.kind = "add" /\ y.kind # "add"
  \/ /\ x.kind # "add" /\ y.kind # "add"
     /\ \/ EditRank[x.place] < EditRank[y.place]
        \/ x.place = y.place /\ x.index < y.index
        \/ x.place = y.place /\ x.index = y.index /\ x.rule < y.rule

(* The order of the edits: additions first, then bottom-up in each place.  *)
(* Additions follow the position of their imports, which is not modelled.  *)
AppliesBefore(x, y) ==
  \/ x.kind = "add" /\ y.kind # "add"
  \/ /\ x.kind # "add" /\ y.kind # "add"
     /\ \/ EditRank[x.place] < EditRank[y.place]
        \/ x.place = y.place /\ x.index > y.index
        \/ x.place = y.place /\ x.index = y.index /\ x.rule < y.rule

----------------------------------------------------------------------------
(* One edit of a document: all the places, of which it reads and writes    *)
(* those of its own file.                                                  *)
WithoutEntry(s, i) == [k \in 1 .. (Len(s) - 1) |-> IF k < i THEN s[k] ELSE s[k + 1]]

(* Mutant: whatever is at the index is removed.                            *)
IndexInRange(doc, x) == x.index \in DOMAIN doc[x.place]

(* A stale index must not remove a different dependency.                   *)
NamesTarget(doc, x) ==
  /\ x.index \in DOMAIN doc[x.place]
  /\ doc[x.place][x.index].name = x.name
  /\ Readable(doc[x.place][x.index])

NewEntry(x) == [name |-> x.name, spec |-> x.spec, from |-> <<"fix", x.rule>>]

(* push_runtime_dependency: appends unless the array names it already.     *)
PushRuntime(doc, x) ==
  IF x.name \in NamesIn(doc["runtime"]) THEN doc
  ELSE [doc EXCEPT !["runtime"] = Append(@, NewEntry(x))]

RemoveEntry(doc, x) == [doc EXCEPT ![x.place] = WithoutEntry(@, x.index)]

(* Mutant: a move only removes.                                            *)
EditedWithoutPush(doc, x) ==
  IF x.kind = "add" THEN PushRuntime(doc, x) ELSE RemoveEntry(doc, x)

Edited(doc, x) ==
  CASE x.kind = "remove" -> RemoveEntry(doc, x)
    [] x.kind = "move"   -> PushRuntime(RemoveEntry(doc, x), x)
    [] x.kind = "add"    -> PushRuntime(doc, x)

(* A requirements file that pins hashes is never edited.                   *)
Refuses(doc, hashed, x) ==
  /\ x.kind # "add"
  /\ ~NamesTarget(doc, x) \/ FileOf[x.place] \in hashed
============================================================================
