-------------------------- MODULE DependencyReport --------------------------
(***************************************************************************)
(* reconcile_project of src/rules/deps/reconcile.rs and what --fix makes   *)
(* of its findings (src/fix/plan.rs): the distributions that are used are  *)
(* collected, in rounds where one that is used brings others with it, the  *)
(* rules are run, the imports are weighed one after the other, and the     *)
(* certain findings are fixed and the project analysed again, until there  *)
(* is nothing to fix. How the edits reach the files is FixApply's part.    *)
(*                                                                         *)
(* The project record also has:                                            *)
(*   manifests, imports, locks;                                            *)
(*   production     whether the run is given --production;                 *)
(*   metapackage    whether the declared wheel ships no code;              *)
(*   build_requires, build_constraints   of the build environment;         *)
(*   predicates     the <<owner, dist>> with an `is_dist` function;        *)
(*   whole          subpackages that hold all runtime code of their owner; *)
(*   own            the project's own distribution;                        *)
(*   configured     what config, plugins and binaries use;                 *)
(*   pytest, plugins, installed   pytest, what it loads, if installed or   *)
(*                  declared;                                              *)
(*   local          distributions that are installed from local sources;   *)
(*   dist           the distribution of each member;                       *)
(*   first_party    distributions named like a first-party import;         *)
(*   provided       members that hold a module imported so;                *)
(*   tree           members that each member's own tree imports;           *)
(*   peers          <<peer, provider>> pairs, stubs and what they type too;*)
(*   loaded         peers a used module loads.                             *)
(***************************************************************************)
EXTENDS DependencyRules

IsWorkspace(p) ==
    /\ IsProject(p)
    /\ p.configured \cup p.plugins \cup p.first_party \subseteq Dists
    /\ p.provided \subseteq Members /\ p.tree \in [Members -> SUBSET Members]
    /\ \A e \in p.peers : e[1] # p.pytest
    /\ p.pytest \notin p.local

ASSUME ProjectsAssumption == \A p \in Projects : IsWorkspace(p)

VARIABLES
    strict,     \* whether the run is given --strict
    phase,      \* how far the analysis has come
    used,       \* the distributions found to be used
    provided,   \* the members whose modules are imported
    done,       \* the members whose trees have been looked at
    at,         \* the import to weigh next
    weighed,    \* what is known of each <<owner, dist>> to be moved
    issues,     \* the findings
    before,     \* those of the analysis before
    applied     \* the fixes applied to them

marking == <<used, provided, done>>

vars == <<project, manifests, strict, phase, marking, at, weighed, issues, before, applied>>

Unweighed == [k \in Owners \X Dists |-> [known |-> FALSE]]

Issue(rule, dist, owner, import, certain) ==
    [rule |-> rule, dist |-> dist, owner |-> owner, import |-> import, certain |-> certain]

Init ==
    /\ project \in Projects
    /\ manifests = project.manifests
    /\ strict \in BOOLEAN
    /\ phase = "collect"
    /\ used = {} /\ provided = {} /\ done = {}
    /\ at = 1
    /\ weighed = Unweighed
    /\ issues = {} /\ before = {} /\ applied = {}

Strengths == HostLoaded..TopLevel

Weights == [strength: Strengths, elsewhere: BOOLEAN]

Issues ==
    [rule: 2..5, dist: Dists, owner: Owners, import: Nat, certain: BOOLEAN]

TypeOK ==
    /\ IsWorkspace(project)
    /\ IsManifests(manifests)
    /\ strict \in BOOLEAN
    /\ phase \in {"collect", "members", "companions", "weigh", "reported"}
    /\ used \subseteq Dists
    /\ provided \subseteq Members
    /\ done \subseteq Members
    /\ at \in 1..Len(project.imports) + 1
    /\ weighed \in [Owners \X Dists ->
                      [known: {FALSE}]
                          \cup [known: {TRUE}, weight: Weights, ignored: BOOLEAN,
                                origin: DOMAIN project.imports]]
    /\ issues \subseteq Issues
    /\ before \subseteq Issues
    /\ \A f \in applied :
          /\ f.kind \in {"remove", "move"}
          /\ f.ref \in Owners \X Nat
          /\ f.entry \in Entries

-----------------------------------------------------------------------------
(* collect_used_distributions, mark_self_referential_distribution and the  *)
(* distributions that configuration uses.                                  *)
Evident ==
    {i.dist : i \in {i \in Imports : i.place # "unreached"}}
        \cup project.configured
        \cup ({project.own} \cap DeclaredBy(Root))

(* mark_pytest_plugin_distributions.                                       *)
PytestPlugins(dists) ==
    IF project.pytest \in dists
    THEN project.plugins \cap (project.installed \cup DeclaredBy(Root))
    ELSE {}

CollectUsed ==
    /\ phase = "collect"
    /\ used' = Evident \cup PytestPlugins(Evident)
                  \cup (project.first_party \cap project.local)
    /\ provided' = project.provided
    /\ done' = {}
    /\ phase' = "members"
    /\ UNCHANGED <<project, manifests, strict, at, weighed, issues, before, applied>>

(* local_source_member: declared by the root and taken from the tree.      *)
LocalMembers ==
    {m \in Members : project.dist[m] \in DeclaredBy(Root) \cap project.local}

(* Mutant: only members whose modules are imported are looked at.          *)
NowProvided == {m \in LocalMembers \ done : m \in provided}

(* The members one round of mark_workspace_source_distributions marks.     *)
NowUsed == {m \in LocalMembers \ done : m \in provided \/ project.dist[m] \in used}

MarkMembers ==
    /\ phase = "members"
    /\ NowUsed # {}
    /\ done' = done \cup NowUsed
    /\ used' = used \cup {project.dist[m] : m \in NowUsed}
    /\ provided' = provided \cup UNION {project.tree[m] : m \in NowUsed}
    /\ UNCHANGED <<project, manifests, strict, phase, at, weighed, issues, before, applied>>

MembersMarked ==
    /\ phase = "members"
    /\ NowUsed = {}
    /\ phase' = "companions"
    /\ UNCHANGED <<project, manifests, strict, marking, at, weighed, issues, before, applied>>

(* companion_is_used.                                                      *)
Companions ==
    {d \in DeclaredBy(Root) :
        d \in project.loaded \/ \E e \in project.peers : e[1] = d /\ e[2] \in used}

(* One round of used_companions.                                           *)
MarkCompanions ==
    /\ phase = "companions"
    /\ ~(Companions \subseteq used)
    /\ used' = used \cup Companions
    /\ UNCHANGED <<project, manifests, strict, phase, provided, done, at, weighed, issues,
                   before, applied>>

-----------------------------------------------------------------------------
UnusedIssues(s) == {Issue(2, Entry(r).name, Root, r[2], ~Entry(r).marked) : r \in Unused(used, s)}

ImportIssues(s) ==
    UNION {LET i == project.imports[n]
           IN  IF MissingFromMember(i, s) THEN {Issue(3, i.dist, i.owner, n, TRUE)}
               ELSE IF ~Undeclared(i, s) THEN {}
               ELSE {Issue(UndeclaredRule(i), i.dist, i.owner, n,
                           IF Evidence(i) = "edge" THEN TRUE
                           ELSE Evidence(i) = "none" /\ ~i.conditional)}
           : n \in DOMAIN project.imports}

Detect ==
    /\ phase = "companions"
    /\ Companions \subseteq used
    /\ issues' = UnusedIssues(strict) \cup ImportIssues(strict)
    /\ weighed' = Unweighed
    /\ at' = 1
    /\ phase' = "weigh"
    /\ UNCHANGED <<project, manifests, strict, marking, before, applied>>

Weight(n) == [known |-> TRUE, weight |-> Weigh(project.imports[n], strict),
              ignored |-> project.imports[n].ignored, origin |-> n]

(* Mutant: an ignored site lends the others its strength.                  *)
MergedAnyway(c, n) ==
    LET w == Weight(n)
    IN  IF ~c.known THEN w
        ELSE [c EXCEPT !.weight = Absorb(@, w.weight), !.ignored = @ /\ w.ignored,
                       !.origin = IF w.weight.strength > c.weight.strength THEN n ELSE @]

(* A site more of a distribution: ignored ones count only while all are.   *)
Merged(c, n) ==
    LET w == Weight(n)
    IN  IF ~c.known \/ (c.ignored /\ ~w.ignored) THEN w
        ELSE IF w.ignored /\ ~c.ignored THEN c
        ELSE [c EXCEPT !.weight = Absorb(@, w.weight),
                       !.origin = IF w.weight.strength > c.weight.strength THEN n ELSE @]

(* detect_misplaced_dependencies, one import.                              *)
WeighImport ==
    /\ phase = "weigh"
    /\ at \in DOMAIN project.imports
    /\ LET i == project.imports[at]
       IN  weighed' = IF MisplacedImport(i, strict)
                      THEN [weighed EXCEPT ![<<i.owner, i.dist>>] = Merged(@, at)]
                      ELSE weighed
    /\ at' = at + 1
    /\ UNCHANGED <<project, manifests, strict, phase, marking, issues, before, applied>>

(* ImportStrength::verdict: only TopLevel is certain. A finding whose      *)
(* sites are all ignored is silenced with them.                            *)
MisplacedIssues ==
    {Issue(5, k[2], k[1], 0, Settle(weighed[k].weight) = TopLevel) :
        k \in {k \in Owners \X Dists : weighed[k].known /\ ~weighed[k].ignored}}

Report ==
    /\ phase = "weigh"
    /\ at \notin DOMAIN project.imports
    /\ issues' = issues \cup MisplacedIssues
    /\ phase' = "reported"
    /\ UNCHANGED <<project, manifests, strict, marking, at, weighed, before, applied>>

-----------------------------------------------------------------------------
(* plan_remove_dependency: the entry that is reported.                     *)
Removals == {<<Root, i.import>> : i \in {i \in issues : i.rule = 2 /\ i.certain}}

(* member_indexes: whether the member's entries governed the finding.      *)
MemberIndexes(o, d) == Indexed(o, d) # {}

GoverningManifest(i) ==
    IF strict /\ i.owner # Root /\ MemberIndexes(i.owner, i.dist) THEN i.owner ELSE Root

(* plan_move_to_runtime: the one group entry, if nothing else declares it. *)
MovesFor(i) ==
    LET entries == {r \in Named(GoverningManifest(i), i.dist) : ~Entry(r).opaque}
        grouped == {r \in entries : Entry(r).context = "group"}
    IN  {r \in entries : entries = grouped /\ grouped = {r} /\ Entry(r).movable}

Moves == UNION {MovesFor(i) : i \in {i \in issues : i.rule = 5 /\ i.certain}}

Plan == {[kind |-> "remove", ref |-> r, entry |-> Entry(r)] : r \in Removals}
        \cup {[kind |-> "move", ref |-> r, entry |-> Entry(r)] : r \in Moves}

(* Mutant: the requirement is rebuilt without its extras.                  *)
MovedBare(e) == [e EXCEPT !.context = "runtime", !.via = {}, !.extras = FALSE]

(* MoveToRuntime, rebuild_requirement_string.                              *)
Moved(e) == [e EXCEPT !.context = "runtime", !.via = {}]

(* The entries of one manifest after the edits. Order tells only entries   *)
(* of one name apart, and a moved one is the only one of its name.         *)
Edited(o) ==
    [n \in {n \in DOMAIN manifests[o] : <<o, n>> \notin Removals} |->
        IF <<o, n>> \in Moves THEN Moved(Entry(<<o, n>>)) ELSE Entry(<<o, n>>)]

Fix ==
    /\ phase = "reported"
    /\ Plan # {}
    /\ manifests' = [o \in Owners |-> Edited(o)]
    /\ before' = issues
    /\ applied' = Plan
    /\ issues' = {}
    /\ phase' = "collect"
    /\ UNCHANGED <<project, strict, marking, at, weighed>>

NothingToFix == phase = "reported" /\ Plan = {} /\ UNCHANGED vars

Next ==
    \/ CollectUsed \/ MarkMembers \/ MembersMarked \/ MarkCompanions
    \/ Detect \/ WeighImport \/ Report \/ Fix \/ NothingToFix

Spec == Init /\ [][Next]_vars

-----------------------------------------------------------------------------
(* The least set of distributions closed under every way to be used.       *)
IsClosed(S) ==
    LET members == {m \in LocalMembers : project.dist[m] \in S}
        imported == project.provided \cup UNION {project.tree[m] : m \in members}
    IN  /\ Evident \subseteq S
        /\ PytestPlugins(Evident) \subseteq S
        /\ project.first_party \cap project.local \subseteq S
        /\ \A m \in LocalMembers \cap imported : project.dist[m] \in S
        /\ \A d \in DeclaredBy(Root) :
              d \in project.loaded \/ (\E e \in project.peers : e[1] = d /\ e[2] \in S)
              => d \in S

(* A local member that is the companion of a distribution is found last,   *)
(* and what its tree imports is not.                                       *)
CompanionMember ==
    \E m \in LocalMembers :
        project.dist[m] \in project.loaded \cup {e[1] : e \in project.peers}

(* Whatever leads to it and in however many rounds, a distribution counts  *)
(* as used exactly if it is in the least set that is closed under imports, *)
(* pytest's plugins, the trees of used members and companions.             *)
UsedIsLeast ==
    phase = "weigh" /\ ~CompanionMember =>
        used = {d \in Dists : \A S \in SUBSET Dists : IsClosed(S) => d \in S}

-----------------------------------------------------------------------------
(* A manifest that speaks for the file of a runtime import declares it for *)
(* runtime: under --strict the member's own, otherwise that or the root's. *)
Covered(i) ==
    \/ DirectlyDeclared(Indexed(i.owner, i.dist), "runtime")
    \/ ~strict /\ DirectlyDeclared(Indexed(Root, i.dist), "runtime")

FoundBy(n) ==
    {i \in issues : i.import = n /\ i.rule \in {3, 4}}
        \cup {i \in issues : /\ i.rule = 5
                             /\ i.owner = project.imports[n].owner
                             /\ i.dist = project.imports[n].dist}

Silenced(n) ==
    LET k == <<project.imports[n].owner, project.imports[n].dist>>
    IN  weighed[k].known /\ weighed[k].ignored

(* "Missing and misplaced detection share this lookup so that at most one  *)
(* of them fires per import": a runtime import that is not covered is      *)
(* reported by exactly one rule, any other by none.                        *)
OneVerdict ==
    phase = "reported" =>
        \A n \in DOMAIN project.imports :
            RuntimeImport(project.imports[n]) /\ ~Silenced(n) =>
                Cardinality(FoundBy(n)) = IF Covered(project.imports[n]) THEN 0 ELSE 1

-----------------------------------------------------------------------------
(* How firmly one site is held, read off the table of the rule.            *)
ByTable(i) ==
    LET position ==
            IF i.site = Optional THEN Optional
            ELSE CASE i.reach = 0 -> Deferred
                   [] i.reach = 1 -> Optional
                   [] i.reach = 2 -> IF i.site = TopLevel THEN Exposed ELSE i.site
                   [] i.reach = 3 -> i.site
    IN  IF i.host_loaded THEN HostLoaded
        ELSE IF OptedIn(i, strict) THEN OptIn
        ELSE IF i.command THEN Command
        ELSE IF i.test_support /\ position # TopLevel THEN TestSupport
        ELSE position

(* "Order does not matter: the first import found decides nothing", and    *)
(* "an ignored site drops out before the sites are weighed": what is said  *)
(* of a distribution follows from the set of its sites that are not        *)
(* ignored, or of all if all are; the site named is one of the strongest.  *)
WeighedAsASet ==
    phase = "reported" =>
        \A k \in Owners \X Dists :
            LET all == {n \in DOMAIN project.imports :
                           /\ MisplacedImport(project.imports[n], strict)
                           /\ k = <<project.imports[n].owner, project.imports[n].dist>>}
                heard == {n \in all : ~project.imports[n].ignored}
                sites == IF heard = {} THEN all ELSE heard
                Strength(n) == ByTable(project.imports[n])
                strongest == {n \in sites : \A o \in sites : Strength(o) <= Strength(n)}
                optional == \/ k \in project.predicates
                            \/ \E n \in sites : /\ project.imports[n].site = Optional
                                                /\ ~project.imports[n].platform
            IN  /\ weighed[k].known <=> all # {}
                /\ all # {} =>
                      /\ weighed[k].ignored <=> heard = {}
                      /\ weighed[k].origin \in strongest
                      /\ \A n \in strongest :
                            Settle(weighed[k].weight) =
                                IF Strength(n) = Deferred /\ optional THEN DeferredOptional
                                ELSE Strength(n)

-----------------------------------------------------------------------------
(* Whether an issue is told apart from another by what it is about.        *)
SameFinding(i, j) ==
    /\ i.rule = j.rule
    /\ i.dist = j.dist
    /\ i.owner = j.owner
    /\ i.rule \in {3, 4} => i.import = j.import

DefaultIssues ==
    UnusedIssues(FALSE) \cup ImportIssues(FALSE)
        \cup {Issue(5, i.dist, i.owner, 0, FALSE) :
                 i \in {i \in Imports : MisplacedImport(i, FALSE) /\ ~i.ignored}}

(* "--strict keeps every finding of the default run", but for an import    *)
(* that its member declares, though not for runtime: then the finding is   *)
(* that the declaration is misplaced, and a comment at the import that     *)
(* ignores this rule silences it.                                          *)
StrictKeepsMost ==
    phase = "reported" /\ strict =>
        \A i \in DefaultIssues :
            \/ \E j \in issues : SameFinding(i, j)
            \/ /\ i.rule \in {3, 4}
               /\ Indexed(i.owner, i.dist) # {}
               /\ \/ \E j \in issues : j.rule = 5 /\ j.owner = i.owner /\ j.dist = i.dist
                  \/ Silenced(i.import)

-----------------------------------------------------------------------------
(* "A fix removes the issues it applies and adds none": no analysis after  *)
(* a fix says anything of a distribution in a place where the one before   *)
(* said nothing, nor that what was moved is misplaced. But a removed entry *)
(* may have brought an extra that is imported, one that is removed or      *)
(* moved may have made its group that of the build environment, and under  *)
(* --strict what is moved to the root's runtime list is missing from the   *)
(* members'.                                                               *)
Counterpart(i, j) ==
    \/ SameFinding(i, j)
    \/ {i.rule, j.rule} \subseteq {3, 4} /\ i.import = j.import

Brought(f, d) == f.entry.extras /\ d \in project.locks[Root].extras[f.entry.name]

BroughtExtra(i) == \E f \in applied : f.kind = "remove" /\ Brought(f, i.dist)

MadeBuildGroup(i) ==
    /\ i.rule = 2 /\ i.dist \in project.build_constraints
    /\ \E f \in applied : f.entry.name \in project.build_requires

MovedToRoot(i) ==
    /\ strict /\ i.rule = 3 /\ i.owner # Root
    /\ \E f \in applied : /\ f.kind = "move" /\ f.ref[1] = Root
                          /\ f.entry.name = i.dist \/ Brought(f, i.dist)

FixesAddLittle ==
    phase = "reported" /\ applied # {} =>
        \A i \in issues :
            /\ \/ \E j \in before : Counterpart(i, j)
               \/ BroughtExtra(i) \/ MadeBuildGroup(i)
               \/ MovedToRoot(i)
            /\ i.rule = 5 =>
                  ~\E f \in applied : /\ f.kind = "move"
                                      /\ f.entry.name = i.dist
                                      /\ f.ref[1] = GoverningManifest(i)
=============================================================================
