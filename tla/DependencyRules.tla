-------------------------- MODULE DependencyRules --------------------------
(***************************************************************************)
(* What the dependency rules of src/rules/deps make of declarations and    *)
(* imports in a workspace: which declarations speak for an import, which   *)
(* declared distributions are unused (CHK002), which imports are missing   *)
(* (CHK003), only installed through others (CHK004) or declared for        *)
(* development only (CHK005), and how firmly the last is held.             *)
(*                                                                         *)
(* A project is a record of what does not change while it is analysed and  *)
(* fixed: its imports, in the order of resolution, its lockfiles, and what *)
(* else uses a distribution. A manifest, the root's or a member's, has its *)
(* entries at positions in the order they are loaded.                      *)
(***************************************************************************)
EXTENDS Integers, Sequences, FiniteSets

CONSTANTS
    Dists,          \* the distributions
    Members,        \* the members of the workspace
    Root,           \* the root, also the owner of files outside all members
    Packages,       \* subpackages that are named after a library
    NoPackage,      \* in place of such a subpackage
    Projects        \* the projects

ASSUME OwnersAssumption == Root \notin Members /\ NoPackage \notin Packages

Owners == Members \cup {Root}

(* DeclarationBucket.                                                      *)
GroupBuckets == {"runtime", "dev", "type"}

(* A declared dependency: `group` is what the configuration takes its      *)
(* group for, `via` that of the groups that include it; `marked` if its    *)
(* marker may leave it out, `extras` if it requests the extra that its     *)
(* distribution has, and `movable` if --fix knows how to move it.          *)
Entries ==
    [name: Dists, context: {"runtime", "group", "extra"}, group: GroupBuckets,
     via: SUBSET GroupBuckets, marked: BOOLEAN, extras: BOOLEAN, opaque: BOOLEAN,
     movable: BOOLEAN]

(* A lockfile: the packages listed, what each depends on and what its      *)
(* extra adds, listed too. Without a lockfile nothing is listed.           *)
IsLock(l) ==
    /\ l.listed \subseteq Dists
    /\ l.edges \in [Dists -> SUBSET l.listed]
    /\ l.extras \in [Dists -> SUBSET l.listed]
    /\ \A d \in Dists \ l.listed : l.edges[d] = {} /\ l.extras[d] = {}

(* ImportStrength, weakest first.                                          *)
HostLoaded == 0
OptIn == 1
Command == 2
TestSupport == 3
Optional == 4
DeferredOptional == 5
Deferred == 6
Exposed == 7
TopLevel == 8

(* A third-party import of `dist` by a file of `owner`: where the file is  *)
(* (`public`: an unreached module of a library; `outside`: a config file), *)
(* whether some supported Python runs it, whether its build environment or *)
(* notebook provides it, and the signals that CHK005 weighs. `reach` is    *)
(* how firmly the file is reached: 1 eagerly, 2 also exposed, 3 certain.   *)
(* The file may be in subpackages, the import name that of one of them.    *)
IsImport(i) ==
    /\ i \in [dist: Dists, owner: Owners,
              place: {"reached", "public", "outside", "unreached"},
              usage: {"runtime", "type", "dev"}, site: {Optional, Deferred, TopLevel},
              reach: 0..3, within: SUBSET Packages, named: Packages \cup {NoPackage},
              runs: BOOLEAN, provided: BOOLEAN, conditional: BOOLEAN, platform: BOOLEAN,
              opt_in: BOOLEAN, command: BOOLEAN, test_support: BOOLEAN,
              host_loaded: BOOLEAN, ignored: BOOLEAN]
    /\ i.named \in i.within \cup {NoPackage}
    /\ i.conditional => i.site = Optional
    /\ i.platform => i.conditional

(* Entries are told apart by positions, in the order they are loaded.      *)
IsManifests(ms) ==
    /\ DOMAIN ms = Owners
    /\ \A o \in Owners : \A n \in DOMAIN ms[o] : n \in Nat /\ ms[o][n] \in Entries

IsProject(p) ==
    /\ IsManifests(p.manifests)
    /\ p.imports \in Seq({p.imports[n] : n \in DOMAIN p.imports})
    /\ \A n \in DOMAIN p.imports : IsImport(p.imports[n])
    /\ \A o \in Owners : IsLock(p.locks[o])

VARIABLES
    project,    \* the project
    manifests   \* the manifests as they are now

-----------------------------------------------------------------------------
(* declaration_bucket, declaration_buckets.                                *)
Bucket(e) ==
    CASE e.context = "runtime" -> "runtime"
      [] e.context = "group" -> e.group
      [] e.context = "extra" -> "optional"

Buckets(e) == {Bucket(e)} \cup e.via

(* bucket_matches_usage.                                                   *)
Matching ==
    [runtime |-> {"runtime", "optional"},
     type |-> {"type", "runtime", "optional"},
     dev |-> {"dev", "runtime", "optional"}]

Matches(e, usage) == Buckets(e) \cap Matching[usage] # {}

-----------------------------------------------------------------------------
(* The declarations that speak for an import. An entry is named by its     *)
(* owner and position.                                                     *)
Refs(o) == {o} \X DOMAIN manifests[o]

Entry(r) == manifests[r[1]][r[2]]

Named(o, d) == {r \in Refs(o) : Entry(r).name = d}

DeclaredBy(o) == {Entry(r).name : r \in Refs(o)}

HasLock(o) == project.locks[o].listed # {}

(* own_lockfile: a member without a lockfile reads the root's.             *)
LockOf(o) == project.locks[IF HasLock(o) THEN o ELSE Root]

(* build_import_declared_index: the extra that an entry requests is        *)
(* declared with it.                                                       *)
Indexed(o, d) ==
    Named(o, d) \cup {r \in Refs(o) : /\ Entry(r).extras
                                      /\ d \in LockOf(o).extras[Entry(r).name]}

DirectlyDeclared(refs, usage) == \E r \in refs : Matches(Entry(r), usage)

(* ImportDeclarations::member_satisfies: only a member's own declarations, *)
(* for an import by that member.                                           *)
MemberSatisfies(i, usage) ==
    i.owner # Root /\ DirectlyDeclared(Indexed(i.owner, i.dist), usage)

(* Mutant: the member's entries govern a default run too.                  *)
GoverningMemberFirst(i, strict) ==
    IF Indexed(i.owner, i.dist) # {} THEN Indexed(i.owner, i.dist) ELSE Indexed(Root, i.dist)

(* Mutant: the fallback to the root is forgotten.                          *)
GoverningOwn(i, strict) == Indexed(IF strict THEN i.owner ELSE Root, i.dist)

(* ImportDeclarations::governing.                                          *)
Governing(i, strict) ==
    IF strict /\ Indexed(i.owner, i.dist) # {}
    THEN Indexed(i.owner, i.dist)
    ELSE Indexed(Root, i.dist)

-----------------------------------------------------------------------------
(* CHK002. Entries of a metapackage that are distributed are its content,  *)
(* and the build environment's pins import nothing.                        *)
BuildPin(r) ==
    LET e == Entry(r)
    IN  /\ e.name \in project.build_constraints
        /\ e.context = "group"
        /\ \E s \in Refs(Root) : /\ Entry(s).context = "group"
                                 /\ Entry(s).group = e.group
                                 /\ Entry(s).name \in project.build_requires

Considered ==
    {r \in Refs(Root) : /\ project.metapackage => Entry(r).context = "group"
                        /\ ~BuildPin(r)}

(* should_suppress_unused_report.                                          *)
Suppressed(e, strict) ==
    \/ project.production /\ Buckets(e) \subseteq {"dev", "type"}
    \/ ~strict /\ (Buckets(e) = {"dev"} \/ e.context = "extra")

(* report_order: as a default run would report them.                       *)
ReportedBefore(r, s) ==
    LET rank(t) == (IF Suppressed(Entry(t), FALSE) THEN 2 ELSE 0)
                   + (IF Entry(t).marked THEN 1 ELSE 0)
    IN  \/ rank(r) < rank(s)
        \/ rank(r) = rank(s) /\ r[2] < s[2]

(* The first entry of each unused name, if it may be reported.             *)
Unused(used, strict) ==
    {r \in Considered :
        LET e == Entry(r)
        IN  /\ ~e.opaque
            /\ \A s \in Considered \ {r} :
                  Entry(s).name = e.name /\ ~Entry(s).opaque => ReportedBefore(r, s)
            /\ e.name \notin used
            /\ ~Suppressed(e, strict)
            /\ strict \/ ~e.marked}

-----------------------------------------------------------------------------
(* CHK003 and CHK004. An import that needs a declaration.                  *)
Checked(i) == i.runs /\ i.place = "reached" /\ ~i.provided

NeedsDeclaring(i, strict) ==
    /\ Checked(i)
    /\ ~MemberSatisfies(i, i.usage)
    /\ strict \/ i.usage = "runtime"

(* Only the root declares what the member imports.                         *)
MissingFromMember(i, strict) ==
    /\ NeedsDeclaring(i, strict)
    /\ strict
    /\ i.owner # Root
    /\ Indexed(i.owner, i.dist) = {}
    /\ DirectlyDeclared(Indexed(Root, i.dist), i.usage)

Undeclared(i, strict) ==
    /\ NeedsDeclaring(i, strict)
    /\ ~MissingFromMember(i, strict)
    /\ Governing(i, strict) = {}

(* What the edges of a lockfile reach.                                     *)
Closure(lock, roots) ==
    LET reached[n \in 0..Cardinality(Dists)] ==
            IF n = 0 THEN roots
            ELSE reached[n - 1] \cup UNION {lock.edges[e] : e \in reached[n - 1]}
    IN  reached[Cardinality(Dists)]

(* lock_evidence, by the member's own lockfile and the root's, from all    *)
(* that the owner declares but the distribution itself.                    *)
Evidence(i) ==
    LET locks == {project.locks[o] : o \in {o \in {i.owner, Root} : HasLock(o)}}
    IN  IF \E l \in locks : i.dist \in Closure(l, DeclaredBy(i.owner) \ {i.dist}) THEN "edge"
        ELSE IF \E l \in locks : i.dist \in l.listed THEN "listed"
        ELSE "none"

(* undeclared_candidate: under `try:` only an edge makes it CHK004.        *)
UndeclaredRule(i) ==
    IF Evidence(i) = "edge" \/ (Evidence(i) = "listed" /\ ~i.conditional) THEN 4 ELSE 3

-----------------------------------------------------------------------------
(* CHK005. A runtime import whose declarations are none for runtime.       *)
RuntimeImport(i) == Checked(i) /\ i.usage = "runtime"

MisplacedImport(i, strict) ==
    /\ RuntimeImport(i)
    /\ ~MemberSatisfies(i, "runtime")
    /\ Governing(i, strict) # {}
    /\ \A r \in Governing(i, strict) : Buckets(Entry(r)) \cap {"runtime", "optional"} = {}

Imports == {project.imports[n] : n \in DOMAIN project.imports}

(* integration_packages: subpackages named after a library that is opted   *)
(* into, unless one is all that its member has.                            *)
Integrations(strict) ==
    {i.named : i \in {i \in Imports :
        /\ RuntimeImport(i)
        /\ i.named # NoPackage
        /\ ~MemberSatisfies(i, "runtime")
        /\ Governing(i, strict) # {}
        /\ \A r \in Governing(i, strict) : "runtime" \notin Buckets(Entry(r))}}
    \ project.whole

(* is_opt_in_import, in_integration.                                       *)
OptedIn(i, strict) ==
    i.opt_in \/ i.named # NoPackage \/ i.within \cap Integrations(strict) # {}

AtMost(s, t) == IF s < t THEN s ELSE t

(* ImportSignals::weigh: what its position in file and package says, then  *)
(* what its file is for.                                                   *)
ByReach(i) ==
    CASE i.reach = 0 -> AtMost(i.site, Deferred)
      [] i.reach = 1 -> AtMost(i.site, Optional)
      [] i.reach = 2 -> AtMost(i.site, Exposed)
      [] i.reach = 3 -> i.site

ByPurpose(i, strict) ==
    LET opted == IF OptedIn(i, strict) THEN AtMost(ByReach(i), OptIn) ELSE ByReach(i)
        commanded == IF i.command THEN AtMost(opted, Command) ELSE opted
    IN  IF i.test_support /\ commanded < TopLevel THEN AtMost(commanded, TestSupport)
        ELSE commanded

Weigh(i, strict) ==
    [strength |-> IF i.host_loaded THEN HostLoaded ELSE ByPurpose(i, strict),
     elsewhere |-> \/ i.site = Optional /\ ~i.platform
                   \/ /\ ByPurpose(i, strict) = Deferred
                      /\ <<i.owner, i.dist>> \in project.predicates]

(* Weight::absorb, Weight::settle.                                         *)
Absorb(w, v) ==
    [strength |-> IF v.strength > w.strength THEN v.strength ELSE w.strength,
     elsewhere |-> w.elsewhere \/ v.elsewhere]

Settle(w) ==
    IF w.strength = Deferred /\ w.elsewhere THEN DeferredOptional ELSE w.strength
=============================================================================
