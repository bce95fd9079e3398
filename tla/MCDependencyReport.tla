------------------------- MODULE MCDependencyReport -------------------------
(***************************************************************************)
(* Four kinds of projects: declarations of two distributions in a root and *)
(* a member, with an import or two and lockfiles; entries that the content *)
(* of the project or the command line takes out of the comparison; sites   *)
(* of one dev distribution that differ in what CHK005 weighs; and four     *)
(* distributions, two of them members, that bring each other into use.     *)
(***************************************************************************)
EXTENDS DependencyReport, TLC

CONSTANTS p, q, r, s, root, m, n, g, none

MCDists == {p, q, r, s}
MCMembers == {m, n}

Nowhere == [o \in Owners |-> <<>>]

NoLock == [listed |-> {}, edges |-> [d \in Dists |-> {}], extras |-> [d \in Dists |-> {}]]

Plain ==
    [manifests |-> Nowhere, imports |-> <<>>, locks |-> [o \in Owners |-> NoLock],
     production |-> FALSE, metapackage |-> FALSE, build_requires |-> {},
     build_constraints |-> {}, predicates |-> {}, whole |-> {}, own |-> none,
     configured |-> {}, pytest |-> none, plugins |-> {}, installed |-> {}, local |-> {},
     dist |-> (m :> r @@ n :> s), first_party |-> {}, provided |-> {},
     tree |-> [o \in Members |-> {}], peers |-> {}, loaded |-> {}]

Declare(d, context, group) ==
    [name |-> d, context |-> context, group |-> group, via |-> {}, marked |-> FALSE,
     extras |-> FALSE, opaque |-> FALSE, movable |-> TRUE]

Runtime(d) == Declare(d, "runtime", "dev")
Dev(d) == Declare(d, "group", "dev")

Import(d, o) ==
    [dist |-> d, owner |-> o, place |-> "reached", runs |-> TRUE, provided |-> FALSE,
     usage |-> "runtime", site |-> TopLevel, conditional |-> FALSE, platform |-> FALSE,
     reach |-> 3, opt_in |-> FALSE, named |-> NoPackage, within |-> {}, command |-> FALSE,
     test_support |-> FALSE, host_loaded |-> FALSE, ignored |-> FALSE]

Try(i) == [i EXCEPT !.site = Optional, !.conditional = TRUE]

-----------------------------------------------------------------------------
(* p is imported; q requires it and has an extra that adds it.             *)
PEntries ==
    {Runtime(p), Dev(p), Declare(p, "group", "type"), Declare(p, "extra", "dev"),
     [Dev(p) EXCEPT !.via = {"runtime"}], [Runtime(p) EXCEPT !.marked = TRUE]}

ManyEntries ==
    PEntries \cup
    {[Dev(p) EXCEPT !.movable = FALSE], Runtime(q), [Runtime(q) EXCEPT !.extras = TRUE],
     [Dev(q) EXCEPT !.extras = TRUE], [Runtime(q) EXCEPT !.opaque = TRUE]}

RootManifests ==
    {<<>>} \cup {<<e>> : e \in ManyEntries} \cup {<<e, f>> : e \in PEntries, f \in ManyEntries}

MemberManifests ==
    {<<>>, <<Runtime(p)>>, <<Dev(p)>>, <<Declare(p, "group", "type")>>,
     <<[Dev(q) EXCEPT !.extras = TRUE]>>, <<Runtime(q)>>}

Lock(listed) ==
    [NoLock EXCEPT !.listed = listed, !.edges[q] = IF q \in listed THEN {p} ELSE {}]

ExtraLock == [NoLock EXCEPT !.listed = {p, q}, !.extras[q] = {p}]

(* Imports, the root's lockfile and the member's.                          *)
ImportsAndLocks ==
    {<<<<Import(p, root)>>, ExtraLock, NoLock>>,
     <<<<Import(p, m)>>, NoLock, NoLock>>,
     <<<<Import(p, m)>>, ExtraLock, NoLock>>,
     <<<<[Import(p, m) EXCEPT !.ignored = TRUE]>>, NoLock, NoLock>>,
     <<<<Try(Import(p, m)), Import(p, root)>>, Lock({p, q}), NoLock>>,
     <<<<Import(p, m)>>, Lock({p}), ExtraLock>>,
     <<<<[Import(p, m) EXCEPT !.usage = "dev"], [Import(p, root) EXCEPT !.usage = "type"]>>,
       NoLock, NoLock>>,
     <<<<[Import(p, m) EXCEPT !.usage = "type"], Import(q, m)>>, ExtraLock, NoLock>>,
     <<<<[Import(p, root) EXCEPT !.runs = FALSE], Try(Import(q, root))>>, NoLock, NoLock>>,
     <<<<[Import(p, m) EXCEPT !.place = "public"], [Import(q, m) EXCEPT !.provided = TRUE]>>,
       NoLock, NoLock>>}

Declaring ==
    {[Plain EXCEPT !.manifests[root] = x, !.manifests[m] = y, !.imports = l[1],
                   !.locks[root] = l[2], !.locks[m] = l[3]] :
        x \in RootManifests, y \in MemberManifests, l \in ImportsAndLocks}

(* Entries that are content, build environment or held back.               *)
Special ==
    {[Plain EXCEPT !.manifests[root] = <<x[1], x[2]>>, !.metapackage = a,
                   !.production = b, !.build_requires = c, !.build_constraints = {p},
                   !.imports = i] :
        x \in {<<e, f>> : e \in PEntries, f \in ManyEntries}, a \in BOOLEAN, b \in BOOLEAN,
        c \in {{}, {q}}, i \in {<<>>, <<Import(q, root)>>}}

-----------------------------------------------------------------------------
(* p is a dev distribution, q one that is opted into; the sites are many.  *)
ManySites ==
    {Import(p, root), [Import(p, root) EXCEPT !.site = Deferred], Try(Import(p, root)),
     [Try(Import(p, root)) EXCEPT !.platform = TRUE],
     [Import(p, root) EXCEPT !.reach = 0], [Import(p, root) EXCEPT !.reach = 1],
     [Import(p, root) EXCEPT !.reach = 2],
     [Import(p, root) EXCEPT !.within = {g}],
     [Import(p, root) EXCEPT !.command = TRUE],
     [Import(p, root) EXCEPT !.test_support = TRUE, !.reach = 2],
     [Import(p, root) EXCEPT !.host_loaded = TRUE, !.site = Deferred],
     [Import(q, root) EXCEPT !.within = {g}, !.named = g]}

Heard(sites) == {[i EXCEPT !.ignored = b] : i \in sites, b \in BOOLEAN}

FewSites ==
    {Import(p, root), [Import(p, root) EXCEPT !.site = Deferred], Try(Import(p, root)),
     [Import(p, root) EXCEPT !.within = {g}]}

SiteLists ==
    (Heard(ManySites) \X Heard(ManySites))
        \cup (Heard(FewSites) \X Heard(FewSites) \X Heard(FewSites))

Weighing ==
    {[Plain EXCEPT !.manifests[root] = <<Dev(p), x>>, !.imports = l, !.predicates = y] :
        x \in {Dev(q), Declare(q, "extra", "dev")}, y \in {{}, {<<root, p>>}},
        l \in SiteLists}

-----------------------------------------------------------------------------
(* r and s are the members m and n.                                        *)
Trees == [Members -> SUBSET Members]

Using ==
    {[Plain EXCEPT !.manifests[root] = <<Runtime(p), Runtime(q), Runtime(r), Dev(s)>>,
                   !.imports = u, !.local = l, !.configured = c, !.pytest = t, !.plugins = {r},
                   !.first_party = f, !.provided = v, !.tree = x, !.peers = y] :
        u \in {<<>>, <<Import(p, root)>>}, l \in {{s}, {r, s}}, c \in {{}, {q}, {s}},
        t \in {none, q}, f \in {{}, {s}}, v \in SUBSET {m, n},
        x \in {y \in Trees : m \notin y[m] /\ n \notin y[n]},
        y \in {{}, {<<p, s>>}, {<<p, q>>, <<r, p>>}}}

MCProjects == Declaring \cup Special \cup Weighing \cup Using
=============================================================================
