-------------------------- MODULE MCReachabilityBfs --------------------------
(***************************************************************************)
(* Small projects for ReachabilityBfs: three files, every way the first    *)
(* reads two import sites, cycles through the other two, a stdlib use that *)
(* a second following could record again, and the seeds that tell the      *)
(* Exposed class from the Certain one; and projects in which a fourth file *)
(* is a second entry root, from where the way to c is longer.              *)
(***************************************************************************)
EXTENDS ReachabilityBfs, TLC

CONSTANTS a, b, c, d, m

Conditions == {<<FALSE, FALSE>>, <<TRUE, FALSE>>, <<FALSE, TRUE>>}

ImportOf(f, cond) ==
    [kind |-> "import", to |-> f, lazy |-> cond[1], optional |-> cond[2]]

ImportsOf(targets) == {ImportOf(f, cond) : f \in targets, cond \in Conditions}

Other(kind, target) == [kind |-> kind, to |-> target, lazy |-> FALSE, optional |-> FALSE]

Plain == <<FALSE, FALSE>>

SitesOfA ==
    {<<ImportOf(f[1], x), ImportOf(f[2], Plain)>> : f \in {<<b, c>>, <<c, b>>}, x \in Conditions}
    \cup {<<ImportOf(f[1], Plain), ImportOf(f[2], x)>> : f \in {<<b, c>>, <<c, b>>}, x \in Conditions}

SitesOfB ==
    {<<Other("external", m), s>> :
        s \in {ImportOf(a, Plain), ImportOf(c, <<FALSE, TRUE>>),
               Other("listed", c), Other("listed_package", a)}}

SitesOfC == {<<>>} \cup {<<s>> : s \in ImportsOf({b})}
                   \cup {<<ImportOf(a, <<FALSE, TRUE>>)>>}

MCFiles == {a, b, c, d}
MCModules == {m}

Root(f, public) == [file |-> f, only_public |-> public]

Seeds ==
    {[roots |-> r, plugin_refs |-> g, framework |-> w] :
        r \in {<<Root(a, FALSE)>>, <<Root(a, TRUE), Root(c, FALSE)>>},
        g \in {<<>>, <<[file |-> b, self_registered |-> TRUE, library |-> TRUE]>>},
        w \in {<<c>>}}
    \cup {[roots |-> <<>>, plugin_refs |-> <<>>, framework |-> <<c>>]}

Layouts ==
    {[runtime |-> {a, b, c}, library |-> {}, submodule |-> {}],
     [runtime |-> {b, c}, library |-> {b}, submodule |-> {b}],
     [runtime |-> {a, b}, library |-> {a, b}, submodule |-> {a}]}

TwoWays ==
    {[roots |-> <<Root(a, FALSE), Root(d, FALSE)>>, plugin_refs |-> <<>>, framework |-> <<>>,
      sites |-> (a :> <<ImportOf(c, x)>> @@ b :> <<ImportOf(c, y)>> @@ c :> z
                    @@ d :> <<ImportOf(b, Plain)>>),
      runtime |-> Files, library |-> {}, submodule |-> {}] :
        x \in Conditions, y \in Conditions, z \in SitesOfC}

MCProjects ==
    TwoWays \cup
    {[roots |-> s.roots, plugin_refs |-> s.plugin_refs, framework |-> s.framework,
      sites |-> (a :> x @@ b :> y @@ c :> z @@ d :> <<>>),
      runtime |-> l.runtime, library |-> l.library, submodule |-> l.submodule] :
        s \in Seeds, x \in SitesOfA, y \in SitesOfB, z \in SitesOfC, l \in Layouts}
=============================================================================
