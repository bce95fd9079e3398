----------------------------- MODULE ReachModel -----------------------------
(***************************************************************************)
(* What the reachability walk is computed from, and what it computes: the  *)
(* classes a file can be reached at, what one import site passes on, and   *)
(* the assignment of classes the walk has to arrive at.                    *)
(*                                                                         *)
(* A project is a record:                                                  *)
(*   roots        the entry roots, in order, with whether only the public  *)
(*                surface of a library subpackage names them;              *)
(*   plugin_refs  the files plugin module references resolve to, in order  *)
(*                (the module, then its packages), with whether the file   *)
(*                registers itself and is judged as a library;             *)
(*   framework    the files framework globs match, in source order;        *)
(*   sites        the import sites of each file in the order the walk      *)
(*                reads them: one per resolved target of an import;        *)
(*   runtime      the files whose context is Runtime;                      *)
(*   library      the files judged in library mode;                        *)
(*   submodule    the files below a package with a runtime __init__.py.    *)
(***************************************************************************)
EXTENDS Integers, Sequences, ProjectFiles

CONSTANTS
    Modules,    \* standard-library and third-party module names
    Projects    \* the projects the walk is run on

(* How surely a reached file loads, weakest first; 0 is "not reached". *)
NotReached == 0
Reachable  == 1
Eager      == 2
Exposed    == 3
Certain    == 4

Reach   == {Reachable, Eager, Exposed, Certain}
Classes == Reach \cup {NotReached}

Weaker(c, d) == IF c <= d THEN c ELSE d
Better(c, d) == IF c <= d THEN d ELSE c

-----------------------------------------------------------------------------
(* "import": the module an import names, a package above it, a submodule a *)
(* from-import names, or a module below a literal import prefix.           *)
(* "listed": a module named in a list of dotted names; "listed_package":   *)
(* a package above it. "external": a stdlib or third-party module.         *)
FileSite     == [kind : {"import", "listed", "listed_package"}, to : Files,
                 lazy : BOOLEAN, optional : BOOLEAN]
ExternalSite == [kind : {"external"}, to : Modules,
                 lazy : BOOLEAN, optional : BOOLEAN]
Site         == FileSite \cup ExternalSite

EntryRoot == [file : Files, only_public : BOOLEAN]
PluginRef == [file : Files, self_registered : BOOLEAN, library : BOOLEAN]

IsProject(p) ==
    /\ p.roots \in Seq(EntryRoot)
    /\ p.plugin_refs \in Seq(PluginRef)
    /\ p.framework \in Seq(Files)
    /\ p.sites \in [Files -> Seq(Site)]
    /\ p.runtime \subseteq Files
    /\ p.library \subseteq Files
    /\ p.submodule \subseteq Files

ASSUME ProjectsAssumption == \A p \in Projects : IsProject(p)

-----------------------------------------------------------------------------
(* A public subpackage's root is reached only by outside callers (#802). *)
RootClass(root) == IF root.only_public THEN Exposed ELSE Certain

(* A library module's own decorators register it only once it is imported. *)
PluginRefClass(ref) ==
    IF ref.self_registered /\ ref.library THEN Exposed ELSE Certain

(* The class a followed site of file `from`, itself followed at class c,   *)
(* passes on to the file it names.                                         *)
EdgeClass(p, from, c, site) ==
    LET always == IF from \notin p.runtime /\ site.to \in p.submodule
                  THEN Weaker(c, Exposed) ELSE c
    IN  IF \/ site.kind # "import"
           \/ c = Reachable
           \/ site.lazy
           \/ from \notin p.runtime /\ site.to \notin p.library
        THEN Reachable
        ELSE IF site.optional THEN Weaker(always, Eager) ELSE always

IsFileSite(site) == site.kind # "external"

FollowedSites(p, f) == {i \in 1..Len(p.sites[f]) : IsFileSite(p.sites[f][i])}

-----------------------------------------------------------------------------
(* What the walk computes. An assignment of classes is closed when every   *)
(* seed has its class and every site of a reached file passes its class    *)
(* on; the walk's answer is the least closed assignment, which does not    *)
(* depend on the order files and sites are visited in.                     *)
SeedsHold(p, class) ==
    /\ \A i \in 1..Len(p.roots) : class[p.roots[i].file] >= RootClass(p.roots[i])
    /\ \A i \in 1..Len(p.plugin_refs) :
          class[p.plugin_refs[i].file] >= PluginRefClass(p.plugin_refs[i])
    /\ \A i \in 1..Len(p.framework) : class[p.framework[i]] >= Certain

SitesHold(p, class) ==
    \A f \in Files :
        class[f] # NotReached =>
            \A i \in FollowedSites(p, f) :
                class[p.sites[f][i].to] >= EdgeClass(p, f, class[f], p.sites[f][i])

Closed(p, class) == SeedsHold(p, class) /\ SitesHold(p, class)

IsLeastClosed(p, class) ==
    /\ Closed(p, class)
    /\ \A other \in [Files -> Classes] :
          Closed(p, other) => \A f \in Files : class[f] <= other[f]
=============================================================================
