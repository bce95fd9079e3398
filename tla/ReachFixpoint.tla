---------------------------- MODULE ReachFixpoint ----------------------------
(***************************************************************************)
(* What reachability analysis promises, whatever the order of the walk:    *)
(* classes only ever rise, one file at a time, each rise is owed to a seed *)
(* or to one import site of a reached file, and the rises go on until the  *)
(* assignment is closed.                                                   *)
(***************************************************************************)
EXTENDS ReachModel

VARIABLES project, class

vars == <<project, class>>

Init ==
    /\ project \in Projects
    /\ class = [f \in Files |-> NotReached]

Raise(f, c) ==
    /\ c > class[f]
    /\ class' = [class EXCEPT ![f] = c]
    /\ UNCHANGED project

RaiseSeed ==
    \/ \E i \in 1..Len(project.roots) :
          Raise(project.roots[i].file, RootClass(project.roots[i]))
    \/ \E i \in 1..Len(project.plugin_refs) :
          Raise(project.plugin_refs[i].file, PluginRefClass(project.plugin_refs[i]))
    \/ \E i \in 1..Len(project.framework) : Raise(project.framework[i], Certain)

RaiseAlongSite ==
    \E f \in Files :
        /\ class[f] # NotReached
        /\ \E i \in FollowedSites(project, f) :
              Raise(project.sites[f][i].to,
                    EdgeClass(project, f, class[f], project.sites[f][i]))

Next == RaiseSeed \/ RaiseAlongSite

SafeSpec == Init /\ [][Next]_vars
Spec == SafeSpec /\ WF_vars(Next)
=============================================================================
