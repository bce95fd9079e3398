--------------------------- MODULE ReachabilityBfs ---------------------------
(***************************************************************************)
(* The reachability walk of src/reachability/bfs.rs, one action per loop   *)
(* iteration. A file carries the best class any path has given it so far   *)
(* and the class its imports were last followed at; a file reached again   *)
(* at a better class is queued again, so that its imports pass that class  *)
(* on. Framework-glob files are seeded once the walk from the entry roots  *)
(* and the plugin references has finished.                                 *)
(***************************************************************************)
EXTENDS ReachModel, FiniteSets

CONSTANT NoFile     \* stands for None where a file is optional

ASSUME NoFileAssumption == NoFile \notin Files
ASSUME FilesAssumption == IsFiniteSet(Files)

VARIABLES
    project,    \* the input, never written
    stage,      \* the loop of run_reachability_bfs under way
    next,       \* the index the current loop is at
    queue,      \* files waiting to be followed
    class,      \* Visit.class of each reached file
    followed,   \* Visit.followed, NotReached standing for None
    size,       \* number of files in the IndexMap `reached`
    index,      \* position of each file in `reached`, 0 if absent
    pred,       \* the `from` of each file's ReachPredecessor
    used,       \* used_modules: the sites recorded, in order
    listed,     \* files named in a list of module names by a reached file
    current,    \* the file whose imports are being recorded, or NoFile
    first,      \* whether this is the first time `current` is followed
    follows     \* history: how often each file was followed

vars == <<project, stage, next, queue, class, followed, size, index, pred,
          used, listed, current, first, follows>>

Stages == {"roots", "plugin_refs", "drain", "framework", "redrain", "done"}

TypeOK ==
    /\ IsProject(project)
    /\ stage \in Stages
    /\ next \in Nat \ {0}
    /\ queue \in Seq(Files)
    /\ class \in [Files -> Classes]
    /\ followed \in [Files -> Classes]
    /\ size \in Nat
    /\ index \in [Files -> Nat]
    /\ pred \in [Files -> Files \cup {NoFile}]
    /\ used \in Seq(Files \X (Nat \ {0}))
    /\ listed \subseteq Files
    /\ current \in Files \cup {NoFile}
    /\ first \in BOOLEAN
    /\ follows \in [Files -> Nat]

Init ==
    /\ project \in Projects
    /\ stage = "roots"
    /\ next = 1
    /\ queue = <<>>
    /\ class = [f \in Files |-> NotReached]
    /\ followed = [f \in Files |-> NotReached]
    /\ size = 0
    /\ index = [f \in Files |-> 0]
    /\ pred = [f \in Files |-> NoFile]
    /\ used = <<>>
    /\ listed = {}
    /\ current = NoFile
    /\ first = FALSE
    /\ follows = [f \in Files |-> 0]

-----------------------------------------------------------------------------
(* Mutants of EnqueueFile: a later arrival never improves a file; it       *)
(* overwrites the class even with a worse one; it records its own          *)
(* predecessor; files are stacked instead of queued.                       *)
EnqueueFileOnce(f, from, c) ==
    IF class[f] # NotReached
    THEN UNCHANGED <<class, queue, size, index, pred>>
    ELSE /\ class' = [class EXCEPT ![f] = c]
         /\ index' = [index EXCEPT ![f] = size + 1]
         /\ size' = size + 1
         /\ pred' = [pred EXCEPT ![f] = from]
         /\ queue' = Append(queue, f)

EnqueueFileAtAnyClass(f, from, c) ==
    /\ class' = [class EXCEPT ![f] = c]
    /\ queue' = IF c # class[f] THEN Append(queue, f) ELSE queue
    /\ IF class[f] # NotReached
       THEN UNCHANGED <<size, index, pred>>
       ELSE /\ index' = [index EXCEPT ![f] = size + 1]
            /\ size' = size + 1
            /\ pred' = [pred EXCEPT ![f] = from]

EnqueueFileNewPred(f, from, c) ==
    IF c <= class[f]
    THEN UNCHANGED <<class, queue, size, index, pred>>
    ELSE /\ class' = [class EXCEPT ![f] = c]
         /\ index' = IF class[f] = NotReached THEN [index EXCEPT ![f] = size + 1] ELSE index
         /\ size' = IF class[f] = NotReached THEN size + 1 ELSE size
         /\ pred' = [pred EXCEPT ![f] = from]
         /\ queue' = Append(queue, f)

EnqueueFileOnTop(f, from, c) ==
    IF c <= class[f]
    THEN UNCHANGED <<class, queue, size, index, pred>>
    ELSE /\ class' = [class EXCEPT ![f] = c]
         /\ index' = IF class[f] = NotReached THEN [index EXCEPT ![f] = size + 1] ELSE index
         /\ size' = IF class[f] = NotReached THEN size + 1 ELSE size
         /\ pred' = IF class[f] = NotReached THEN [pred EXCEPT ![f] = from] ELSE pred
         /\ queue' = <<f>> \o queue

(* enqueue_file: the first arrival records the predecessor; a later one    *)
(* counts only when it brings a better class.                              *)
EnqueueFile(f, from, c) ==
    \/ /\ class[f] = NotReached
       /\ class' = [class EXCEPT ![f] = c]
       /\ index' = [index EXCEPT ![f] = size + 1]
       /\ size' = size + 1
       /\ pred' = [pred EXCEPT ![f] = from]
       /\ queue' = Append(queue, f)
    \/ /\ class[f] # NotReached
       /\ c > class[f]
       /\ class' = [class EXCEPT ![f] = c]
       /\ queue' = Append(queue, f)
       /\ UNCHANGED <<size, index, pred>>
    \/ /\ class[f] # NotReached
       /\ c <= class[f]
       /\ UNCHANGED <<class, queue, size, index, pred>>

Walking == <<followed, used, listed, current, first, follows>>

SeedRoot ==
    /\ stage = "roots"
    /\ next <= Len(project.roots)
    /\ EnqueueFile(project.roots[next].file, NoFile, RootClass(project.roots[next]))
    /\ next' = next + 1
    /\ UNCHANGED <<project, stage, Walking>>

SeedPluginRef ==
    /\ stage = "plugin_refs"
    /\ next <= Len(project.plugin_refs)
    /\ EnqueueFile(project.plugin_refs[next].file, NoFile,
                   PluginRefClass(project.plugin_refs[next]))
    /\ next' = next + 1
    /\ UNCHANGED <<project, stage, Walking>>

SeedFramework ==
    /\ stage = "framework"
    /\ next <= Len(project.framework)
    /\ EnqueueFile(project.framework[next], NoFile, Certain)
    /\ next' = next + 1
    /\ UNCHANGED <<project, stage, Walking>>

-----------------------------------------------------------------------------
(* The queue is popped only between two calls of record_file_imports. *)
Popping == stage \in {"drain", "redrain"} /\ current = NoFile

AlreadyFollowed(f) == followed[f] # NotReached /\ followed[f] >= class[f]

(* A file queued twice before it was followed is skipped the second time. *)
Skip ==
    /\ Popping
    /\ queue # <<>>
    /\ AlreadyFollowed(Head(queue))
    /\ queue' = Tail(queue)
    /\ UNCHANGED <<project, stage, next, class, size, index, pred, Walking>>

Follow ==
    /\ Popping
    /\ queue # <<>>
    /\ LET f == Head(queue) IN
          /\ ~AlreadyFollowed(f)
          /\ followed' = [followed EXCEPT ![f] = class[f]]
          /\ follows' = [follows EXCEPT ![f] = @ + 1]
          /\ first' = (followed[f] = NotReached)
          /\ current' = f
    /\ queue' = Tail(queue)
    /\ next' = 1
    /\ UNCHANGED <<project, stage, class, size, index, pred, used, listed>>

-----------------------------------------------------------------------------
(* record_file_imports, one site at a time; the class passed on is the one *)
(* the file was popped with.                                               *)
AtSite == current # NoFile /\ next <= Len(project.sites[current])

TheSite == project.sites[current][next]

RecordImport ==
    /\ AtSite
    /\ TheSite.kind # "external"
    /\ EnqueueFile(TheSite.to, current,
                   EdgeClass(project, current, followed[current], TheSite))
    /\ listed' = IF TheSite.kind = "listed" THEN listed \cup {TheSite.to} ELSE listed
    /\ next' = next + 1
    /\ UNCHANGED <<project, stage, followed, used, current, first, follows>>

(* Mutant: a use is recorded each time its file is followed.               *)
RecordUseAgain ==
    /\ AtSite
    /\ TheSite.kind = "external"
    /\ used' = Append(used, <<current, next>>)
    /\ next' = next + 1
    /\ UNCHANGED <<project, stage, queue, class, followed, size, index, pred,
                   listed, current, first, follows>>

RecordUse ==
    /\ AtSite
    /\ TheSite.kind = "external"
    /\ used' = IF first THEN Append(used, <<current, next>>) ELSE used
    /\ next' = next + 1
    /\ UNCHANGED <<project, stage, queue, class, followed, size, index, pred,
                   listed, current, first, follows>>

FileFollowed ==
    /\ current # NoFile
    /\ next > Len(project.sites[current])
    /\ current' = NoFile
    /\ first' = FALSE
    /\ UNCHANGED <<project, stage, next, queue, class, followed, size, index,
                   pred, used, listed, follows>>

-----------------------------------------------------------------------------
LoopEnds ==
    \/ stage = "roots"       /\ next > Len(project.roots)       /\ stage' = "plugin_refs"
    \/ stage = "plugin_refs" /\ next > Len(project.plugin_refs) /\ stage' = "drain"
    \/ stage = "drain"       /\ Popping /\ queue = <<>>         /\ stage' = "framework"
    \/ stage = "framework"   /\ next > Len(project.framework)   /\ stage' = "redrain"
    \/ stage = "redrain"     /\ Popping /\ queue = <<>>         /\ stage' = "done"

NextLoop ==
    /\ LoopEnds
    /\ next' = 1
    /\ UNCHANGED <<project, queue, class, size, index, pred, Walking>>

Done == stage = "done"

Terminated == Done /\ UNCHANGED vars

Next ==
    \/ SeedRoot \/ SeedPluginRef \/ SeedFramework
    \/ Skip \/ Follow \/ RecordImport \/ RecordUse \/ FileFollowed
    \/ NextLoop \/ Terminated

Spec == Init /\ [][Next]_vars /\ WF_vars(Next)

-----------------------------------------------------------------------------
(* The walk ends with the least closed assignment of classes: no class     *)
(* depends on the order sites are read in, and none is lost because a file *)
(* was followed before its best class was known.                           *)
LeastWhenDone == Done => IsLeastClosed(project, class)

(* Following predecessors from any reached file goes strictly back through *)
(* `reached` along import sites and so ends at a seed: the loop of         *)
(* trace_to_file terminates, though classes improve after the predecessor  *)
(* was recorded.                                                           *)
TraceEndsAtSeed ==
    \A f \in Files :
        class[f] # NotReached =>
            \/ pred[f] = NoFile
            \/ /\ class[pred[f]] # NotReached
               /\ index[pred[f]] < index[f]
               /\ \E i \in FollowedSites(project, pred[f]) :
                     project.sites[pred[f]][i].to = f

(* Chains of import sites: what trace_to_file returns is the one that      *)
(* predecessors make.                                                      *)
Chains == UNION {[1..n -> Files] : n \in 1..Cardinality(Files)}

Linked(f, g) == \E i \in FollowedSites(project, f) : project.sites[f][i].to = g

LeadsTo(seeds, f) ==
    {s \in Chains : /\ s[1] \in seeds
                    /\ s[Len(s)] = f
                    /\ \A i \in 1..Len(s) - 1 : Linked(s[i], s[i + 1])}

IsTrace(s) == pred[s[1]] = NoFile /\ \A i \in 1..Len(s) - 1 : pred[s[i + 1]] = s[i]

EntrySeeds ==
    {project.roots[i].file : i \in 1..Len(project.roots)}
        \cup {project.plugin_refs[i].file : i \in 1..Len(project.plugin_refs)}

GlobSeeds == {project.framework[i] : i \in 1..Len(project.framework)}

(* The trace of a file the entry roots and plugin references reach is a    *)
(* shortest chain from one of them, and the trace of any other file is a   *)
(* shortest chain from a framework-glob file: predecessors are kept from   *)
(* the first arrival although files are followed again when they improve.  *)
TraceShortest ==
    Done =>
        \A f \in Files :
            LET entry == LeadsTo(EntrySeeds, f)
                chains == IF entry # {} THEN entry ELSE LeadsTo(GlobSeeds, f)
            IN  class[f] # NotReached =>
                    \E t \in chains : IsTrace(t) /\ \A s \in chains : Len(t) <= Len(s)

(* "No file is followed more than four times": each following is at a      *)
(* better class than the last, though a file is queued on every rise.      *)
FollowedAtMostFourTimes == \A f \in Files : follows[f] <= 4

(* Every use of a stdlib or third-party module in a reached file is in     *)
(* used_modules exactly once, though the file may be followed repeatedly.  *)
UsesRecordedOnce ==
    /\ \A i, j \in 1..Len(used) : used[i] = used[j] => i = j
    /\ Done => \A f \in Files : \A n \in 1..Len(project.sites[f]) :
          project.sites[f][n].kind = "external" =>
              (class[f] # NotReached <=> \E i \in 1..Len(used) : used[i] = <<f, n>>)

(* The order of the walk does not matter: it implements the rises of       *)
(* ReachFixpoint, and the rises that are owed happen.                      *)
Fixpoint == INSTANCE ReachFixpoint

ImplementsFixpointSafety == Fixpoint!SafeSpec
ImplementsFixpoint == Fixpoint!Spec
=============================================================================
