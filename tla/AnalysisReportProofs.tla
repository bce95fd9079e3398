------------------------ MODULE AnalysisReportProofs ------------------------
(***************************************************************************)
(* Proofs about the walk and the symbol index that AnalysisReport runs one *)
(* after the other, for every project.                                     *)
(*                                                                         *)
(* ReachabilityBfs: the walk ends with the least closed assignment of      *)
(* classes, implements the order-free rises of ReachFixpoint, leaves       *)
(* predecessors that are a shortest chain back to a seed, and follows no   *)
(* file more than four times.                                              *)
(*                                                                         *)
(* StarImports: the two walks along star imports answer with exactly the   *)
(* binders whose binding some chain of star imports carries to the goal.   *)
(* Where the walk missed one, the modules it did climb to, with those that *)
(* hand nothing on, are a closed set without the goal.                     *)
(*                                                                         *)
(* SymbolIndex: every reference of a module read is still left to resolve, *)
(* or the workers have marked all it touches, and every mark was made for  *)
(* such a reference; so the united sets are what a direct lookup of each   *)
(* reference gives, whichever worker resolved it. A chain of star imports  *)
(* never needs more links than there are files (Saturates).                *)
(*                                                                         *)
(* AnalysisReport: the operators of SymbolIndex are restated for any set   *)
(* of files read, so that the run's index, the tests' and a default run's  *)
(* can be compared: reading more loses no chain of star imports, and a set *)
(* closed under import sites holds every chain into one of its files.      *)
(***************************************************************************)
EXTENDS AnalysisReport, FiniteSetTheorems, WellFoundedInduction, TLAPS

Waiting == {queue[i] : i \in 1..Len(queue)}

(* The parts of the inductive invariant. *)

(* Only the drains follow files, and a file is followed at its own class:  *)
(* none of its sites can improve the file itself while they are read.      *)
CurrentInv ==
    /\ current # NoFile =>
          /\ stage \in {"drain", "redrain"}
          /\ class[current] # NotReached
          /\ followed[current] = class[current]
    /\ stage = "done" => queue = <<>>

(* A file whose class is better than the one its imports were followed at  *)
(* waits in the queue.                                                     *)
QueueInv ==
    /\ \A f \in Waiting : class[f] # NotReached
    /\ \A f \in Files :
          /\ followed[f] <= class[f]
          /\ followed[f] # class[f] => f \in Waiting

(* The sites of a followed file have passed on the class it was followed   *)
(* at, up to the site under way.                                           *)
SitesInv ==
    \A f \in Files :
        followed[f] # NotReached =>
            \A i \in FollowedSites(project, f) :
                (f = current => i < next) =>
                    class[project.sites[f][i].to]
                        >= EdgeClass(project, f, followed[f], project.sites[f][i])

(* The seeds enqueued so far have their class. *)
SeedsInv ==
    /\ \A i \in 1..Len(project.roots) :
          (stage = "roots" => i < next)
              => class[project.roots[i].file] >= RootClass(project.roots[i])
    /\ \A i \in 1..Len(project.plugin_refs) :
          stage # "roots" /\ (stage = "plugin_refs" => i < next)
              => class[project.plugin_refs[i].file]
                    >= PluginRefClass(project.plugin_refs[i])
    /\ \A i \in 1..Len(project.framework) :
          stage \in {"redrain", "done"} \/ (stage = "framework" /\ i < next)
              => class[project.framework[i]] >= Certain

(* No file has a class that some closed assignment does not give it. *)
Justified ==
    \A other \in [Files -> Classes] :
        Closed(project, other) => \A f \in Files : class[f] <= other[f]

ClassInv ==
    /\ TypeOK
    /\ CurrentInv
    /\ QueueInv
    /\ SitesInv
    /\ SeedsInv
    /\ Justified

-----------------------------------------------------------------------------
LEMMA ClassRange == Classes = 0..4 /\ Reach = 1..4 /\ Reach \subseteq Classes
BY DEF Classes, Reach, NotReached, Reachable, Eager, Exposed, Certain

(* What EdgeClass returns: a class, never better than the source's, and no *)
(* worse for a better source.                                              *)
LEMMA EdgeClassFacts ==
    ASSUME NEW p, IsProject(p), NEW f \in Files, NEW c \in Reach, NEW d \in Reach,
           c <= d, NEW i \in FollowedSites(p, f)
    PROVE  /\ EdgeClass(p, f, c, p.sites[f][i]) \in Reach
           /\ EdgeClass(p, f, c, p.sites[f][i]) <= c
           /\ EdgeClass(p, f, c, p.sites[f][i]) <= EdgeClass(p, f, d, p.sites[f][i])
BY DEF EdgeClass, Reach, Weaker, Reachable, Eager, Exposed, Certain

LEMMA SiteTarget ==
    ASSUME NEW p, IsProject(p), NEW f \in Files, NEW i \in FollowedSites(p, f)
    PROVE  p.sites[f][i].to \in Files
<1>1. p.sites[f] \in Seq(Site) /\ i \in 1..Len(p.sites[f])
  BY DEF IsProject, FollowedSites
<1>2. p.sites[f][i] \in Site
  BY <1>1
<1> QED
  BY <1>2 DEF FollowedSites, IsFileSite, Site, FileSite, ExternalSite

(* What enqueue_file does to the classes and the queue. *)
LEMMA EnqueueEffect ==
    ASSUME TypeOK, NEW f \in Files, NEW from \in Files \cup {NoFile}, NEW c \in Reach,
           EnqueueFile(f, from, c)
    PROVE  /\ class' = [class EXCEPT ![f] = Better(class[f], c)]
           /\ class' \in [Files -> Classes]
           /\ queue' \in Seq(Files)
           /\ Waiting' \subseteq Waiting \cup {f}
           /\ Waiting \subseteq Waiting'
           /\ class' # class => f \in Waiting'
           /\ size' \in Nat
           /\ index' \in [Files -> Nat]
           /\ pred' \in [Files -> Files \cup {NoFile}]
<1>1. ASSUME queue' = Append(queue, f)
      PROVE  queue' \in Seq(Files) /\ Waiting' = Waiting \cup {f}
  <2>1. queue \in Seq(Files)
    BY DEF TypeOK
  <2>2. /\ queue' \in Seq(Files)
        /\ Len(queue') = Len(queue) + 1
        /\ \A i \in 1..Len(queue) : queue'[i] = queue[i]
        /\ queue'[Len(queue) + 1] = f
    BY <1>1, <2>1
  <2>3. Waiting' = {queue'[i] : i \in 1..(Len(queue) + 1)}
    BY <2>2 DEF Waiting
  <2>4. Len(queue) \in Nat
    BY <2>1
  <2>5. ASSUME NEW g \in Waiting
        PROVE  g \in Waiting'
    BY <2>2, <2>3, <2>4 DEF Waiting
  <2>6. f \in Waiting'
    BY <2>2, <2>3, <2>4
  <2>7. ASSUME NEW g \in Waiting', g # f
        PROVE  g \in Waiting
    <3>1. PICK i \in 1..(Len(queue) + 1) : g = queue'[i]
      BY <2>3
    <3>2. i \in 1..Len(queue) /\ g = queue[i]
      BY <2>2, <2>4, <2>7, <3>1
    <3> QED
      BY <3>2 DEF Waiting
  <2> QED
    BY <2>2, <2>5, <2>6, <2>7
<1>2. class[f] \in 0..4 /\ c \in 1..4
  BY ClassRange DEF TypeOK
<1>3. CASE class[f] = NotReached
  <2>1. /\ class' = [class EXCEPT ![f] = c]
        /\ index' = [index EXCEPT ![f] = size + 1]
        /\ pred' = [pred EXCEPT ![f] = from]
        /\ queue' = Append(queue, f)
        /\ size' = size + 1
    BY <1>3, <1>2 DEF EnqueueFile, NotReached
  <2>2. Better(class[f], c) = c
    BY <1>2, <1>3 DEF Better, NotReached
  <2> QED
    BY <1>1, <1>2, <2>1, <2>2, ClassRange DEF TypeOK
<1>4. CASE class[f] # NotReached /\ c > class[f]
  <2>1. /\ class' = [class EXCEPT ![f] = c]
        /\ UNCHANGED <<size, index, pred>>
        /\ queue' = Append(queue, f)
    BY <1>4, <1>2 DEF EnqueueFile
  <2>2. Better(class[f], c) = c
    BY <1>2, <1>4 DEF Better
  <2> QED
    BY <1>1, <1>2, <2>1, <2>2, ClassRange DEF TypeOK
<1>5. CASE class[f] # NotReached /\ c <= class[f]
  <2>1. UNCHANGED <<class, queue, size, index, pred>>
    BY <1>5, <1>2 DEF EnqueueFile
  <2>2. Better(class[f], c) = class[f]
    BY <1>2, <1>5 DEF Better
  <2> QED
    BY <2>1, <2>2 DEF TypeOK, Waiting
<1> QED
  BY <1>2, <1>3, <1>4, <1>5

(* An enqueue owed to every closed assignment keeps the queue invariant    *)
(* and the justification of every class, and lowers no class.              *)
LEMMA EnqueueKeeps ==
    ASSUME ClassInv, NEW f \in Files, NEW from \in Files \cup {NoFile}, NEW c \in Reach,
           EnqueueFile(f, from, c), UNCHANGED <<project, followed>>,
           \A other \in [Files -> Classes] : Closed(project, other) => c <= other[f]
    PROVE  /\ QueueInv'
           /\ Justified'
           /\ class'[f] >= c
           /\ \A g \in Files : class'[g] >= class[g] /\ (class'[g] # class[g] => g = f)
<1> USE DEF ClassInv
<1>1. /\ class' = [class EXCEPT ![f] = Better(class[f], c)]
      /\ class' \in [Files -> Classes]
      /\ Waiting' \subseteq Waiting \cup {f}
      /\ Waiting \subseteq Waiting'
      /\ class' # class => f \in Waiting'
  BY EnqueueEffect
<1>2. /\ class \in [Files -> 0..4]
      /\ class' \in [Files -> 0..4]
      /\ followed \in [Files -> 0..4]
      /\ c \in 1..4
  BY <1>1, ClassRange DEF TypeOK
<1>3. class'[f] = Better(class[f], c) /\ class'[f] >= c /\ class'[f] >= class[f]
  BY <1>1, <1>2 DEF Better
<1>4. \A g \in Files : g # f => class'[g] = class[g]
  BY <1>1, <1>2
<1>5. QueueInv'
  <2>1. ASSUME NEW g \in Waiting'
        PROVE  class'[g] # NotReached
    <3>1. CASE g = f
      BY <1>2, <1>3, <3>1 DEF NotReached
    <3>2. CASE g # f
      <4>1. g \in Waiting
        BY <1>1, <2>1, <3>2
      <4>2. g \in Files
        BY <4>1 DEF Waiting, TypeOK
      <4> QED
        BY <1>4, <3>2, <4>1, <4>2 DEF QueueInv
    <3> QED
      BY <3>1, <3>2
  <2>2. ASSUME NEW g \in Files
        PROVE  /\ followed'[g] <= class'[g]
               /\ followed'[g] # class'[g] => g \in Waiting'
    <3>1. CASE class'[g] = class[g]
      BY <1>1, <3>1 DEF QueueInv
    <3>2. CASE class'[g] # class[g]
      <4>1. g = f /\ f \in Waiting'
        BY <1>1, <1>4, <3>2
      <4> QED
        BY <1>2, <1>3, <4>1 DEF QueueInv
    <3> QED
      BY <3>1, <3>2
  <2> QED
    BY <2>1, <2>2 DEF QueueInv
<1>6. Justified'
  <2>1. SUFFICES ASSUME NEW other \in [Files -> Classes], Closed(project, other),
                        NEW g \in Files
                 PROVE  class'[g] <= other[g]
    BY DEF Justified
  <2>2. class[g] <= other[g] /\ c <= other[f]
    BY <2>1 DEF Justified
  <2> QED
    BY <1>2, <1>3, <1>4, <2>2 DEF Better
<1> QED
  BY <1>2, <1>3, <1>4, <1>5, <1>6

-----------------------------------------------------------------------------
LEMMA ClassInvInit == Init => ClassInv
<1> SUFFICES ASSUME Init
             PROVE  ClassInv
  OBVIOUS
<1>1. TypeOK
  <2>1. IsProject(project)
    BY ProjectsAssumption DEF Init
  <2>2. NotReached \in Classes
    BY DEF Classes
  <2>3. queue \in Seq(Files) /\ used \in Seq(Files \X (Nat \ {0}))
    BY DEF Init
  <2>4. /\ class \in [Files -> Classes]
        /\ followed \in [Files -> Classes]
        /\ index \in [Files -> Nat]
        /\ follows \in [Files -> Nat]
        /\ pred \in [Files -> Files \cup {NoFile}]
    BY <2>2 DEF Init
  <2>5. next \in Nat \ {0} /\ size \in Nat /\ listed \subseteq Files
        /\ current \in Files \cup {NoFile} /\ stage \in Stages
    BY DEF Init, Stages
  <2>6. first \in BOOLEAN
    BY DEF Init
  <2> QED
    BY <2>1, <2>3, <2>4, <2>5, <2>6 DEF TypeOK
<1>2. CurrentInv /\ SitesInv /\ SeedsInv
  BY <1>1 DEF Init, CurrentInv, SitesInv, SeedsInv, TypeOK, IsProject
<1>3. QueueInv
  BY DEF Init, QueueInv, Waiting, NotReached
<1>4. Justified
  <2>1. ASSUME NEW other \in [Files -> Classes], NEW f \in Files
        PROVE  class[f] <= other[f]
    <3>1. other[f] \in 0..4
      BY ClassRange
    <3> QED
      BY <3>1 DEF Init, NotReached
  <2> QED
    BY <2>1 DEF Justified
<1> QED
  BY <1>1, <1>2, <1>3, <1>4 DEF ClassInv

(* The classes seeds are enqueued at are owed to every closed assignment. *)
LEMMA SeedClasses ==
    ASSUME NEW p, IsProject(p)
    PROVE  /\ \A i \in 1..Len(p.roots) :
                 p.roots[i].file \in Files /\ RootClass(p.roots[i]) \in Reach
           /\ \A i \in 1..Len(p.plugin_refs) :
                 p.plugin_refs[i].file \in Files /\ PluginRefClass(p.plugin_refs[i]) \in Reach
           /\ \A i \in 1..Len(p.framework) : p.framework[i] \in Files /\ Certain \in Reach
           /\ \A other \in [Files -> Classes] :
                 Closed(p, other) =>
                    /\ \A i \in 1..Len(p.roots) : RootClass(p.roots[i]) <= other[p.roots[i].file]
                    /\ \A i \in 1..Len(p.plugin_refs) :
                          PluginRefClass(p.plugin_refs[i]) <= other[p.plugin_refs[i].file]
                    /\ \A i \in 1..Len(p.framework) : Certain <= other[p.framework[i]]
<1>1. /\ \A i \in 1..Len(p.roots) : p.roots[i] \in EntryRoot
      /\ \A i \in 1..Len(p.plugin_refs) : p.plugin_refs[i] \in PluginRef
      /\ \A i \in 1..Len(p.framework) : p.framework[i] \in Files
  BY DEF IsProject
<1>2. \A r \in EntryRoot : r.file \in Files /\ RootClass(r) \in Reach
  BY DEF EntryRoot, RootClass, Reach
<1>3. \A r \in PluginRef : r.file \in Files /\ PluginRefClass(r) \in Reach
  BY DEF PluginRef, PluginRefClass, Reach
<1>4. \A other \in [Files -> Classes], f \in Files, c \in Reach : other[f] >= c => c <= other[f]
  BY ClassRange
<1>5. Certain \in Reach
  BY DEF Reach
<1>6. ASSUME NEW other \in [Files -> Classes], Closed(p, other)
      PROVE  /\ \A i \in 1..Len(p.roots) : RootClass(p.roots[i]) <= other[p.roots[i].file]
             /\ \A i \in 1..Len(p.plugin_refs) :
                   PluginRefClass(p.plugin_refs[i]) <= other[p.plugin_refs[i].file]
             /\ \A i \in 1..Len(p.framework) : Certain <= other[p.framework[i]]
  BY <1>1, <1>2, <1>3, <1>4, <1>5, <1>6 DEF Closed, SeedsHold
<1> QED
  BY <1>1, <1>2, <1>3, <1>5, <1>6

-----------------------------------------------------------------------------
(* Raising classes keeps what sites and seeds have established. *)
LEMMA ReachedClass ==
    ASSUME TypeOK, NEW f \in Files
    PROVE  /\ class[f] \in 0..4 /\ class[f] <= class[f]
           /\ class[f] # NotReached => class[f] \in Reach
<1>1. class[f] \in 0..4
  BY ClassRange DEF TypeOK
<1> QED
  BY <1>1, ClassRange DEF NotReached

LEMMA FollowedReach ==
    ASSUME TypeOK, NEW f \in Files, followed[f] # NotReached
    PROVE  followed[f] \in Reach /\ followed[f] <= followed[f]
<1>1. followed[f] \in 0..4
  BY ClassRange DEF TypeOK
<1> QED
  BY <1>1, ClassRange DEF NotReached

LEMMA RaisedSites ==
    ASSUME TypeOK, TypeOK', SitesInv, UNCHANGED <<project, followed, current>>,
           current = NoFile,
           \A g \in Files : class'[g] >= class[g]
    PROVE  SitesInv'
<1> SUFFICES ASSUME NEW f \in Files, followed[f] # NotReached,
                    NEW i \in FollowedSites(project, f)
             PROVE  class'[project.sites[f][i].to]
                       >= EdgeClass(project, f, followed[f], project.sites[f][i])
  BY DEF SitesInv
<1> DEFINE t == project.sites[f][i].to
           e == EdgeClass(project, f, followed[f], project.sites[f][i])
<1>1. followed[f] \in Reach /\ followed[f] <= followed[f]
  BY FollowedReach
<1>2. t \in Files /\ e \in 1..4
  BY <1>1, SiteTarget, EdgeClassFacts, ClassRange DEF TypeOK
<1>3. class[t] >= e
  BY NoFileAssumption DEF SitesInv
<1>4. class[t] \in 0..4 /\ class'[t] \in 0..4 /\ class'[t] >= class[t]
  BY <1>2, ClassRange DEF TypeOK
<1> HIDE DEF t, e
<1>5. class'[t] >= e
  BY <1>2, <1>3, <1>4
<1> QED
  BY <1>5 DEF t, e

LEMMA RaisedSeeds ==
    ASSUME TypeOK, TypeOK', SeedsInv, UNCHANGED <<project, stage>>,
           \A g \in Files : class'[g] >= class[g],
           \/ next' = next
           \/ /\ next' = next + 1
              /\ stage = "roots" => class'[project.roots[next].file]
                                       >= RootClass(project.roots[next])
              /\ stage = "plugin_refs" => class'[project.plugin_refs[next].file]
                                       >= PluginRefClass(project.plugin_refs[next])
              /\ stage = "framework" => class'[project.framework[next]] >= Certain
           \/ stage \in {"drain", "redrain"}
    PROVE  SeedsInv'
<1>1. \A f \in Files, c \in Reach : class[f] >= c => class'[f] >= c
  <2> TAKE f \in Files, c \in Reach
  <2>1. class[f] \in 0..4 /\ class'[f] \in 0..4 /\ c \in 1..4
    BY ClassRange DEF TypeOK
  <2> QED
    BY <2>1
<1>2. next \in Nat /\ next' \in Nat
  BY DEF TypeOK
<1>3. ASSUME NEW i \in 1..Len(project.roots), stage = "roots" => i < next'
      PROVE  class'[project.roots[i].file] >= RootClass(project.roots[i])
  <2>1. project.roots[i].file \in Files /\ RootClass(project.roots[i]) \in Reach
    BY SeedClasses DEF TypeOK
  <2>2. CASE stage = "roots" /\ i = next
    BY <1>2, <1>3, <2>2
  <2>3. CASE ~(stage = "roots" /\ i = next)
    <3>1. stage = "roots" => i < next
      BY <1>2, <1>3, <2>3
    <3>2. class[project.roots[i].file] >= RootClass(project.roots[i])
      BY <3>1 DEF SeedsInv
    <3> QED
      BY <1>1, <2>1, <3>2
  <2> QED
    BY <2>2, <2>3
<1>4. ASSUME NEW i \in 1..Len(project.plugin_refs), stage # "roots" /\ (stage = "plugin_refs" => i < next')
      PROVE  class'[project.plugin_refs[i].file] >= PluginRefClass(project.plugin_refs[i])
  <2>1. project.plugin_refs[i].file \in Files /\ PluginRefClass(project.plugin_refs[i]) \in Reach
    BY SeedClasses DEF TypeOK
  <2>2. CASE stage = "plugin_refs" /\ i = next
    BY <1>2, <1>4, <2>2
  <2>3. CASE ~(stage = "plugin_refs" /\ i = next)
    <3>1. stage # "roots" /\ (stage = "plugin_refs" => i < next)
      BY <1>2, <1>4, <2>3
    <3>2. class[project.plugin_refs[i].file] >= PluginRefClass(project.plugin_refs[i])
      BY <3>1 DEF SeedsInv
    <3> QED
      BY <1>1, <2>1, <3>2
  <2> QED
    BY <2>2, <2>3
<1>5. ASSUME NEW i \in 1..Len(project.framework), stage \in {"redrain", "done"} \/ (stage = "framework" /\ i < next')
      PROVE  class'[project.framework[i]] >= Certain
  <2>1. project.framework[i] \in Files /\ Certain \in Reach
    BY SeedClasses DEF TypeOK
  <2>2. CASE stage = "framework" /\ i = next
    BY <1>2, <1>5, <2>2
  <2>3. CASE ~(stage = "framework" /\ i = next)
    <3>1. stage \in {"redrain", "done"} \/ (stage = "framework" /\ i < next)
      BY <1>2, <1>5, <2>3
    <3>2. class[project.framework[i]] >= Certain
      BY <3>1 DEF SeedsInv
    <3> QED
      BY <1>1, <2>1, <3>2
  <2> QED
    BY <2>2, <2>3
<1> QED
  BY <1>3, <1>4, <1>5 DEF SeedsInv


LEMMA SeedRootKeeps == ClassInv /\ SeedRoot => ClassInv'
<1> SUFFICES ASSUME ClassInv, SeedRoot
             PROVE  ClassInv'
  OBVIOUS
<1> DEFINE f == project.roots[next].file
           c == RootClass(project.roots[next])
<1>1. /\ stage = "roots" /\ next \in 1..Len(project.roots)
      /\ EnqueueFile(f, NoFile, c)
      /\ next' = next + 1
      /\ UNCHANGED <<project, stage, followed, used, listed, current, first, follows>>
  BY DEF SeedRoot, Walking, ClassInv, TypeOK, IsProject
<1>2. /\ f \in Files /\ c \in Reach
      /\ \A other \in [Files -> Classes] : Closed(project, other) => c <= other[f]
  BY <1>1, SeedClasses DEF ClassInv, TypeOK
<1>3. /\ QueueInv' /\ Justified'
      /\ class'[f] >= c
      /\ \A g \in Files : class'[g] >= class[g]
  <2> HIDE DEF f, c
  <2> QED
    BY <1>1, <1>2, EnqueueKeeps
<1>4. TypeOK'
  <2>1. /\ class' \in [Files -> Classes]
        /\ queue' \in Seq(Files)
        /\ size' \in Nat
        /\ index' \in [Files -> Nat]
        /\ pred' \in [Files -> Files \cup {NoFile}]
    <3> HIDE DEF f, c
    <3> QED
      BY <1>1, <1>2, EnqueueEffect DEF ClassInv
  <2>2. first' \in BOOLEAN
    BY <1>1 DEF ClassInv, TypeOK
  <2>3. /\ IsProject(project)' /\ stage' \in Stages /\ next' \in Nat \ {0}
        /\ followed' \in [Files -> Classes]
        /\ used' \in Seq(Files \X (Nat \ {0}))
        /\ listed' \subseteq Files /\ current' \in Files \cup {NoFile}
        /\ follows' \in [Files -> Nat]
    BY <1>1 DEF ClassInv, TypeOK
  <2> QED
    BY <2>1, <2>2, <2>3 DEF TypeOK
<1>5. CurrentInv'
  BY <1>1 DEF ClassInv, CurrentInv
<1>6. current = NoFile
  BY <1>1 DEF ClassInv, CurrentInv
<1>7. SitesInv'
  BY <1>1, <1>3, <1>4, <1>6, RaisedSites DEF ClassInv
<1>8. SeedsInv'
  BY <1>1, <1>3, <1>4, RaisedSeeds DEF ClassInv
<1> QED
  BY <1>3, <1>4, <1>5, <1>7, <1>8 DEF ClassInv

LEMMA SeedPluginRefKeeps == ClassInv /\ SeedPluginRef => ClassInv'
<1> SUFFICES ASSUME ClassInv, SeedPluginRef
             PROVE  ClassInv'
  OBVIOUS
<1> DEFINE f == project.plugin_refs[next].file
           c == PluginRefClass(project.plugin_refs[next])
<1>1. /\ stage = "plugin_refs" /\ next \in 1..Len(project.plugin_refs)
      /\ EnqueueFile(f, NoFile, c)
      /\ next' = next + 1
      /\ UNCHANGED <<project, stage, followed, used, listed, current, first, follows>>
  BY DEF SeedPluginRef, Walking, ClassInv, TypeOK, IsProject
<1>2. /\ f \in Files /\ c \in Reach
      /\ \A other \in [Files -> Classes] : Closed(project, other) => c <= other[f]
  BY <1>1, SeedClasses DEF ClassInv, TypeOK
<1>3. /\ QueueInv' /\ Justified'
      /\ class'[f] >= c
      /\ \A g \in Files : class'[g] >= class[g]
  <2> HIDE DEF f, c
  <2> QED
    BY <1>1, <1>2, EnqueueKeeps
<1>4. TypeOK'
  <2>1. /\ class' \in [Files -> Classes]
        /\ queue' \in Seq(Files)
        /\ size' \in Nat
        /\ index' \in [Files -> Nat]
        /\ pred' \in [Files -> Files \cup {NoFile}]
    <3> HIDE DEF f, c
    <3> QED
      BY <1>1, <1>2, EnqueueEffect DEF ClassInv
  <2>2. first' \in BOOLEAN
    BY <1>1 DEF ClassInv, TypeOK
  <2>3. /\ IsProject(project)' /\ stage' \in Stages /\ next' \in Nat \ {0}
        /\ followed' \in [Files -> Classes]
        /\ used' \in Seq(Files \X (Nat \ {0}))
        /\ listed' \subseteq Files /\ current' \in Files \cup {NoFile}
        /\ follows' \in [Files -> Nat]
    BY <1>1 DEF ClassInv, TypeOK
  <2> QED
    BY <2>1, <2>2, <2>3 DEF TypeOK
<1>5. CurrentInv'
  BY <1>1 DEF ClassInv, CurrentInv
<1>6. current = NoFile
  BY <1>1 DEF ClassInv, CurrentInv
<1>7. SitesInv'
  BY <1>1, <1>3, <1>4, <1>6, RaisedSites DEF ClassInv
<1>8. SeedsInv'
  BY <1>1, <1>3, <1>4, RaisedSeeds DEF ClassInv
<1> QED
  BY <1>3, <1>4, <1>5, <1>7, <1>8 DEF ClassInv

LEMMA SeedFrameworkKeeps == ClassInv /\ SeedFramework => ClassInv'
<1> SUFFICES ASSUME ClassInv, SeedFramework
             PROVE  ClassInv'
  OBVIOUS
<1> DEFINE f == project.framework[next]
           c == Certain
<1>1. /\ stage = "framework" /\ next \in 1..Len(project.framework)
      /\ EnqueueFile(f, NoFile, c)
      /\ next' = next + 1
      /\ UNCHANGED <<project, stage, followed, used, listed, current, first, follows>>
  BY DEF SeedFramework, Walking, ClassInv, TypeOK, IsProject
<1>2. /\ f \in Files /\ c \in Reach
      /\ \A other \in [Files -> Classes] : Closed(project, other) => c <= other[f]
  BY <1>1, SeedClasses DEF ClassInv, TypeOK
<1>3. /\ QueueInv' /\ Justified'
      /\ class'[f] >= c
      /\ \A g \in Files : class'[g] >= class[g]
  <2> HIDE DEF f, c
  <2> QED
    BY <1>1, <1>2, EnqueueKeeps
<1>4. TypeOK'
  <2>1. /\ class' \in [Files -> Classes]
        /\ queue' \in Seq(Files)
        /\ size' \in Nat
        /\ index' \in [Files -> Nat]
        /\ pred' \in [Files -> Files \cup {NoFile}]
    <3> HIDE DEF f, c
    <3> QED
      BY <1>1, <1>2, EnqueueEffect DEF ClassInv
  <2>2. first' \in BOOLEAN
    BY <1>1 DEF ClassInv, TypeOK
  <2>3. /\ IsProject(project)' /\ stage' \in Stages /\ next' \in Nat \ {0}
        /\ followed' \in [Files -> Classes]
        /\ used' \in Seq(Files \X (Nat \ {0}))
        /\ listed' \subseteq Files /\ current' \in Files \cup {NoFile}
        /\ follows' \in [Files -> Nat]
    BY <1>1 DEF ClassInv, TypeOK
  <2> QED
    BY <2>1, <2>2, <2>3 DEF TypeOK
<1>5. CurrentInv'
  BY <1>1 DEF ClassInv, CurrentInv
<1>6. current = NoFile
  BY <1>1 DEF ClassInv, CurrentInv
<1>7. SitesInv'
  BY <1>1, <1>3, <1>4, <1>6, RaisedSites DEF ClassInv
<1>8. SeedsInv'
  BY <1>1, <1>3, <1>4, RaisedSeeds DEF ClassInv
<1> QED
  BY <1>3, <1>4, <1>5, <1>7, <1>8 DEF ClassInv

-----------------------------------------------------------------------------
(* Popping the head loses no other waiting file. *)
LEMMA PopEffect ==
    ASSUME TypeOK, queue # <<>>, queue' = Tail(queue)
    PROVE  /\ Head(queue) \in Files
           /\ Head(queue) \in Waiting
           /\ queue' \in Seq(Files)
           /\ Waiting' \subseteq Waiting
           /\ \A g \in Waiting : g # Head(queue) => g \in Waiting'
<1>1. queue \in Seq(Files) /\ Len(queue) \in Nat \ {0}
  BY DEF TypeOK
<1>2. /\ Head(queue) = queue[1]
      /\ queue' \in Seq(Files)
      /\ Len(queue') = Len(queue) - 1
      /\ \A i \in 1..(Len(queue) - 1) : queue'[i] = queue[i + 1]
  BY <1>1
<1>3. Waiting' = {queue'[i] : i \in 1..(Len(queue) - 1)}
  BY <1>2 DEF Waiting
<1>4. Head(queue) \in Waiting /\ Head(queue) \in Files
  BY <1>1, <1>2 DEF Waiting
<1>5. ASSUME NEW g \in Waiting'
      PROVE  g \in Waiting
  <2>1. PICK i \in 1..(Len(queue) - 1) : g = queue'[i]
    BY <1>3
  <2>2. i + 1 \in 1..Len(queue) /\ g = queue[i + 1]
    BY <1>1, <1>2, <2>1
  <2> QED
    BY <2>2 DEF Waiting
<1>6. ASSUME NEW g \in Waiting, g # Head(queue)
      PROVE  g \in Waiting'
  <2>1. PICK i \in 1..Len(queue) : g = queue[i]
    BY DEF Waiting
  <2>2. i - 1 \in 1..(Len(queue) - 1) /\ g = queue'[i - 1]
    BY <1>1, <1>2, <1>6, <2>1
  <2> QED
    BY <1>3, <2>2
<1> QED
  BY <1>2, <1>4, <1>5, <1>6

LEMMA SkipKeeps == ClassInv /\ Skip => ClassInv'
<1> SUFFICES ASSUME ClassInv, Skip
             PROVE  ClassInv'
  OBVIOUS
<1>1. /\ queue # <<>> /\ queue' = Tail(queue)
      /\ stage # "done"
      /\ AlreadyFollowed(Head(queue))
      /\ UNCHANGED <<project, stage, next, class, size, index, pred, followed, used,
                     listed, current, first, follows>>
  BY DEF Skip, Popping, Walking
<1>2. /\ Head(queue) \in Files
      /\ queue' \in Seq(Files)
      /\ Waiting' \subseteq Waiting
      /\ \A g \in Waiting : g # Head(queue) => g \in Waiting'
  BY <1>1, PopEffect DEF ClassInv
<1>3. TypeOK'
  <2>1. first' \in BOOLEAN
    BY <1>1 DEF ClassInv, TypeOK
  <2> QED
    BY <1>1, <1>2, <2>1 DEF ClassInv, TypeOK
<1>4. followed[Head(queue)] = class[Head(queue)]
  <2>1. class[Head(queue)] \in 0..4 /\ followed[Head(queue)] \in 0..4
    BY <1>2, ClassRange DEF ClassInv, TypeOK
  <2> QED
    BY <1>1, <1>2, <2>1 DEF ClassInv, QueueInv, AlreadyFollowed
<1>5. QueueInv'
  BY <1>1, <1>2, <1>4 DEF ClassInv, QueueInv
<1>6. CurrentInv' /\ SitesInv' /\ SeedsInv' /\ Justified'
  BY <1>1 DEF ClassInv, CurrentInv, SitesInv, SeedsInv, Justified
<1> QED
  BY <1>3, <1>5, <1>6 DEF ClassInv

LEMMA FollowKeeps == ClassInv /\ Follow => ClassInv'
<1> SUFFICES ASSUME ClassInv, Follow
             PROVE  ClassInv'
  OBVIOUS
<1> DEFINE f == Head(queue)
<1>1. /\ queue # <<>> /\ queue' = Tail(queue)
      /\ stage \in {"drain", "redrain"} /\ current = NoFile
      /\ followed' = [followed EXCEPT ![f] = class[f]]
      /\ follows' = [follows EXCEPT ![f] = @ + 1]
      /\ current' = f
      /\ next' = 1
      /\ UNCHANGED <<project, stage, class, size, index, pred, used, listed>>
  BY DEF Follow, Popping
<1>2. /\ f \in Files /\ f \in Waiting
      /\ queue' \in Seq(Files)
      /\ Waiting' \subseteq Waiting
      /\ \A g \in Waiting : g # f => g \in Waiting'
  BY <1>1, PopEffect DEF ClassInv
<1>3. TypeOK'
  <2>1. first' \in BOOLEAN
    BY DEF Follow
  <2>2. followed' \in [Files -> Classes] /\ follows' \in [Files -> Nat]
    BY <1>1, <1>2 DEF ClassInv, TypeOK
  <2> QED
    BY <1>1, <1>2, <2>1, <2>2 DEF ClassInv, TypeOK
<1>4. followed'[f] = class[f] /\ \A g \in Files : g # f => followed'[g] = followed[g]
  BY <1>1, <1>2 DEF ClassInv, TypeOK
<1>5. class[f] # NotReached
  BY <1>2 DEF ClassInv, QueueInv
<1>6. CurrentInv'
  BY <1>1, <1>4, <1>5 DEF CurrentInv
<1>7. QueueInv'
  <2>1. class[f] <= class[f]
    BY <1>2, ReachedClass DEF ClassInv
  <2> QED
    BY <1>1, <1>2, <1>4, <2>1 DEF ClassInv, QueueInv
<1>8. SitesInv'
  <2>1. \A i \in FollowedSites(project, f) : ~(i < 1)
    BY DEF FollowedSites
  <2> QED
    BY <1>1, <1>4, <2>1, NoFileAssumption DEF ClassInv, SitesInv
<1>9. SeedsInv' /\ Justified'
  BY <1>1 DEF ClassInv, SeedsInv, Justified
<1> QED
  BY <1>3, <1>6, <1>7, <1>8, <1>9 DEF ClassInv

LEMMA RecordImportKeeps == ClassInv /\ RecordImport => ClassInv'
<1> SUFFICES ASSUME ClassInv, RecordImport
             PROVE  ClassInv'
  OBVIOUS
<1> DEFINE f == TheSite.to
           c == EdgeClass(project, current, followed[current], TheSite)
<1>1. /\ current \in Files
      /\ next \in FollowedSites(project, current)
      /\ TheSite = project.sites[current][next]
      /\ EnqueueFile(f, current, c)
      /\ listed' = IF TheSite.kind = "listed" THEN listed \cup {f} ELSE listed
      /\ next' = next + 1
      /\ UNCHANGED <<project, stage, followed, used, current, first, follows>>
  BY DEF RecordImport, AtSite, TheSite, FollowedSites, IsFileSite, ClassInv, TypeOK, IsProject
<1>2. /\ followed[current] = class[current]
      /\ class[current] \in Reach
      /\ class[current] <= class[current]
      /\ stage \in {"drain", "redrain"}
  <2>1. /\ followed[current] = class[current]
        /\ class[current] # NotReached
        /\ stage \in {"drain", "redrain"}
    BY <1>1, NoFileAssumption DEF ClassInv, CurrentInv
  <2> QED
    BY <1>1, <2>1, ReachedClass DEF ClassInv
<1>3. f \in Files /\ c \in Reach /\ c <= class[current]
  BY <1>1, <1>2, SiteTarget, EdgeClassFacts DEF ClassInv, TypeOK
<1>4. ASSUME NEW other \in [Files -> Classes], Closed(project, other)
      PROVE  c <= other[f]
  <2>1. class[current] <= other[current]
    BY <1>1, <1>4 DEF ClassInv, Justified
  <2>2. other[current] \in 0..4 /\ other[f] \in 0..4 /\ class[current] \in 1..4
    BY <1>1, <1>2, <1>3, ClassRange
  <2>3. other[current] \in Reach /\ other[current] # NotReached
    BY <2>1, <2>2, ClassRange DEF NotReached
  <2> DEFINE d == EdgeClass(project, current, other[current], TheSite)
  <2>4. d \in 1..4 /\ c <= d
    BY <1>1, <1>2, <2>1, <2>3, EdgeClassFacts, ClassRange DEF ClassInv, TypeOK
  <2>5. other[f] >= d
    BY <1>1, <1>4, <2>3 DEF Closed, SitesHold
  <2>6. c \in 1..4
    BY <1>3, ClassRange
  <2> HIDE DEF c, d, f
  <2> QED
    BY <2>2, <2>4, <2>5, <2>6
<1>5. /\ QueueInv' /\ Justified'
      /\ class'[f] >= c
      /\ \A g \in Files : class'[g] >= class[g] /\ (class'[g] # class[g] => g = f)
  <2> HIDE DEF f, c
  <2> QED
    BY <1>1, <1>3, <1>4, EnqueueKeeps
<1>6. TypeOK'
  <2>1. /\ class' \in [Files -> Classes]
        /\ queue' \in Seq(Files)
        /\ size' \in Nat
        /\ index' \in [Files -> Nat]
        /\ pred' \in [Files -> Files \cup {NoFile}]
    <3> HIDE DEF f, c
    <3> QED
      BY <1>1, <1>3, EnqueueEffect DEF ClassInv
  <2>2. first' \in BOOLEAN
    BY <1>1 DEF ClassInv, TypeOK
  <2>3. listed' \subseteq Files
    BY <1>1, <1>3 DEF ClassInv, TypeOK
  <2>4. next' \in Nat \ {0} /\ UNCHANGED <<project, stage, followed, used, current, follows>>
    BY <1>1 DEF ClassInv, TypeOK
  <2> QED
    BY <2>1, <2>2, <2>3, <2>4 DEF ClassInv, TypeOK
<1>7. CurrentInv'
  <2>1. class'[current] = class[current]
    <3>1. class' = [class EXCEPT ![f] = Better(class[f], c)]
      <4> HIDE DEF f, c
      <4> QED
        BY <1>1, <1>3, EnqueueEffect DEF ClassInv
    <3>2. f = current => Better(class[f], c) = class[f]
      <4>1. c \in 1..4 /\ class[current] \in 1..4
        BY <1>2, <1>3, ClassRange
      <4> QED
        BY <1>3, <4>1 DEF Better
    <3> HIDE DEF f, c
    <3> QED
      BY <1>1, <1>3, <3>1, <3>2 DEF ClassInv, TypeOK
  <2> QED
    BY <1>1, <1>2, <2>1 DEF ClassInv, CurrentInv
<1>8. SitesInv'
  <2>1. SUFFICES ASSUME NEW g \in Files, followed[g] # NotReached,
                        NEW i \in FollowedSites(project, g), g = current => i < next + 1
                 PROVE  class'[project.sites[g][i].to]
                          >= EdgeClass(project, g, followed[g], project.sites[g][i])
    BY <1>1 DEF SitesInv
  <2> DEFINE t == project.sites[g][i].to
             e == EdgeClass(project, g, followed[g], project.sites[g][i])
  <2>2. CASE g = current /\ i = next
    BY <1>1, <1>5, <2>2
  <2>3. CASE ~(g = current /\ i = next)
    <3>1. g = current => i < next
      BY <2>1, <2>3 DEF FollowedSites, ClassInv, TypeOK
    <3>2. class[t] >= e
      BY <2>1, <3>1 DEF ClassInv, SitesInv
    <3>3. followed[g] \in Reach /\ followed[g] <= followed[g]
      BY <2>1, FollowedReach DEF ClassInv
    <3>4. t \in Files /\ e \in 1..4
      BY <3>3, SiteTarget, EdgeClassFacts, ClassRange DEF ClassInv, TypeOK
    <3>5. class[t] \in 0..4 /\ class'[t] \in 0..4 /\ class'[t] >= class[t]
      BY <1>5, <1>6, <3>4, ClassRange DEF ClassInv, TypeOK
    <3> HIDE DEF t, e
    <3>6. class'[t] >= e
      BY <3>2, <3>4, <3>5
    <3> QED
      BY <3>6 DEF t, e
  <2> QED
    BY <2>2, <2>3
<1>9. SeedsInv'
  BY <1>1, <1>2, <1>5, <1>6, RaisedSeeds DEF ClassInv
<1> QED
  BY <1>5, <1>6, <1>7, <1>8, <1>9 DEF ClassInv

LEMMA RecordUseKeeps == ClassInv /\ RecordUse => ClassInv'
<1> SUFFICES ASSUME ClassInv, RecordUse
             PROVE  ClassInv'
  OBVIOUS
<1>1. /\ current \in Files
      /\ next \in 1..Len(project.sites[current])
      /\ next \notin FollowedSites(project, current)
      /\ next' = next + 1
      /\ used' = used \/ used' = Append(used, <<current, next>>)
      /\ UNCHANGED <<project, stage, queue, class, followed, size, index, pred, listed,
                     current, first, follows>>
  <2>1. AtSite /\ TheSite.kind = "external"
    BY DEF RecordUse
  <2>2. current \in Files /\ next \in Nat \ {0}
    BY <2>1 DEF AtSite, ClassInv, TypeOK
  <2>3. project.sites[current] \in Seq(Site)
    BY <2>2 DEF ClassInv, TypeOK, IsProject
  <2>4. next \in 1..Len(project.sites[current])
    BY <2>1, <2>2, <2>3 DEF AtSite
  <2>5. next \notin FollowedSites(project, current)
    BY <2>1 DEF TheSite, FollowedSites, IsFileSite
  <2> QED
    BY <2>2, <2>4, <2>5 DEF RecordUse
<1>2. TypeOK'
  <2>1. first' \in BOOLEAN
    BY <1>1 DEF ClassInv, TypeOK
  <2>2. used' \in Seq(Files \X (Nat \ {0}))
    <3>1. <<current, next>> \in Files \X (Nat \ {0})
      BY <1>1 DEF ClassInv, TypeOK
    <3>2. used \in Seq(Files \X (Nat \ {0}))
      BY DEF ClassInv, TypeOK
    <3> DEFINE U == Files \X (Nat \ {0})
               use == <<current, next>>
    <3>3. use \in U /\ used \in Seq(U) /\ (used' = used \/ used' = Append(used, use))
      BY <1>1, <3>1, <3>2
    <3> HIDE DEF U, use
    <3>4. used' \in Seq(U)
      BY <3>3
    <3> QED
      BY <3>4 DEF U
  <2> QED
    BY <1>1, <2>1, <2>2 DEF ClassInv, TypeOK
<1>3. CurrentInv' /\ QueueInv' /\ Justified'
  BY <1>1 DEF ClassInv, CurrentInv, QueueInv, Waiting, Justified
<1>4. SitesInv'
  <2>1. \A i \in FollowedSites(project, current) : i < next + 1 => i < next
    BY <1>1 DEF FollowedSites
  <2> QED
    BY <1>1, <2>1 DEF ClassInv, SitesInv
<1>5. SeedsInv'
  <2>1. stage \in {"drain", "redrain"}
    BY <1>1, NoFileAssumption DEF ClassInv, CurrentInv
  <2> QED
    BY <1>1, <2>1 DEF ClassInv, SeedsInv
<1> QED
  BY <1>2, <1>3, <1>4, <1>5 DEF ClassInv

LEMMA FileFollowedKeeps == ClassInv /\ FileFollowed => ClassInv'
<1> SUFFICES ASSUME ClassInv, FileFollowed
             PROVE  ClassInv'
  OBVIOUS
<1>1. /\ current \in Files
      /\ next > Len(project.sites[current])
      /\ current' = NoFile
      /\ UNCHANGED <<project, stage, next, queue, class, followed, size, index, pred,
                     used, listed, follows>>
  BY DEF FileFollowed, ClassInv, TypeOK
<1>2. TypeOK'
  <2>1. first' \in BOOLEAN
    BY DEF FileFollowed
  <2> QED
    BY <1>1, <2>1 DEF ClassInv, TypeOK
<1>3. CurrentInv' /\ QueueInv' /\ SeedsInv' /\ Justified'
  BY <1>1 DEF ClassInv, CurrentInv, QueueInv, Waiting, SeedsInv, Justified
<1>4. SitesInv'
  <2>1. \A i \in FollowedSites(project, current) : i < next
    BY <1>1 DEF FollowedSites, ClassInv, TypeOK, IsProject
  <2> QED
    BY <1>1, <2>1 DEF ClassInv, SitesInv
<1> QED
  BY <1>2, <1>3, <1>4 DEF ClassInv

LEMMA NextLoopKeeps == ClassInv /\ NextLoop => ClassInv'
<1> SUFFICES ASSUME ClassInv, NextLoop
             PROVE  ClassInv'
  OBVIOUS
<1>1. /\ LoopEnds /\ next' = 1
      /\ UNCHANGED <<project, queue, class, size, index, pred, followed, used, listed,
                     current, first, follows>>
  BY DEF NextLoop, Walking
<1>2. current = NoFile
  BY <1>1 DEF LoopEnds, Popping, ClassInv, CurrentInv
<1>3. TypeOK'
  <2>1. first' \in BOOLEAN
    BY <1>1 DEF ClassInv, TypeOK
  <2>2. stage' \in Stages
    BY <1>1 DEF LoopEnds, Stages
  <2> QED
    BY <1>1, <2>1, <2>2 DEF ClassInv, TypeOK
<1>4. CurrentInv'
  BY <1>1, <1>2 DEF LoopEnds, Popping, CurrentInv
<1>5. QueueInv' /\ Justified'
  BY <1>1 DEF ClassInv, QueueInv, Waiting, Justified
<1>6. SitesInv'
  BY <1>1, <1>2, NoFileAssumption DEF ClassInv, SitesInv
<1>7. SeedsInv'
  <2>1. next \in Nat
    BY DEF ClassInv, TypeOK
  <2>2. CASE stage = "roots" /\ next > Len(project.roots) /\ stage' = "plugin_refs"
    BY <1>1, <2>1, <2>2 DEF ClassInv, SeedsInv, TypeOK, IsProject
  <2>3. CASE /\ stage = "plugin_refs" /\ next > Len(project.plugin_refs)
             /\ stage' = "drain"
    BY <1>1, <2>1, <2>3 DEF ClassInv, SeedsInv, TypeOK, IsProject
  <2>4. CASE stage = "drain" /\ stage' = "framework"
    BY <1>1, <2>1, <2>4 DEF ClassInv, SeedsInv, TypeOK, IsProject
  <2>5. CASE /\ stage = "framework" /\ next > Len(project.framework)
             /\ stage' = "redrain"
    BY <1>1, <2>1, <2>5 DEF ClassInv, SeedsInv, TypeOK, IsProject
  <2>6. CASE stage = "redrain" /\ stage' = "done"
    BY <1>1, <2>1, <2>6 DEF ClassInv, SeedsInv, TypeOK, IsProject
  <2> QED
    BY <1>1, <2>2, <2>3, <2>4, <2>5, <2>6 DEF LoopEnds
<1> QED
  BY <1>3, <1>4, <1>5, <1>6, <1>7 DEF ClassInv

LEMMA ClassInvNext == ClassInv /\ [Next]_vars => ClassInv'
<1> SUFFICES ASSUME ClassInv, [Next]_vars
             PROVE  ClassInv'
  OBVIOUS
<1>1. CASE UNCHANGED vars
  <2>1. TypeOK'
    BY <1>1 DEF vars, ClassInv, TypeOK
  <2>2. CurrentInv' /\ QueueInv' /\ SitesInv'
    BY <1>1 DEF vars, ClassInv, CurrentInv, QueueInv, Waiting, SitesInv
  <2>3. SeedsInv' /\ Justified'
    BY <1>1 DEF vars, ClassInv, SeedsInv, Justified
  <2> QED
    BY <2>1, <2>2, <2>3 DEF ClassInv
<1>2. CASE Next
  BY <1>1, <1>2, SeedRootKeeps, SeedPluginRefKeeps, SeedFrameworkKeeps, SkipKeeps,
     FollowKeeps, RecordImportKeeps, RecordUseKeeps, FileFollowedKeeps, NextLoopKeeps
     DEF Next, Terminated
<1> QED
  BY <1>1, <1>2

-----------------------------------------------------------------------------
(* The walk, whether it runs alone or as the first part of the analysis.   *)
Walks == Init /\ [][Next]_vars

LEMMA IndexReadsOn ==
  ASSUME IndexNext
  PROVE  UNCHANGED <<code, read>>
BY DEF IndexNext, Take, Merge, RecordCached, AskSources, Ask, RecordAnswer, Resume, Walk,
   ClimbUp, Turn, ClimbDown, Answer

LEMMA WalksOn == [AnalysisNext]_analysis => [Next]_vars /\ UNCHANGED code
<1> SUFFICES ASSUME [AnalysisNext]_analysis PROVE [Next]_vars /\ UNCHANGED code
  OBVIOUS
<1>1. CASE WalkOn
  BY <1>1 DEF WalkOn, Next
<1>2. CASE IndexOn
  BY <1>2, IndexReadsOn DEF IndexOn
<1>3. CASE StartReferences \/ StartTestimony
  BY <1>3 DEF StartReferences, StartTestimony, Build
<1>4. CASE ReferencesRead \/ Seek \/ TestimonyRead \/ ReportSymbols
  BY <1>4 DEF ReferencesRead, Seek, TestimonyRead, ReportSymbols
<1>5. CASE UNCHANGED analysis
  BY <1>5 DEF analysis
<1> QED
  BY <1>1, <1>2, <1>3, <1>4, <1>5 DEF AnalysisNext, Reported

LEMMA EveryWalk == Spec \/ AnalysisSpec => Walks
<1>1. AnalysisInit => Init
  BY DEF AnalysisInit
<1> QED
  BY <1>1, WalksOn, PTL DEF Spec, AnalysisSpec, Walks

(* The inductive invariant of the walk. *)
THEOREM ClassInvariant == Walks => []ClassInv
<1> QED
  BY ClassInvInit, ClassInvNext, PTL DEF Walks

(* The variables stay of their types. *)
THEOREM TypeCorrect == Spec \/ AnalysisSpec => []TypeOK
<1>1. ClassInv => TypeOK
  BY DEF ClassInv
<1> QED
  BY <1>1, ClassInvariant, EveryWalk, PTL

-----------------------------------------------------------------------------
LEMMA DoneIsLeast == ClassInv => LeastWhenDone
<1> SUFFICES ASSUME ClassInv, stage = "done"
             PROVE  IsLeastClosed(project, class)
  BY DEF LeastWhenDone, Done
<1>1. current = NoFile /\ queue = <<>>
  BY DEF ClassInv, CurrentInv
<1>2. Waiting = {}
  BY <1>1 DEF Waiting
<1>3. \A f \in Files : followed[f] = class[f]
  BY <1>2 DEF ClassInv, QueueInv
<1>4. SitesHold(project, class)
  BY <1>1, <1>3, NoFileAssumption DEF ClassInv, SitesInv, SitesHold
<1>5. SeedsHold(project, class)
  BY DEF ClassInv, SeedsInv, SeedsHold
<1> QED
  BY <1>4, <1>5 DEF ClassInv, Justified, IsLeastClosed, Closed

(* For every project the walk of run_reachability_bfs ends with the least  *)
(* closed assignment of classes: visiting order, re-following and the late *)
(* framework seeds neither lose nor inflate a file's class.                *)
THEOREM WalkComputesLeast == Spec \/ AnalysisSpec => []LeastWhenDone
<1> QED
  BY ClassInvariant, DoneIsLeast, EveryWalk, PTL

-----------------------------------------------------------------------------
(* Traces. Positions in `reached` are handed out in order, so a file that  *)
(* is reached for the first time comes after everything reached before.    *)
TraceInv ==
    /\ TraceEndsAtSeed
    /\ \A f \in Files : index[f] <= size

LEMMA TraceEnqueue ==
    ASSUME ClassInv, TraceInv, NEW f \in Files, NEW from \in Files \cup {NoFile},
           NEW c \in Reach, EnqueueFile(f, from, c), UNCHANGED project,
           from # NoFile =>
              /\ class[from] # NotReached
              /\ \E i \in FollowedSites(project, from) : project.sites[from][i].to = f
    PROVE  TraceInv'
<1>1. /\ class \in [Files -> Classes] /\ size \in Nat
      /\ index \in [Files -> Nat] /\ pred \in [Files -> Files \cup {NoFile}]
  BY DEF ClassInv, TypeOK
<1>2. CASE class[f] = NotReached
  <2>1. /\ class' = [class EXCEPT ![f] = c]
        /\ index' = [index EXCEPT ![f] = size + 1]
        /\ pred' = [pred EXCEPT ![f] = from]
        /\ size' = size + 1
    BY <1>2, ClassRange DEF EnqueueFile, NotReached
  <2>2. \A g \in Files : index'[g] <= size'
    BY <1>1, <2>1 DEF TraceInv
  <2>3. /\ \A g \in Files :
              g # f => class'[g] = class[g] /\ index'[g] = index[g] /\ pred'[g] = pred[g]
        /\ class'[f] = c /\ index'[f] = size + 1 /\ pred'[f] = from
    BY <1>1, <2>1
  <2>4. c # NotReached
    BY ClassRange DEF NotReached
  <2>5. ASSUME NEW g \in Files, class'[g] # NotReached, pred'[g] # NoFile
        PROVE  /\ class'[pred'[g]] # NotReached
               /\ index'[pred'[g]] < index'[g]
               /\ \E i \in FollowedSites(project, pred'[g]) :
                     project.sites[pred'[g]][i].to = g
    <3>1. CASE g = f
      <4>1. pred'[g] = from /\ from \in Files /\ from # f
        BY <1>2, <2>3, <2>5, <3>1
      <4>2. index[from] <= size /\ index[from] \in Nat
        BY <1>1, <4>1 DEF TraceInv
      <4> QED
        BY <1>1, <2>3, <2>5, <3>1, <4>1, <4>2
    <3>2. CASE g # f
      <4>1. pred'[g] = pred[g] /\ class[g] # NotReached /\ pred[g] \in Files
        BY <1>1, <2>3, <2>5, <3>2
      <4>2. /\ class[pred[g]] # NotReached
            /\ index[pred[g]] < index[g]
            /\ \E i \in FollowedSites(project, pred[g]) :
                  project.sites[pred[g]][i].to = g
        BY <2>5, <4>1 DEF TraceInv, TraceEndsAtSeed
      <4>3. pred[g] # f
        BY <1>2, <4>2
      <4> QED
        BY <2>3, <3>2, <4>1, <4>2, <4>3
    <3> QED
      BY <3>1, <3>2
  <2> QED
    BY <2>2, <2>5 DEF TraceInv, TraceEndsAtSeed
<1>3. CASE class[f] # NotReached
  <2>1. UNCHANGED <<size, index, pred>>
    BY <1>3, ClassRange DEF EnqueueFile
  <2>2. \A g \in Files : class'[g] # NotReached <=> class[g] # NotReached
    <3>1. class' = class \/ class' = [class EXCEPT ![f] = c]
      BY <1>3 DEF EnqueueFile
    <3>2. c # NotReached
      BY ClassRange DEF NotReached
    <3> QED
      BY <1>1, <1>3, <3>1, <3>2
  <2> QED
    BY <1>1, <2>1, <2>2 DEF TraceInv, TraceEndsAtSeed
<1> QED
  BY <1>2, <1>3

LEMMA TraceInvNext == ClassInv /\ TraceInv /\ [Next]_vars => TraceInv'
<1> SUFFICES ASSUME ClassInv, TraceInv, [Next]_vars
             PROVE  TraceInv'
  OBVIOUS
<1>1. CASE UNCHANGED <<project, class, size, index, pred>>
  BY <1>1 DEF TraceInv, TraceEndsAtSeed
<1>2. CASE SeedRoot
  <2>1. next \in 1..Len(project.roots)
    BY <1>2 DEF SeedRoot, ClassInv, TypeOK, IsProject
  <2> QED
    BY <1>2, <2>1, SeedClasses, TraceEnqueue DEF SeedRoot, ClassInv, TypeOK
<1>3. CASE SeedPluginRef
  <2>1. next \in 1..Len(project.plugin_refs)
    BY <1>3 DEF SeedPluginRef, ClassInv, TypeOK, IsProject
  <2> QED
    BY <1>3, <2>1, SeedClasses, TraceEnqueue DEF SeedPluginRef, ClassInv, TypeOK
<1>4. CASE SeedFramework
  <2>1. next \in 1..Len(project.framework)
    BY <1>4 DEF SeedFramework, ClassInv, TypeOK, IsProject
  <2> QED
    BY <1>4, <2>1, SeedClasses, TraceEnqueue DEF SeedFramework, ClassInv, TypeOK
<1>5. CASE RecordImport
  <2>1. /\ current \in Files
        /\ next \in FollowedSites(project, current)
        /\ TheSite = project.sites[current][next]
        /\ UNCHANGED project
    BY <1>5 DEF RecordImport, AtSite, TheSite, FollowedSites, IsFileSite, ClassInv, TypeOK,
       IsProject
  <2>2. class[current] # NotReached /\ followed[current] = class[current]
    BY <2>1, NoFileAssumption DEF ClassInv, CurrentInv
  <2>3. /\ TheSite.to \in Files
        /\ EdgeClass(project, current, followed[current], TheSite) \in Reach
    BY <2>1, <2>2, FollowedReach, SiteTarget, EdgeClassFacts DEF ClassInv, TypeOK
  <2>4. EnqueueFile(TheSite.to, current,
                    EdgeClass(project, current, followed[current], TheSite))
    BY <1>5 DEF RecordImport
  <2> QED
    BY <2>1, <2>2, <2>3, <2>4, TraceEnqueue
<1>6. CASE \/ Skip \/ Follow \/ RecordUse \/ FileFollowed \/ NextLoop \/ Terminated
           \/ UNCHANGED vars
  BY <1>1, <1>6 DEF Skip, Follow, RecordUse, FileFollowed, NextLoop, Terminated, vars
<1> QED
  BY <1>2, <1>3, <1>4, <1>5, <1>6 DEF Next

(* Every trace leads strictly back through the order of arrival to a seed, *)
(* so the loop of trace_to_file ends, whatever the import cycles.          *)
THEOREM TracesEnd == Spec \/ AnalysisSpec => []TraceEndsAtSeed
<1>1. Init => TraceInv
  BY DEF Init, TraceInv, TraceEndsAtSeed
<1>2. TraceInv => TraceEndsAtSeed
  BY DEF TraceInv
<1> QED
  BY <1>1, <1>2, TraceInvNext, ClassInvariant, EveryWalk, PTL DEF Walks

-----------------------------------------------------------------------------
(* A file is followed once per class at most: each time at a better one. *)
FollowsInv == \A f \in Files : follows[f] <= followed[f]

LEMMA FollowsInvNext == ClassInv /\ FollowsInv /\ [Next]_vars => FollowsInv'
<1> SUFFICES ASSUME ClassInv, FollowsInv, [Next]_vars
             PROVE  FollowsInv'
  OBVIOUS
<1>1. CASE UNCHANGED <<followed, follows>>
  BY <1>1 DEF FollowsInv
<1>2. CASE Follow
  <2> DEFINE f == Head(queue)
  <2>1. /\ queue # <<>> /\ queue' = Tail(queue)
        /\ ~AlreadyFollowed(f)
        /\ followed' = [followed EXCEPT ![f] = class[f]]
        /\ follows' = [follows EXCEPT ![f] = @ + 1]
    BY <1>2 DEF Follow
  <2>2. f \in Files /\ f \in Waiting
    BY <2>1, PopEffect DEF ClassInv
  <2>3. /\ class[f] \in 1..4 /\ followed[f] \in 0..4 /\ follows[f] \in Nat
        /\ followed[f] <= class[f]
    <3>1. class[f] # NotReached
      BY <2>2 DEF ClassInv, QueueInv
    <3> QED
      BY <2>2, <3>1, ReachedClass, ClassRange DEF ClassInv, QueueInv, TypeOK
  <2>4. followed[f] < class[f]
    BY <2>1, <2>3 DEF AlreadyFollowed, NotReached
  <2>5. \A g \in Files : g # f => followed'[g] = followed[g] /\ follows'[g] = follows[g]
    BY <2>1, <2>2 DEF ClassInv, TypeOK
  <2>6. followed'[f] = class[f] /\ follows'[f] = follows[f] + 1
    BY <2>1, <2>2 DEF ClassInv, TypeOK
  <2>7. follows[f] <= followed[f]
    BY <2>2 DEF FollowsInv
  <2> HIDE DEF f
  <2>8. follows'[f] <= followed'[f]
    BY <2>3, <2>4, <2>6, <2>7
  <2> QED
    BY <2>5, <2>8 DEF FollowsInv
<1>3. CASE Next /\ ~Follow
  BY <1>1, <1>3 DEF Next, SeedRoot, SeedPluginRef, SeedFramework, Skip, RecordImport,
     RecordUse, FileFollowed, NextLoop, Terminated, Walking, vars
<1> QED
  BY <1>1, <1>2, <1>3 DEF vars

(* The bound the comment of run_reachability_bfs states. *)
THEOREM FollowBound == Spec \/ AnalysisSpec => []FollowedAtMostFourTimes
<1>1. Init => FollowsInv
  <2> SUFFICES ASSUME Init, NEW f \in Files
               PROVE  follows[f] <= followed[f]
    BY DEF FollowsInv
  <2>1. follows[f] = 0 /\ followed[f] = 0
    BY DEF Init, NotReached
  <2> QED
    BY <2>1
<1>2. ClassInv /\ FollowsInv => FollowedAtMostFourTimes
  <2> SUFFICES ASSUME ClassInv, FollowsInv, NEW f \in Files
               PROVE  follows[f] <= 4
    BY DEF FollowedAtMostFourTimes
  <2>1. followed[f] \in 0..4 /\ follows[f] \in Nat /\ follows[f] <= followed[f]
    BY ClassRange DEF ClassInv, TypeOK, FollowsInv
  <2> QED
    BY <2>1
<1> QED
  BY <1>1, <1>2, FollowsInvNext, ClassInvariant, EveryWalk, PTL DEF Walks

-----------------------------------------------------------------------------
(* Uses. What a followed file has yielded so far: its first following      *)
(* records each of its uses, the later ones none.                          *)
IsUse(f, n) == n \in 1..Len(project.sites[f]) /\ project.sites[f][n].kind = "external"

Yielded(f, n) ==
    followed[f] # NotReached /\ IsUse(f, n) /\ (f = current /\ first => n < next)

UsesInv ==
    /\ \A i, j \in 1..Len(used) : used[i] = used[j] => i = j
    /\ \A f \in Files : \A n \in Nat \ {0} :
          Yielded(f, n) <=> \E i \in 1..Len(used) : used[i] = <<f, n>>

(* A step that records nothing yields nothing.                             *)
LEMMA NothingYielded ==
    ASSUME UsesInv, UNCHANGED used,
           \A f \in Files : \A n \in Nat \ {0} : Yielded(f, n)' <=> Yielded(f, n)
    PROVE  UsesInv'
BY DEF UsesInv

LEMMA RecordUseYields == ClassInv /\ UsesInv /\ RecordUse => UsesInv'
<1> SUFFICES ASSUME ClassInv, UsesInv, RecordUse
             PROVE  UsesInv'
  OBVIOUS
<1>1. /\ current \in Files /\ next \in Nat \ {0} /\ IsUse(current, next)
      /\ followed[current] # NotReached
  <2>1. current \in Files /\ next \in Nat \ {0}
    BY DEF RecordUse, AtSite, ClassInv, TypeOK
  <2>2. IsUse(current, next)
    BY <2>1 DEF RecordUse, AtSite, TheSite, IsUse, ClassInv, TypeOK, IsProject
  <2> QED
    BY <2>1, <2>2, NoFileAssumption DEF ClassInv, CurrentInv
<1>2. UNCHANGED <<project, followed, current, first>> /\ next' = next + 1
  BY DEF RecordUse
<1>3. ASSUME NEW f \in Files, NEW n \in Nat \ {0}
      PROVE  Yielded(f, n)' <=> Yielded(f, n) \/ (first /\ <<f, n>> = <<current, next>>)
  BY <1>1, <1>2, <1>3 DEF Yielded, IsUse
<1>4. CASE ~first
  BY <1>3, <1>4, NothingYielded DEF RecordUse
<1>5. CASE first
  <2>1. used' = Append(used, <<current, next>>) /\ used \in Seq(Files \X (Nat \ {0}))
    BY <1>5 DEF RecordUse, ClassInv, TypeOK
  <2>2. /\ Len(used) \in Nat /\ Len(used') = Len(used) + 1
        /\ \A i \in 1..Len(used) : used'[i] = used[i]
        /\ used'[Len(used) + 1] = <<current, next>>
    BY <1>1, <2>1
  <2>3. \A i \in 1..Len(used) : used[i] # <<current, next>>
    BY <1>1, <1>5 DEF UsesInv, Yielded
  <2>4. ASSUME NEW i \in 1..Len(used'), NEW j \in 1..Len(used'), used'[i] = used'[j]
        PROVE  i = j
    <3>1. CASE i \in 1..Len(used) /\ j \in 1..Len(used)
      BY <2>2, <2>4, <3>1 DEF UsesInv
    <3>2. CASE i = Len(used) + 1 \/ j = Len(used) + 1
      BY <2>2, <2>3, <2>4, <3>2
    <3> QED
      BY <2>2, <3>1, <3>2
  <2>5. ASSUME NEW f \in Files, NEW n \in Nat \ {0}
        PROVE  Yielded(f, n)' <=> \E i \in 1..Len(used') : used'[i] = <<f, n>>
    <3>1. Yielded(f, n) <=> \E i \in 1..Len(used) : used[i] = <<f, n>>
      BY DEF UsesInv
    <3>2. (\E i \in 1..Len(used') : used'[i] = <<f, n>>)
             <=> \/ \E i \in 1..Len(used) : used[i] = <<f, n>>
                 \/ <<f, n>> = <<current, next>>
      BY <2>2
    <3> QED
      BY <1>3, <1>5, <3>1, <3>2
  <2> QED
    BY <2>4, <2>5 DEF UsesInv
<1> QED
  BY <1>4, <1>5

LEMMA FollowYields == ClassInv /\ UsesInv /\ Follow => UsesInv'
<1> SUFFICES ASSUME ClassInv, UsesInv, Follow
             PROVE  UsesInv'
  OBVIOUS
<1> DEFINE g == Head(queue)
<1>1. /\ queue # <<>> /\ queue' = Tail(queue) /\ current = NoFile
      /\ followed' = [followed EXCEPT ![g] = class[g]]
      /\ first' = (followed[g] = NotReached)
      /\ current' = g /\ next' = 1
      /\ UNCHANGED <<project, used>>
  BY DEF Follow, Popping
<1>2. g \in Files /\ class[g] # NotReached
  BY <1>1, PopEffect DEF ClassInv, QueueInv
<1>3. /\ followed'[g] # NotReached
      /\ \A f \in Files : f # g => followed'[f] = followed[f]
  BY <1>1, <1>2 DEF ClassInv, TypeOK
<1>4. ASSUME NEW f \in Files, NEW n \in Nat \ {0}
      PROVE  Yielded(f, n)' <=> Yielded(f, n)
  <2> HIDE DEF g
  <2>1. f # current
    BY <1>1, NoFileAssumption
  <2>2. CASE f = g
    <3>1. f = current' /\ first' = (followed[f] = NotReached) /\ ~(n < next')
      BY <1>1, <2>2
    <3>2. followed[f] = NotReached => ~Yielded(f, n)' /\ ~Yielded(f, n)
      BY <3>1 DEF Yielded
    <3>3. followed[f] # NotReached => (Yielded(f, n)' <=> IsUse(f, n)')
                                      /\ (Yielded(f, n) <=> IsUse(f, n))
      BY <1>3, <2>1, <2>2, <3>1 DEF Yielded
    <3> QED
      BY <1>1, <3>2, <3>3 DEF IsUse
  <2>3. CASE f # g
    BY <1>1, <1>3, <2>1, <2>3 DEF Yielded, IsUse
  <2> QED
    BY <2>2, <2>3
<1> QED
  BY <1>1, <1>4, NothingYielded

LEMMA UsesInvNext == ClassInv /\ UsesInv /\ [Next]_vars => UsesInv'
<1> SUFFICES ASSUME ClassInv, UsesInv, [Next]_vars
             PROVE  UsesInv'
  OBVIOUS
<1>1. CASE UNCHANGED <<project, followed, current, first, used>> /\ current = NoFile
  <2>1. \A f \in Files : f # current
    BY <1>1, NoFileAssumption
  <2> QED
    BY <1>1, <2>1, NothingYielded DEF Yielded, IsUse
<1>2. CASE RecordImport
  <2>1. ~IsUse(current, next) /\ next' = next + 1 /\ next \in Nat \ {0}
    BY <1>2 DEF RecordImport, TheSite, IsUse, ClassInv, TypeOK
  <2>2. UNCHANGED <<project, followed, current, first, used>>
    BY <1>2 DEF RecordImport
  <2>3. ASSUME NEW f \in Files, NEW n \in Nat \ {0}
        PROVE  Yielded(f, n)' <=> Yielded(f, n)
    BY <2>1, <2>2 DEF Yielded, IsUse
  <2> QED
    BY <2>2, <2>3, NothingYielded
<1>3. CASE FileFollowed
  <2>1. /\ current' = NoFile /\ next > Len(project.sites[current])
        /\ UNCHANGED <<project, followed, used>>
    BY <1>3 DEF FileFollowed
  <2>2. \A f \in Files : f # current'
    BY <2>1, NoFileAssumption
  <2>3. next \in Nat /\ \A f \in Files : Len(project.sites[f]) \in Nat
    BY DEF ClassInv, TypeOK, IsProject
  <2>4. ASSUME NEW f \in Files, NEW n \in Nat \ {0}
        PROVE  Yielded(f, n)' <=> Yielded(f, n)
    BY <2>1, <2>2, <2>3 DEF Yielded, IsUse
  <2> QED
    BY <2>1, <2>4, NothingYielded
<1>4. CASE SeedRoot \/ SeedPluginRef \/ SeedFramework \/ Skip \/ NextLoop
  <2>1. UNCHANGED <<project, followed, current, first, used>>
    BY <1>4 DEF SeedRoot, SeedPluginRef, SeedFramework, Skip, NextLoop, Walking
  <2>2. current = NoFile
    BY <1>4 DEF SeedRoot, SeedPluginRef, SeedFramework, Skip, NextLoop, LoopEnds, Popping,
       ClassInv, CurrentInv
  <2> QED
    BY <1>1, <2>1, <2>2
<1>5. CASE Terminated \/ UNCHANGED vars
  <2>1. UNCHANGED <<project, followed, current, first, used, next>>
    BY <1>5 DEF Terminated, vars
  <2>2. \A f \in Files : \A n \in Nat \ {0} : Yielded(f, n)' <=> Yielded(f, n)
    BY <2>1 DEF Yielded, IsUse
  <2> QED
    BY <2>1, <2>2, NothingYielded
<1> QED
  BY <1>2, <1>3, <1>4, <1>5, RecordUseYields, FollowYields DEF Next

(* Every use in a reached file is recorded, and recorded once, however     *)
(* often the file is followed (record_file_imports).                       *)
THEOREM UsesRecorded == Spec \/ AnalysisSpec => []UsesRecordedOnce
<1>1. Init => UsesInv
  <2> SUFFICES ASSUME Init PROVE UsesInv
    OBVIOUS
  <2>1. /\ 1..Len(used) = {}
        /\ \A f \in Files : followed[f] = NotReached
    BY DEF Init
  <2>2. \A f \in Files : \A n \in Nat \ {0} : ~Yielded(f, n)
    BY <2>1 DEF Yielded
  <2> QED
    BY <2>1, <2>2 DEF UsesInv
<1>2. ClassInv /\ UsesInv => UsesRecordedOnce
  <2> SUFFICES ASSUME ClassInv, UsesInv, Done,
                      NEW f \in Files, NEW n \in 1..Len(project.sites[f]),
                      project.sites[f][n].kind = "external"
               PROVE  class[f] # NotReached <=> \E i \in 1..Len(used) : used[i] = <<f, n>>
    BY DEF UsesInv, UsesRecordedOnce
  <2>1. n \in Nat \ {0} /\ IsUse(f, n)
    BY DEF IsUse, ClassInv, TypeOK, IsProject
  <2>2. current = NoFile /\ queue = <<>>
    BY DEF Done, ClassInv, CurrentInv
  <2>3. f \notin Waiting
    BY <2>2 DEF Waiting
  <2>4. class[f] = followed[f] /\ f # current
    BY <2>2, <2>3, NoFileAssumption DEF ClassInv, QueueInv
  <2> QED
    BY <2>1, <2>4 DEF UsesInv, Yielded
<1> QED
  BY <1>1, <1>2, UsesInvNext, ClassInvariant, EveryWalk, PTL DEF Walks

-----------------------------------------------------------------------------
(* An enqueue either raises one class or changes none. *)
LEMMA EnqueueRaises ==
    ASSUME ClassInv, NEW f \in Files, NEW from \in Files \cup {NoFile}, NEW c \in Reach,
           EnqueueFile(f, from, c), UNCHANGED project
    PROVE  UNCHANGED <<project, class>> \/ Fixpoint!Raise(f, c)
<1>1. class[f] \in 0..4 /\ c \in 1..4
  BY ReachedClass, ClassRange DEF ClassInv
<1>2. CASE class' = class
  BY <1>2
<1>3. CASE class' # class
  <2>1. class' = [class EXCEPT ![f] = c] /\ c > class[f]
    BY <1>1, <1>3 DEF EnqueueFile, NotReached
  <2> QED
    BY <2>1 DEF Fixpoint!Raise
<1> QED
  BY <1>2, <1>3

(* The definitions ReachFixpoint brings with it are this module's own. *)
LEMMA SameClasses ==
    /\ \A root : Fixpoint!RootClass(root) = RootClass(root)
    /\ \A ref : Fixpoint!PluginRefClass(ref) = PluginRefClass(ref)
    /\ Fixpoint!Certain = Certain
    /\ Fixpoint!NotReached = NotReached
BY DEF Fixpoint!RootClass, RootClass, Fixpoint!PluginRefClass, PluginRefClass,
   Fixpoint!Certain, Certain, Fixpoint!Exposed, Exposed, Fixpoint!NotReached, NotReached

LEMMA SameSites ==
    /\ \A p, f : Fixpoint!FollowedSites(p, f) = FollowedSites(p, f)
    /\ \A p, f, c, s : Fixpoint!EdgeClass(p, f, c, s) = EdgeClass(p, f, c, s)
BY DEF Fixpoint!FollowedSites, FollowedSites, Fixpoint!IsFileSite, IsFileSite,
   Fixpoint!EdgeClass, EdgeClass, Fixpoint!Weaker, Weaker, Fixpoint!Reachable, Reachable,
   Fixpoint!Eager, Eager, Fixpoint!Exposed, Exposed

LEMMA StepIsRise == ClassInv /\ [Next]_vars => [Fixpoint!Next]_(Fixpoint!vars)
<1> SUFFICES ASSUME ClassInv, [Next]_vars
             PROVE  Fixpoint!Next \/ UNCHANGED <<project, class>>
  BY DEF Fixpoint!vars
<1>1. CASE SeedRoot
  <2>1. next \in 1..Len(project.roots)
    BY <1>1 DEF SeedRoot, ClassInv, TypeOK, IsProject
  <2> QED
    BY <1>1, <2>1, SeedClasses, EnqueueRaises, SameClasses
       DEF SeedRoot, ClassInv, TypeOK, Fixpoint!Next, Fixpoint!RaiseSeed
<1>2. CASE SeedPluginRef
  <2>1. next \in 1..Len(project.plugin_refs)
    BY <1>2 DEF SeedPluginRef, ClassInv, TypeOK, IsProject
  <2> QED
    BY <1>2, <2>1, SeedClasses, EnqueueRaises, SameClasses
       DEF SeedPluginRef, ClassInv, TypeOK, Fixpoint!Next, Fixpoint!RaiseSeed
<1>3. CASE SeedFramework
  <2>1. next \in 1..Len(project.framework)
    BY <1>3 DEF SeedFramework, ClassInv, TypeOK, IsProject
  <2> QED
    BY <1>3, <2>1, SeedClasses, EnqueueRaises, SameClasses
       DEF SeedFramework, ClassInv, TypeOK, Fixpoint!Next, Fixpoint!RaiseSeed
<1>4. CASE RecordImport
  <2>1. /\ current \in Files
        /\ next \in FollowedSites(project, current)
        /\ TheSite = project.sites[current][next]
        /\ UNCHANGED project
    BY <1>4 DEF RecordImport, AtSite, TheSite, FollowedSites, IsFileSite, ClassInv, TypeOK,
       IsProject
  <2>2. class[current] # NotReached /\ followed[current] = class[current]
    BY <2>1, NoFileAssumption DEF ClassInv, CurrentInv
  <2>3. /\ TheSite.to \in Files
        /\ EdgeClass(project, current, class[current], TheSite) \in Reach
    BY <2>1, <2>2, FollowedReach, SiteTarget, EdgeClassFacts DEF ClassInv, TypeOK
  <2>4. EnqueueFile(TheSite.to, current,
                    EdgeClass(project, current, class[current], TheSite))
    BY <1>4, <2>2 DEF RecordImport
  <2>5. \/ UNCHANGED <<project, class>>
        \/ Fixpoint!Raise(TheSite.to, EdgeClass(project, current, class[current], TheSite))
    BY <2>1, <2>3, <2>4, EnqueueRaises
  <2> QED
    BY <2>1, <2>2, <2>5, SameClasses, SameSites DEF Fixpoint!Next, Fixpoint!RaiseAlongSite
<1>5. CASE \/ Skip \/ Follow \/ RecordUse \/ FileFollowed \/ NextLoop \/ Terminated
           \/ UNCHANGED vars
  BY <1>5 DEF Skip, Follow, RecordUse, FileFollowed, NextLoop, Terminated, vars
<1> QED
  BY <1>1, <1>2, <1>3, <1>4, <1>5 DEF Next

(* Every step of the walk is a rise owed to a seed or a site, or changes   *)
(* no class: the walk implements ReachFixpoint for every project.          *)
THEOREM WalkRefinesFixpoint == Spec \/ AnalysisSpec => Fixpoint!SafeSpec
<1>1. Init => Fixpoint!Init
  BY DEF Init, Fixpoint!Init, NotReached, Fixpoint!NotReached
<1> QED
  BY <1>1, StepIsRise, ClassInvariant, EveryWalk, PTL DEF Walks, Fixpoint!SafeSpec

-----------------------------------------------------------------------------
LEMMA LeastNatural ==
  ASSUME NEW S \in SUBSET Nat, S # {}
  PROVE  \E n \in S : \A m \in S : n <= m
<1> DEFINE R == {ss \in Nat \X Nat : ss[1] < ss[2]}
<1>1. IsWellFoundedOn(R, Nat)
  BY NatLessThanWellFounded DEF OpToRel
<1>2. PICK x \in S : \A y \in S : ~ (<<y, x>> \in R)
  BY <1>1, WFMin
<1>3. \A y \in S : ~ (y < x)
  BY <1>2
<1> QED
  BY <1>3

-----------------------------------------------------------------------------
(* The order of arrival. What has been reached, and followed; the file a   *)
(* predecessor is at, a seed having none; and the files that every set     *)
(* holds that holds the entry seeds and is closed under import sites.      *)
IsReached(f) == class[f] # NotReached

IsFollowed(f) == followed[f] # NotReached

PredIndex(f) == IF pred[f] = NoFile THEN 0 ELSE index[pred[f]]

InEntry(f) ==
    \A S \in SUBSET Files :
        EntrySeeds \subseteq S /\ (\A g \in S, h \in Files : Linked(g, h) => h \in S) => f \in S

ArrivalInv ==
    /\ \A f \in Files : index[f] <= size /\ (IsReached(f) <=> index[f] # 0)
    /\ \A f, g \in Files : IsReached(f) /\ index[f] = index[g] => f = g

(* Files are followed first in the order they arrived in: whoever arrived  *)
(* earlier is followed already, or is ahead in the queue.                  *)
AheadOf(f, g) ==
    ~IsFollowed(g) /\ \A j \in 1..Len(queue) : queue[j] = g => \E i \in 1..j - 1 : queue[i] = f

AheadInv ==
    \A f, g \in Files :
        IsReached(f) /\ index[f] < index[g] => IsFollowed(f) \/ AheadOf(f, g)

(* Predecessors ascend as files arrive, those of the entry seeds' files    *)
(* and those of the other files each on their own.                         *)
PredsInv ==
    /\ \A f, g \in Files :
          pred[g] = f => IsReached(g) /\ IsFollowed(f) /\ (InEntry(f) <=> InEntry(g))
    /\ current # NoFile /\ first =>
          \A f \in Files : IsFollowed(f) => index[f] <= index[current]
    /\ \A f, g \in Files :
          IsReached(f) /\ index[f] < index[g] /\ (InEntry(f) <=> InEntry(g))
              => PredIndex(f) <= PredIndex(g)

(* The files a followed file imports arrived while it was followed, or     *)
(* from a file that arrived before it.                                     *)
ArrivedBy(g, f) == IsReached(g) /\ PredIndex(g) <= index[f]

LinksInv ==
    \A f, g \in Files : \A i \in FollowedSites(project, f) :
        IsFollowed(f) /\ project.sites[f][i].to = g /\ (f = current /\ first => i < next)
            => ArrivedBy(g, f)

Early == stage \in {"roots", "plugin_refs"}

PhaseInv ==
    /\ Early => \A f \in Files : ~IsFollowed(f)
    /\ Early \/ stage = "drain" => \A f \in Files : IsReached(f) => InEntry(f)
    /\ ~Early /\ stage # "drain" => \A f \in Files : InEntry(f) => IsFollowed(f)
    /\ stage = "framework" => \A f \in Files : IsReached(f) /\ ~InEntry(f) => pred[f] = NoFile

SeedsOf(f) == IF InEntry(f) THEN EntrySeeds ELSE GlobSeeds

FirstSeedsInv == \A f \in Files : IsReached(f) => (pred[f] = NoFile <=> f \in SeedsOf(f))

OrderInv ==
    /\ ArrivalInv /\ AheadInv
    /\ PredsInv /\ LinksInv
    /\ PhaseInv /\ FirstSeedsInv

-----------------------------------------------------------------------------
(* What is reached when: a file is reached before it is followed.          *)
LEMMA FollowedIsReached ==
    ASSUME ClassInv, NEW f \in Files, IsFollowed(f)
    PROVE  IsReached(f)
<1>1. class[f] \in 0..4 /\ followed[f] \in 0..4 /\ followed[f] <= class[f]
  BY ClassRange DEF ClassInv, TypeOK, QueueInv
<1> QED
  BY <1>1 DEF IsFollowed, IsReached, NotReached

LEMMA InEntryRests ==
    ASSUME project' = project, NEW f
    PROVE  InEntry(f)' <=> InEntry(f)
BY DEF InEntry, EntrySeeds, Linked, FollowedSites

LEMMA InEntryFacts ==
    /\ \A f \in EntrySeeds : InEntry(f)
    /\ \A f, g \in Files : InEntry(f) /\ Linked(f, g) => InEntry(g)
<1>1. \A f \in EntrySeeds : InEntry(f)
  BY DEF InEntry
<1>2. ASSUME NEW f \in Files, NEW g \in Files, InEntry(f), Linked(f, g),
             NEW S \in SUBSET Files, EntrySeeds \subseteq S,
             \A x \in S, h \in Files : Linked(x, h) => h \in S
      PROVE  g \in S
  BY <1>2 DEF InEntry
<1> QED
  BY <1>1, <1>2 DEF InEntry

(* Once the drain of the entry seeds is over, what they lead to has been   *)
(* followed: it is a closed set.                                           *)
LEMMA DrainedIsEntry ==
    ASSUME ClassInv, OrderInv, stage = "drain", current = NoFile, queue = <<>>,
           NEW f \in Files, InEntry(f)
    PROVE  IsFollowed(f)
<1> DEFINE S == {g \in Files : IsFollowed(g)}
<1>1. \A g \in Files : followed[g] = class[g]
  BY DEF ClassInv, QueueInv, Waiting
<1>2. EntrySeeds \subseteq S
  <2>1. ASSUME NEW i \in 1..Len(project.roots)
        PROVE  project.roots[i].file \in S
    <3>1. project.roots[i].file \in Files /\ RootClass(project.roots[i]) \in 1..4
      BY SeedClasses, ClassRange DEF ClassInv, TypeOK
    <3>2. class[project.roots[i].file] >= RootClass(project.roots[i])
      BY DEF ClassInv, SeedsInv
    <3>3. class[project.roots[i].file] \in 0..4
      BY <3>1, ClassRange DEF ClassInv, TypeOK
    <3>4. class[project.roots[i].file] # 0
      BY <3>1, <3>2, <3>3
    <3> QED
      BY <1>1, <3>1, <3>4 DEF IsFollowed, NotReached
  <2>2. ASSUME NEW i \in 1..Len(project.plugin_refs)
        PROVE  project.plugin_refs[i].file \in S
    <3>1. /\ project.plugin_refs[i].file \in Files
          /\ PluginRefClass(project.plugin_refs[i]) \in 1..4
      BY SeedClasses, ClassRange DEF ClassInv, TypeOK
    <3>2. class[project.plugin_refs[i].file] >= PluginRefClass(project.plugin_refs[i])
      BY DEF ClassInv, SeedsInv
    <3>3. class[project.plugin_refs[i].file] \in 0..4
      BY <3>1, ClassRange DEF ClassInv, TypeOK
    <3>4. class[project.plugin_refs[i].file] # 0
      BY <3>1, <3>2, <3>3
    <3> QED
      BY <1>1, <3>1, <3>4 DEF IsFollowed, NotReached
  <2> QED
    BY <2>1, <2>2 DEF EntrySeeds
<1>3. ASSUME NEW g \in S, NEW h \in Files, Linked(g, h)
      PROVE  h \in S
  <2>1. PICK i \in FollowedSites(project, g) : project.sites[g][i].to = h
    BY <1>3 DEF Linked
  <2>2. IsReached(h)
    BY <2>1, NoFileAssumption DEF OrderInv, LinksInv, ArrivedBy
  <2> QED
    BY <1>1, <2>2 DEF IsFollowed, IsReached
<1>4. S \in SUBSET Files
  OBVIOUS
<1>5. f \in S
  BY <1>2, <1>3, <1>4 DEF InEntry
<1> QED
  BY <1>5

(* A seed of a loop that is over has been reached.                         *)
LEMMA SeedsReached ==
    ASSUME ClassInv, NEW f \in Files
    PROVE  /\ ~Early /\ f \in EntrySeeds => IsReached(f)
           /\ stage \in {"redrain", "done"} /\ f \in GlobSeeds => IsReached(f)
<1>1. ASSUME NEW i \in 1..Len(project.roots), ~Early, f = project.roots[i].file
      PROVE  IsReached(f)
  <2>1. class[f] >= RootClass(project.roots[i]) /\ RootClass(project.roots[i]) \in 1..4
    BY <1>1, SeedClasses, ClassRange DEF ClassInv, TypeOK, SeedsInv, Early
  <2>2. class[f] \in 0..4
    BY ClassRange DEF ClassInv, TypeOK
  <2> QED
    BY <2>1, <2>2 DEF IsReached, NotReached
<1>2. ASSUME NEW i \in 1..Len(project.plugin_refs), ~Early, f = project.plugin_refs[i].file
      PROVE  IsReached(f)
  <2>1. /\ class[f] >= PluginRefClass(project.plugin_refs[i])
        /\ PluginRefClass(project.plugin_refs[i]) \in 1..4
    BY <1>2, SeedClasses, ClassRange DEF ClassInv, TypeOK, SeedsInv, Early
  <2>2. class[f] \in 0..4
    BY ClassRange DEF ClassInv, TypeOK
  <2> QED
    BY <2>1, <2>2 DEF IsReached, NotReached
<1>3. ASSUME NEW i \in 1..Len(project.framework), stage \in {"redrain", "done"},
             f = project.framework[i]
      PROVE  IsReached(f)
  <2>1. class[f] >= Certain
    BY <1>3 DEF ClassInv, SeedsInv
  <2>2. class[f] \in 0..4
    BY ClassRange DEF ClassInv, TypeOK
  <2> QED
    BY <2>1, <2>2 DEF IsReached, NotReached, Certain
<1> QED
  BY <1>1, <1>2, <1>3 DEF EntrySeeds, GlobSeeds

-----------------------------------------------------------------------------
(* A first arrival.                                                        *)
LEMMA Arrival ==
    ASSUME ClassInv, OrderInv, NEW f \in Files, NEW from \in Files \cup {NoFile},
           NEW c \in Reach, EnqueueFile(f, from, c), class[f] = NotReached,
           UNCHANGED <<project, stage, followed, current, first>>,
           from = NoFile =>
              /\ current = NoFile /\ f \in SeedsOf(f)
              /\ \A g \in Files : IsReached(g) /\ (InEntry(g) <=> InEntry(f)) => pred[g] = NoFile,
           from # NoFile =>
              /\ from = current /\ first /\ IsFollowed(from)
              /\ (InEntry(f) <=> InEntry(from)) /\ f \notin SeedsOf(f),
           Early \/ stage = "drain" => InEntry(f),
           stage = "framework" /\ ~InEntry(f) => from = NoFile
    PROVE  ArrivalInv' /\ AheadInv' /\ PredsInv' /\ PhaseInv' /\ FirstSeedsInv'
<1>1. /\ class \in [Files -> Classes] /\ size \in Nat
      /\ index \in [Files -> Nat] /\ pred \in [Files -> Files \cup {NoFile}]
      /\ queue \in Seq(Files) /\ Len(queue) \in Nat
  BY DEF ClassInv, TypeOK
<1>2. /\ class' = [class EXCEPT ![f] = c]
      /\ index' = [index EXCEPT ![f] = size + 1]
      /\ pred' = [pred EXCEPT ![f] = from]
      /\ size' = size + 1
      /\ queue' = Append(queue, f)
  BY ClassRange DEF EnqueueFile, NotReached
<1>3. /\ class'[f] = c /\ index'[f] = size + 1 /\ pred'[f] = from
      /\ \A g \in Files : g # f => class'[g] = class[g] /\ index'[g] = index[g] /\ pred'[g] = pred[g]
      /\ c # NotReached
  BY <1>1, <1>2, ClassRange DEF NotReached
<1>4. /\ Len(queue') = Len(queue) + 1 /\ queue'[Len(queue) + 1] = f
      /\ \A i \in 1..Len(queue) : queue'[i] = queue[i]
  BY <1>1, <1>2
<1>5. /\ ~IsReached(f) /\ ~IsFollowed(f)
      /\ IsReached(f)' /\ \A g \in Files : g # f => (IsReached(g)' <=> IsReached(g))
      /\ \A g \in Files : IsFollowed(g)' <=> IsFollowed(g)
      /\ \A g : InEntry(g)' <=> InEntry(g)
  BY <1>3, FollowedIsReached, InEntryRests DEF IsReached, IsFollowed
<1>6. /\ \A g \in Files : index[g] \in Nat /\ index[g] <= size
      /\ \A g \in Files : pred[g] # NoFile => pred[g] \in Files /\ pred[g] # f
  BY <1>1, <1>5, FollowedIsReached DEF OrderInv, ArrivalInv, PredsInv
<1>7. ArrivalInv'
  <2>1. \A g \in Files : index'[g] <= size' /\ (IsReached(g)' <=> index'[g] # 0)
    BY <1>1, <1>2, <1>3, <1>5, <1>6 DEF OrderInv, ArrivalInv
  <2>2. ASSUME NEW g \in Files, NEW h \in Files, IsReached(g)', index'[g] = index'[h]
        PROVE  g = h
    <3>1. CASE g # f /\ h # f
      BY <1>3, <1>5, <2>2, <3>1 DEF OrderInv, ArrivalInv
    <3>2. CASE g = f \/ h = f
      BY <1>1, <1>3, <1>6, <2>2, <3>2
    <3> QED
      BY <3>1, <3>2
  <2> QED
    BY <2>1, <2>2 DEF ArrivalInv
<1>8. AheadInv'
  <2>1. SUFFICES ASSUME NEW g \in Files, NEW h \in Files, IsReached(g)', index'[g] < index'[h],
                        ~IsFollowed(g)
                 PROVE  AheadOf(g, h)'
    BY <1>5 DEF AheadInv
  <2>2. g # f
    BY <1>1, <1>3, <1>6, <2>1
  <2>3. IsReached(g) /\ index[g] = index'[g]
    BY <1>3, <1>5, <2>1, <2>2
  <2>4. PICK k \in 1..Len(queue) : queue[k] = g
    <3>1. class[g] # followed[g]
      BY <2>1, <2>3 DEF IsReached, IsFollowed
    <3> QED
      BY <3>1 DEF ClassInv, QueueInv, Waiting
  <2>5. CASE h = f
    <3>1. ~IsFollowed(h)'
      BY <1>5, <2>5
    <3>2. \A j \in 1..Len(queue) : queue[j] # f
      BY <1>5 DEF ClassInv, QueueInv, Waiting, IsReached
    <3>3. ASSUME NEW j \in 1..Len(queue'), queue'[j] = h
          PROVE  \E i \in 1..j - 1 : queue'[i] = g
      <4>1. j = Len(queue) + 1
        BY <1>1, <1>4, <2>5, <3>2, <3>3
      <4>2. k \in 1..j - 1 /\ queue'[k] = g
        BY <1>1, <1>4, <2>4, <4>1
      <4> QED
        BY <4>2
    <3> QED
      BY <3>1, <3>3 DEF AheadOf
  <2>6. CASE h # f
    <3>1. AheadOf(g, h)
      BY <1>3, <2>1, <2>3, <2>6 DEF OrderInv, AheadInv
    <3>2. ASSUME NEW j \in 1..Len(queue'), queue'[j] = h
          PROVE  \E i \in 1..j - 1 : queue'[i] = g
      <4>1. j \in 1..Len(queue) /\ queue[j] = h
        BY ONLY Len(queue) \in Nat, <1>4, h # f, j \in 1..Len(queue'), queue'[j] = h
      <4>2. PICK i \in 1..j - 1 : queue[i] = g
        BY <3>1, <4>1 DEF AheadOf
      <4>3. queue'[i] = g
        BY ONLY Len(queue) \in Nat, <1>4, <4>1, <4>2, i \in 1..j - 1
      <4> QED
        BY <4>3
    <3> QED
      BY <1>5, <3>1, <3>2 DEF AheadOf
  <2> QED
    BY <2>5, <2>6
<1>9. PredsInv'
  <2>1. ASSUME NEW h \in Files, NEW g \in Files, pred'[g] = h
        PROVE  (IsReached(g) \/ g = f) /\ IsFollowed(h) /\ (InEntry(h) <=> InEntry(g))
    <3>1. CASE g = f
      BY <1>3, <2>1, <3>1, NoFileAssumption
    <3>2. CASE g # f
      BY <1>3, <2>1, <3>2 DEF OrderInv, PredsInv
    <3> QED
      BY <3>1, <3>2
  <2>2. current # NoFile /\ first => \A g \in Files : IsFollowed(g)' => index'[g] <= index'[current]
    <3>1. SUFFICES ASSUME current # NoFile, first, NEW g \in Files, IsFollowed(g)
                   PROVE  index'[g] <= index'[current]
      BY <1>5
    <3>2. current \in Files /\ IsFollowed(current)
      BY <3>1 DEF ClassInv, TypeOK, CurrentInv, IsFollowed
    <3> QED
      BY <1>3, <1>5, <3>1, <3>2 DEF OrderInv, PredsInv
  <2>3. ASSUME NEW g \in Files, NEW h \in Files, IsReached(g)', index'[g] < index'[h],
               InEntry(g) <=> InEntry(h)
        PROVE  PredIndex(g)' <= PredIndex(h)'
    <3>1. g # f
      BY <1>1, <1>3, <1>6, <2>3
    <3>2. IsReached(g) /\ PredIndex(g)' = PredIndex(g)
      BY <1>3, <1>5, <1>6, <2>3, <3>1 DEF PredIndex
    <3>3. PredIndex(g) \in Nat
      BY <1>6 DEF PredIndex
    <3>4. CASE h = f
      <4>1. CASE from = NoFile
        <5>1. pred[g] = NoFile
          BY <2>3, <3>2, <3>4, <4>1
        <5> QED
          BY <1>3, <3>2, <3>4, <4>1, <5>1 DEF PredIndex
      <4>2. CASE from # NoFile
        <5>1. from = current /\ current \in Files /\ current # f
          BY <1>5, <4>2
        <5>2. PredIndex(h)' = index[current]
          BY <1>3, <3>4, <4>2, <5>1 DEF PredIndex
        <5>3. pred[g] # NoFile => index[pred[g]] <= index[current]
          BY <1>6, <4>2, <5>1 DEF OrderInv, PredsInv
        <5> QED
          BY <1>6, <3>2, <5>1, <5>2, <5>3 DEF PredIndex
      <4> QED
        BY <4>1, <4>2
    <3>5. CASE h # f
      <4>1. PredIndex(h)' = PredIndex(h)
        BY <1>3, <1>6, <3>5 DEF PredIndex
      <4>2. PredIndex(g) <= PredIndex(h)
        BY <1>3, <2>3, <3>1, <3>2, <3>5 DEF OrderInv, PredsInv
      <4> QED
        BY <3>2, <4>1, <4>2
    <3> QED
      BY <3>4, <3>5
  <2> QED
    BY <1>5, <2>1, <2>2, <2>3 DEF PredsInv
<1>10. PhaseInv'
  BY <1>3, <1>5 DEF OrderInv, PhaseInv, Early
<1>11. FirstSeedsInv'
  <2>1. \A g : SeedsOf(g)' = SeedsOf(g)
    BY <1>5 DEF SeedsOf, EntrySeeds, GlobSeeds
  <2> QED
    BY <1>3, <1>5, <2>1 DEF OrderInv, FirstSeedsInv
<1> QED
  BY <1>7, <1>8, <1>9, <1>10, <1>11

(* Whatever else is enqueued changes no order.                             *)
LEMMA Later ==
    ASSUME ClassInv, OrderInv, NEW f \in Files, NEW from \in Files \cup {NoFile},
           NEW c \in Reach, EnqueueFile(f, from, c), class[f] # NotReached,
           UNCHANGED <<project, stage, followed, current, first>>
    PROVE  /\ ArrivalInv' /\ AheadInv' /\ PredsInv' /\ PhaseInv' /\ FirstSeedsInv'
           /\ UNCHANGED <<index, pred>>
           /\ \A g \in Files : IsReached(g)' <=> IsReached(g)
<1>1. /\ class \in [Files -> Classes] /\ queue \in Seq(Files) /\ Len(queue) \in Nat
  BY DEF ClassInv, TypeOK
<1>2. /\ UNCHANGED <<size, index, pred>>
      /\ class' = class \/ class' = [class EXCEPT ![f] = c]
      /\ queue' = queue \/ queue' = Append(queue, f)
  BY DEF EnqueueFile
<1>3. /\ \A g \in Files : IsReached(g)' <=> IsReached(g)
      /\ \A g \in Files : IsFollowed(g)' <=> IsFollowed(g)
      /\ \A g : InEntry(g)' <=> InEntry(g)
  BY <1>1, <1>2, ClassRange, InEntryRests DEF IsReached, IsFollowed, NotReached
<1>4. ArrivalInv'
  BY <1>2, <1>3 DEF OrderInv, ArrivalInv
<1>5. AheadInv'
  <2>1. SUFFICES ASSUME NEW g \in Files, NEW h \in Files, IsReached(g), index[g] < index[h],
                        ~IsFollowed(g)
                 PROVE  AheadOf(g, h)'
    BY <1>2, <1>3 DEF AheadInv
  <2>2. AheadOf(g, h)
    BY <2>1 DEF OrderInv, AheadInv
  <2>3. CASE queue' = queue
    BY <1>3, <2>2, <2>3 DEF AheadOf
  <2>4. CASE queue' = Append(queue, f)
    <3>1. PICK k \in 1..Len(queue) : queue[k] = g
      <4>1. class[g] # followed[g]
        BY <2>1 DEF IsReached, IsFollowed
      <4> QED
        BY <4>1 DEF ClassInv, QueueInv, Waiting
    <3>2. /\ Len(queue') = Len(queue) + 1
          /\ \A i \in 1..Len(queue) : queue'[i] = queue[i]
      BY <1>1, <2>4
    <3>3. ASSUME NEW j \in 1..Len(queue'), queue'[j] = h
          PROVE  \E i \in 1..j - 1 : queue'[i] = g
      <4>1. CASE j = Len(queue) + 1
        BY <1>1, <3>1, <3>2, <4>1
      <4>2. CASE j \in 1..Len(queue)
        <5>1. PICK i \in 1..j - 1 : queue[i] = g
          BY <2>2, <3>2, <3>3, <4>2 DEF AheadOf
        <5>2. queue'[i] = g
          BY <1>1, <3>2, <4>2, <5>1
        <5> QED
          BY <5>2
      <4> QED
        BY <1>1, <3>2, <4>1, <4>2
    <3> QED
      BY <1>3, <2>2, <3>3 DEF AheadOf
  <2> QED
    BY <1>2, <2>3, <2>4
<1>6. PredsInv'
  <2>1. \A g : PredIndex(g)' = PredIndex(g)
    BY <1>2 DEF PredIndex
  <2> QED
    BY <1>2, <1>3, <2>1 DEF OrderInv, PredsInv
<1>7. PhaseInv'
  BY <1>2, <1>3 DEF OrderInv, PhaseInv, Early
<1>8. FirstSeedsInv'
  <2>1. \A g : SeedsOf(g)' = SeedsOf(g)
    BY <1>3 DEF SeedsOf, EntrySeeds, GlobSeeds
  <2> QED
    BY <1>2, <1>3, <2>1 DEF OrderInv, FirstSeedsInv
<1> QED
  BY <1>2, <1>3, <1>4, <1>5, <1>6, <1>7, <1>8

-----------------------------------------------------------------------------
(* What has arrived stays where it is, whatever is enqueued.               *)
LEMMA ArrivedStays ==
    ASSUME ClassInv, OrderInv, NEW f \in Files, NEW from \in Files \cup {NoFile},
           NEW c \in Reach, EnqueueFile(f, from, c),
           NEW g \in Files, NEW t \in Files, IsFollowed(g), ArrivedBy(t, g)
    PROVE  ArrivedBy(t, g)'
<1>1. /\ class \in [Files -> Classes] /\ index \in [Files -> Nat] /\ size \in Nat
      /\ pred \in [Files -> Files \cup {NoFile}]
  BY DEF ClassInv, TypeOK
<1>2. IsReached(g) /\ IsReached(t)
  BY FollowedIsReached DEF ArrivedBy
<1>3. IsReached(t)'
  BY <1>1, <1>2, ClassRange DEF EnqueueFile, IsReached, NotReached
<1>4. index'[g] = index[g] /\ pred'[t] = pred[t]
  BY <1>1, <1>2, ClassRange DEF EnqueueFile, IsReached, NotReached
<1>5. pred[t] # NoFile => index'[pred[t]] = index[pred[t]]
  <2>1. pred[t] # NoFile => pred[t] \in Files /\ IsReached(pred[t])
    BY <1>1, FollowedIsReached DEF OrderInv, PredsInv
  <2> QED
    BY <1>1, <2>1, ClassRange DEF EnqueueFile, IsReached, NotReached
<1> QED
  BY <1>3, <1>4, <1>5 DEF ArrivedBy, PredIndex

LEMMA SeedOrder ==
    ASSUME ClassInv, OrderInv, NEW f \in Files, NEW c \in Reach, EnqueueFile(f, NoFile, c),
           UNCHANGED <<project, stage, followed, current, first>>, current = NoFile,
           (Early /\ f \in EntrySeeds) \/ (stage = "framework" /\ f \in GlobSeeds)
    PROVE  OrderInv'
<1>1. /\ Early => InEntry(f)
      /\ stage = "framework" /\ class[f] = NotReached => ~InEntry(f)
  BY InEntryFacts, FollowedIsReached DEF OrderInv, PhaseInv, IsReached, Early
<1>2. class[f] = NotReached =>
         /\ f \in SeedsOf(f)
         /\ \A g \in Files : IsReached(g) /\ (InEntry(g) <=> InEntry(f)) => pred[g] = NoFile
  <2>1. Early => \A g \in Files : pred[g] = NoFile
    BY DEF OrderInv, PhaseInv, PredsInv, ClassInv, TypeOK
  <2> QED
    BY <1>1, <2>1 DEF SeedsOf, OrderInv, PhaseInv
<1>3. ArrivalInv' /\ AheadInv' /\ PredsInv' /\ PhaseInv' /\ FirstSeedsInv'
  <2>1. CASE class[f] = NotReached
    BY <1>1, <1>2, <2>1, Arrival DEF Early
  <2>2. CASE class[f] # NotReached
    BY <2>2, Later
  <2> QED
    BY <2>1, <2>2
<1>4. LinksInv'
  <2>1. SUFFICES ASSUME NEW g \in Files, NEW t \in Files, IsFollowed(g),
                        NEW i \in FollowedSites(project, g), project.sites[g][i].to = t
                 PROVE  ArrivedBy(t, g)'
    BY DEF LinksInv, IsFollowed
  <2>2. ArrivedBy(t, g)
    BY <2>1, NoFileAssumption DEF OrderInv, LinksInv
  <2> QED
    BY <2>1, <2>2, ArrivedStays
<1> QED
  BY <1>3, <1>4 DEF OrderInv

LEMMA SeedsOrder ==
    ASSUME ClassInv, OrderInv, SeedRoot \/ SeedPluginRef \/ SeedFramework
    PROVE  OrderInv'
<1>1. CASE SeedRoot
  <2>1. /\ next \in 1..Len(project.roots) /\ stage = "roots" /\ current = NoFile
        /\ UNCHANGED <<project, stage, followed, current, first>>
        /\ EnqueueFile(project.roots[next].file, NoFile, RootClass(project.roots[next]))
    BY <1>1 DEF SeedRoot, Walking, ClassInv, TypeOK, CurrentInv, IsProject
  <2>2. /\ project.roots[next].file \in Files /\ RootClass(project.roots[next]) \in Reach
        /\ project.roots[next].file \in EntrySeeds
    BY <2>1, SeedClasses DEF ClassInv, TypeOK, EntrySeeds
  <2> QED
    BY <2>1, <2>2, SeedOrder DEF Early
<1>2. CASE SeedPluginRef
  <2>1. /\ next \in 1..Len(project.plugin_refs) /\ stage = "plugin_refs" /\ current = NoFile
        /\ UNCHANGED <<project, stage, followed, current, first>>
        /\ EnqueueFile(project.plugin_refs[next].file, NoFile,
                       PluginRefClass(project.plugin_refs[next]))
    BY <1>2 DEF SeedPluginRef, Walking, ClassInv, TypeOK, CurrentInv, IsProject
  <2>2. /\ project.plugin_refs[next].file \in Files
        /\ PluginRefClass(project.plugin_refs[next]) \in Reach
        /\ project.plugin_refs[next].file \in EntrySeeds
    BY <2>1, SeedClasses DEF ClassInv, TypeOK, EntrySeeds
  <2> QED
    BY <2>1, <2>2, SeedOrder DEF Early
<1>3. CASE SeedFramework
  <2>1. /\ next \in 1..Len(project.framework) /\ stage = "framework" /\ current = NoFile
        /\ UNCHANGED <<project, stage, followed, current, first>>
        /\ EnqueueFile(project.framework[next], NoFile, Certain)
    BY <1>3 DEF SeedFramework, Walking, ClassInv, TypeOK, CurrentInv, IsProject
  <2>2. project.framework[next] \in Files /\ Certain \in Reach
        /\ project.framework[next] \in GlobSeeds
    BY <2>1, SeedClasses DEF ClassInv, TypeOK, GlobSeeds
  <2> QED
    BY <2>1, <2>2, SeedOrder
<1> QED
  BY <1>1, <1>2, <1>3

LEMMA ImportOrder ==
    ASSUME ClassInv, OrderInv, RecordImport
    PROVE  OrderInv'
<1> DEFINE f == TheSite.to
           c == EdgeClass(project, current, followed[current], TheSite)
<1>1. /\ current \in Files /\ next \in FollowedSites(project, current)
      /\ TheSite = project.sites[current][next] /\ project.sites[current][next].to = f
      /\ EnqueueFile(f, current, c)
      /\ next' = next + 1 /\ next \in Nat
      /\ UNCHANGED <<project, stage, followed, current, first>>
  BY DEF RecordImport, AtSite, TheSite, FollowedSites, IsFileSite, ClassInv, TypeOK, IsProject
<1>2. /\ current # NoFile /\ IsFollowed(current) /\ IsReached(current)
      /\ stage \in {"drain", "redrain"} /\ followed[current] = class[current]
  BY <1>1, NoFileAssumption DEF ClassInv, CurrentInv, IsFollowed, IsReached
<1>3. f \in Files /\ c \in Reach
  BY <1>1, <1>2, FollowedReach, SiteTarget, EdgeClassFacts DEF ClassInv, TypeOK, IsFollowed
<1> HIDE DEF f, c
<1>4. Linked(current, f)
  BY ONLY <1>1 DEF Linked
<1>5. ASSUME class[f] = NotReached
      PROVE  /\ first /\ (InEntry(f) <=> InEntry(current)) /\ f \notin SeedsOf(f)
             /\ stage = "drain" => InEntry(f)
  <2>1. first
    <3>1. ~first => IsReached(f)
      BY <1>1, <1>2, <1>3 DEF OrderInv, LinksInv, ArrivedBy
    <3> QED
      BY <1>5, <3>1 DEF IsReached, ClassInv, TypeOK
  <2>2. InEntry(current) => InEntry(f)
    BY <1>1, <1>3, <1>4, InEntryFacts
  <2>3. stage = "drain" => InEntry(current)
    BY <1>1, <1>2 DEF OrderInv, PhaseInv
  <2>4. stage = "redrain" => ~InEntry(f)
    BY <1>3, <1>5, FollowedIsReached DEF OrderInv, PhaseInv, Early, IsReached
  <2>5. f \notin EntrySeeds /\ (stage = "redrain" => f \notin GlobSeeds)
    BY <1>2, <1>3, <1>5, SeedsReached DEF Early, IsReached
  <2> QED
    BY <1>2, <2>1, <2>2, <2>3, <2>4, <2>5 DEF SeedsOf
<1>6. ArrivalInv' /\ AheadInv' /\ PredsInv' /\ PhaseInv' /\ FirstSeedsInv'
  <2>1. CASE class[f] = NotReached
    BY <1>1, <1>2, <1>3, <1>5, <2>1, Arrival DEF Early
  <2>2. CASE class[f] # NotReached
    BY <1>1, <1>3, <2>2, Later
  <2> QED
    BY <2>1, <2>2
<1>7. LinksInv'
  <2>1. SUFFICES ASSUME NEW g \in Files, NEW t \in Files, IsFollowed(g),
                        NEW i \in FollowedSites(project, g), project.sites[g][i].to = t,
                        g = current /\ first => i < next + 1
                 PROVE  ArrivedBy(t, g)'
    BY <1>1 DEF LinksInv, IsFollowed
  <2>3. CASE g = current /\ first => i < next
    <3>1. ArrivedBy(t, g)
      BY <2>1, <2>3 DEF OrderInv, LinksInv
    <3> QED
      BY <1>1, <1>3, <2>1, <3>1, ArrivedStays
  <2>4. CASE g = current /\ first /\ ~(i < next)
    <3>1. i = next /\ t = f
      BY <1>1, <2>1, <2>4 DEF FollowedSites
    <3>2. CASE class[f] # NotReached
      <4>1. pred[f] # NoFile => pred[f] \in Files /\ IsFollowed(pred[f])
        BY <1>3 DEF OrderInv, PredsInv, ClassInv, TypeOK
      <4>2. pred[f] # NoFile => index[pred[f]] <= index[g]
        BY <1>1, <1>2, <2>4, <4>1 DEF OrderInv, PredsInv
      <4>3. 0 <= index[g]
        BY DEF ClassInv, TypeOK
      <4>4. ArrivedBy(t, g)
        BY <3>1, <3>2, <4>2, <4>3 DEF ArrivedBy, PredIndex, IsReached
      <4> QED
        BY <1>1, <1>3, <2>1, <4>4, ArrivedStays
    <3>3. CASE class[f] = NotReached
      <4>1. /\ class' = [class EXCEPT ![f] = c] /\ pred' = [pred EXCEPT ![f] = current]
            /\ index' = [index EXCEPT ![f] = size + 1]
        BY <1>1, <1>3, <3>3, ClassRange DEF EnqueueFile, NotReached
      <4>2. class'[f] = c /\ c # NotReached /\ pred'[f] = current /\ f # current
        BY <1>2, <1>3, <3>3, <4>1, ClassRange DEF ClassInv, TypeOK, IsReached, NotReached
      <4>3. index'[current] \in Nat
        BY <1>1, <4>1, <4>2 DEF ClassInv, TypeOK
      <4> QED
        BY <1>2, <2>4, <3>1, <4>2, <4>3 DEF ArrivedBy, PredIndex, IsReached
    <3> QED
      BY <3>2, <3>3
  <2> QED
    BY <2>3, <2>4
<1> QED
  BY <1>6, <1>7 DEF OrderInv

-----------------------------------------------------------------------------
(* The queue without its head.                                             *)
LEMMA TailKeepsAhead ==
    ASSUME ClassInv, queue # <<>>, queue' = Tail(queue), NEW g \in Files, NEW h \in Files,
           g # Head(queue), AheadOf(g, h), ~IsFollowed(h)'
    PROVE  AheadOf(g, h)'
<1>1. queue \in Seq(Files) /\ Len(queue) \in Nat \ {0}
  BY DEF ClassInv, TypeOK
<1>2. /\ Head(queue) = queue[1] /\ Len(queue') = Len(queue) - 1
      /\ \A i \in 1..Len(queue) - 1 : queue'[i] = queue[i + 1]
  BY <1>1
<1>3. ASSUME NEW j \in 1..Len(queue'), queue'[j] = h
      PROVE  \E i \in 1..j - 1 : queue'[i] = g
  <2>1. j + 1 \in 1..Len(queue) /\ queue[j + 1] = h
    BY <1>1, <1>2, <1>3
  <2>2. PICK i \in 1..j + 1 - 1 : queue[i] = g
    BY <2>1 DEF AheadOf
  <2>3. i # 1
    BY <1>2, <2>2
  <2>4. i - 1 \in 1..j - 1 /\ i - 1 \in 1..Len(queue) - 1 /\ i - 1 + 1 = i
    BY <1>1, <1>2, <2>2, <2>3
  <2> QED
    BY <1>2, <2>2, <2>4
<1> QED
  BY <1>3 DEF AheadOf

(* Steps that neither reach nor follow a file.                             *)
LEMMA OrderRests ==
    ASSUME ClassInv, OrderInv, UNCHANGED <<project, class, followed, size, index, pred>>
    PROVE  /\ ArrivalInv' /\ FirstSeedsInv'
           /\ queue' = queue => AheadInv'
           /\ UNCHANGED <<current, first>> => PredsInv'
           /\ current' = NoFile => PredsInv'
           /\ stage' = stage => PhaseInv'
           /\ \A f, g : ArrivedBy(f, g) => ArrivedBy(f, g)'
<1>1. /\ \A f : InEntry(f)' <=> InEntry(f)
      /\ \A f : IsReached(f)' <=> IsReached(f)
      /\ \A f : IsFollowed(f)' <=> IsFollowed(f)
      /\ \A f : PredIndex(f)' = PredIndex(f)
      /\ \A f : SeedsOf(f)' = SeedsOf(f)
  BY InEntryRests DEF IsReached, IsFollowed, PredIndex, SeedsOf, EntrySeeds, GlobSeeds
<1>2. ArrivalInv' /\ FirstSeedsInv'
  BY <1>1 DEF OrderInv, ArrivalInv, FirstSeedsInv
<1>3. queue' = queue => AheadInv'
  BY <1>1 DEF OrderInv, AheadInv, AheadOf
<1>4. /\ UNCHANGED <<current, first>> => PredsInv'
      /\ current' = NoFile => PredsInv'
  BY <1>1 DEF OrderInv, PredsInv
<1>5. stage' = stage => PhaseInv'
  BY <1>1 DEF OrderInv, PhaseInv, Early
<1> QED
  BY <1>1, <1>2, <1>3, <1>4, <1>5 DEF ArrivedBy

LEMMA SkipOrder == ASSUME ClassInv, OrderInv, Skip PROVE OrderInv'
<1>1. /\ queue # <<>> /\ queue' = Tail(queue) /\ AlreadyFollowed(Head(queue))
      /\ UNCHANGED <<project, stage, next, class, followed, size, index, pred, current, first>>
  BY DEF Skip, Walking
<1>2. AheadInv'
  <2>1. SUFFICES ASSUME NEW g \in Files, NEW h \in Files, IsReached(g), index[g] < index[h],
                        ~IsFollowed(g)
                 PROVE  AheadOf(g, h)'
    BY <1>1 DEF AheadInv, IsReached, IsFollowed
  <2>2. AheadOf(g, h) /\ g # Head(queue)
    BY <1>1, <2>1 DEF OrderInv, AheadInv, AlreadyFollowed, IsFollowed
  <2>3. ~IsFollowed(h)'
    BY <1>1, <2>2 DEF AheadOf, IsFollowed
  <2> QED
    BY <1>1, <2>2, <2>3, TailKeepsAhead
<1>3. LinksInv'
  BY <1>1, OrderRests DEF OrderInv, LinksInv, IsFollowed
<1> QED
  BY <1>1, <1>2, <1>3, OrderRests DEF OrderInv

LEMMA FollowOrder == ASSUME ClassInv, OrderInv, Follow PROVE OrderInv'
<1>1. PICK f \in Files :
      /\ f = Head(queue) /\ IsReached(f)
      /\ queue # <<>> /\ queue' = Tail(queue)
      /\ stage \in {"drain", "redrain"} /\ current = NoFile
      /\ followed' = [followed EXCEPT ![f] = class[f]]
      /\ first' = (followed[f] = NotReached)
      /\ current' = f
      /\ next' = 1
      /\ UNCHANGED <<project, stage, class, size, index, pred>>
  <2>1. Head(queue) \in Files /\ IsReached(Head(queue))
    BY PopEffect DEF Follow, Popping, ClassInv, QueueInv, IsReached
  <2> QED
    BY <2>1 DEF Follow, Popping
<1>2. /\ IsFollowed(f)' /\ \A g \in Files : g # f => (IsFollowed(g)' <=> IsFollowed(g))
      /\ \A g : InEntry(g)' <=> InEntry(g)
      /\ \A g : IsReached(g)' <=> IsReached(g)
      /\ \A g : PredIndex(g)' = PredIndex(g)
      /\ \A g : SeedsOf(g)' = SeedsOf(g)
  BY <1>1, InEntryRests
     DEF IsReached, IsFollowed, PredIndex, SeedsOf, EntrySeeds, GlobSeeds, ClassInv, TypeOK
<1>3. ArrivalInv' /\ FirstSeedsInv'
  BY <1>1, <1>2 DEF OrderInv, ArrivalInv, FirstSeedsInv
<1>4. ASSUME NEW g \in Files, IsReached(g), index[g] < index[f]
      PROVE  IsFollowed(g)
  <2>1. SUFFICES ASSUME ~IsFollowed(g) PROVE FALSE
    OBVIOUS
  <2>2. AheadOf(g, f)
    BY <1>1, <1>4, <2>1 DEF OrderInv, AheadInv
  <2>3. 1 \in 1..Len(queue) /\ queue[1] = f
    BY <1>1 DEF ClassInv, TypeOK
  <2>4. \E i \in 1..1 - 1 : queue[i] = g
    BY <2>2, <2>3 DEF AheadOf
  <2> QED
    BY <2>4
<1>5. AheadInv'
  <2>1. SUFFICES ASSUME NEW g \in Files, NEW h \in Files, IsReached(g), index[g] < index[h],
                        g # f, ~IsFollowed(g)
                 PROVE  AheadOf(g, h)'
    BY <1>1, <1>2 DEF AheadInv
  <2>2. AheadOf(g, h)
    BY <2>1 DEF OrderInv, AheadInv
  <2>3. h # f
    BY <1>4, <2>1
  <2>4. ~IsFollowed(h)'
    BY <1>2, <2>2, <2>3 DEF AheadOf
  <2> QED
    BY <1>1, <2>1, <2>2, <2>4, TailKeepsAhead
<1>6. PredsInv'
  <2>1. \A g, h \in Files :
           pred'[h] = g => IsReached(h)' /\ IsFollowed(g)' /\ (InEntry(g)' <=> InEntry(h)')
    BY <1>1, <1>2 DEF OrderInv, PredsInv
  <2>2. ASSUME first', NEW g \in Files, IsFollowed(g)'
        PROVE  index'[g] <= index'[f]
    <3>1. CASE g = f
      BY <1>1, <3>1 DEF ClassInv, TypeOK
    <3>2. CASE g # f
      <4>1. IsFollowed(g) /\ ~IsFollowed(f)
        BY <1>1, <1>2, <2>2, <3>2 DEF IsFollowed
      <4>2. index[g] \in Nat /\ index[f] \in Nat
        BY <1>1 DEF ClassInv, TypeOK
      <4>3. ~(index[f] < index[g])
        BY <1>1, <4>1 DEF OrderInv, AheadInv, AheadOf
      <4> QED
        BY <1>1, <4>2, <4>3
    <3> QED
      BY <3>1, <3>2
  <2>3. \A g, h \in Files :
           IsReached(g)' /\ index'[g] < index'[h] /\ (InEntry(g)' <=> InEntry(h)')
               => PredIndex(g)' <= PredIndex(h)'
    BY <1>1, <1>2 DEF OrderInv, PredsInv
  <2> QED
    BY <1>1, <2>1, <2>2, <2>3 DEF PredsInv
<1>7. LinksInv'
  <2>1. SUFFICES ASSUME NEW g \in Files, NEW t \in Files, IsFollowed(g)',
                        NEW i \in FollowedSites(project, g), project.sites[g][i].to = t,
                        g = f /\ first' => i < 1
                 PROVE  ArrivedBy(t, g)'
    BY <1>1 DEF LinksInv
  <2>2. IsFollowed(g)
    <3>1. ~(i < 1)
      BY DEF FollowedSites
    <3> QED
      BY <1>1, <1>2, <2>1, <3>1 DEF IsFollowed
  <2>3. ArrivedBy(t, g)
    BY <1>1, <2>1, <2>2, NoFileAssumption DEF OrderInv, LinksInv
  <2> QED
    BY <1>1, <1>2, <2>3 DEF ArrivedBy
<1>8. PhaseInv'
  BY <1>1, <1>2 DEF OrderInv, PhaseInv, Early
<1> QED
  BY <1>3, <1>5, <1>6, <1>7, <1>8 DEF OrderInv

LEMMA UseOrder == ASSUME ClassInv, OrderInv, RecordUse PROVE OrderInv'
<1>1. /\ current \in Files /\ next \in Nat /\ next' = next + 1
      /\ next \notin FollowedSites(project, current)
      /\ UNCHANGED <<project, stage, queue, class, followed, size, index, pred, current, first>>
  BY DEF RecordUse, AtSite, TheSite, FollowedSites, IsFileSite, ClassInv, TypeOK
<1>2. LinksInv'
  <2>1. \A i \in FollowedSites(project, current) : i < next + 1 => i < next
    BY <1>1 DEF FollowedSites
  <2> QED
    BY <1>1, <2>1, OrderRests DEF OrderInv, LinksInv, IsFollowed
<1> QED
  BY <1>1, <1>2, OrderRests DEF OrderInv

LEMMA FileFollowedOrder == ASSUME ClassInv, OrderInv, FileFollowed PROVE OrderInv'
<1>1. /\ current \in Files /\ next > Len(project.sites[current])
      /\ current' = NoFile
      /\ UNCHANGED <<project, stage, next, queue, class, followed, size, index, pred>>
  BY DEF FileFollowed, ClassInv, TypeOK
<1>2. LinksInv'
  <2>1. \A i \in FollowedSites(project, current) : i < next
    BY <1>1 DEF FollowedSites, ClassInv, TypeOK, IsProject
  <2> QED
    BY <1>1, <2>1, OrderRests DEF OrderInv, LinksInv, IsFollowed
<1> QED
  BY <1>1, <1>2, OrderRests DEF OrderInv

LEMMA LoopOrder == ASSUME ClassInv, OrderInv, NextLoop PROVE OrderInv'
<1>1. /\ LoopEnds
      /\ UNCHANGED <<project, queue, class, size, index, pred, followed, current, first>>
  BY DEF NextLoop, Walking
<1>2. current = NoFile
  BY <1>1 DEF LoopEnds, Popping, ClassInv, CurrentInv
<1>3. LinksInv'
  BY <1>1, <1>2, NoFileAssumption, OrderRests DEF OrderInv, LinksInv, IsFollowed
<1>4. PhaseInv'
  <2>1. /\ \A f : InEntry(f)' <=> InEntry(f)
        /\ \A f : IsReached(f)' <=> IsReached(f)
        /\ \A f : IsFollowed(f)' <=> IsFollowed(f)
    BY <1>1, InEntryRests DEF IsReached, IsFollowed
  <2>2. CASE Early
    BY <1>1, <2>1, <2>2 DEF LoopEnds, OrderInv, PhaseInv, Early
  <2>3. CASE stage = "drain"
    <3>1. stage' = "framework" /\ queue = <<>>
      BY <1>1, <2>3 DEF LoopEnds
    <3>2. \A f \in Files : InEntry(f) => IsFollowed(f)
      BY <1>2, <2>3, <3>1, DrainedIsEntry
    <3> QED
      BY <1>1, <2>1, <2>3, <3>1, <3>2 DEF OrderInv, PhaseInv, Early
  <2>4. CASE stage \in {"framework", "redrain", "done"}
    BY <1>1, <2>1, <2>4 DEF LoopEnds, OrderInv, PhaseInv, Early
  <2> QED
    BY <2>2, <2>3, <2>4 DEF ClassInv, TypeOK, Stages, Early
<1> QED
  BY <1>1, <1>3, <1>4, OrderRests DEF OrderInv

LEMMA OrderInvNext == ClassInv /\ OrderInv /\ [Next]_vars => OrderInv'
<1> SUFFICES ASSUME ClassInv, OrderInv, [Next]_vars
             PROVE  OrderInv'
  OBVIOUS
<1>1. CASE UNCHANGED vars
  <2>1. UNCHANGED <<project, class, followed, size, index, pred, queue, current, first, stage, next>>
    BY <1>1 DEF vars
  <2>2. LinksInv'
    BY <2>1, OrderRests DEF OrderInv, LinksInv, IsFollowed
  <2> QED
    BY <2>1, <2>2, OrderRests DEF OrderInv
<1>2. CASE Next
  BY <1>1, <1>2, SeedsOrder, ImportOrder, SkipOrder, FollowOrder, UseOrder,
     FileFollowedOrder, LoopOrder DEF Next, Terminated
<1> QED
  BY <1>1, <1>2

LEMMA OrderInvInit == Init => OrderInv
<1> SUFFICES ASSUME Init PROVE OrderInv
  OBVIOUS
<1>1. /\ \A f \in Files : ~IsReached(f) /\ ~IsFollowed(f) /\ pred[f] = NoFile /\ index[f] = 0
      /\ size = 0 /\ current = NoFile /\ stage = "roots"
  BY DEF Init, IsReached, IsFollowed
<1>2. ArrivalInv /\ AheadInv
  BY <1>1 DEF ArrivalInv, AheadInv
<1>3. PredsInv /\ LinksInv
  BY <1>1, NoFileAssumption DEF PredsInv, LinksInv
<1>4. PhaseInv /\ FirstSeedsInv
  BY <1>1 DEF PhaseInv, FirstSeedsInv, Early
<1> QED
  BY <1>2, <1>3, <1>4 DEF OrderInv

-----------------------------------------------------------------------------
(* What the order of arrival says of a finished walk.                      *)
Arrived ==
    /\ index \in [Files -> Nat] /\ pred \in [Files -> Files \cup {NoFile}]
    /\ \A f \in Files : IsReached(f) <=> index[f] # 0
    /\ \A f, g \in Files : IsReached(f) /\ index[f] = index[g] => f = g
    /\ \A f \in EntrySeeds \cup GlobSeeds : f \in Files /\ IsReached(f)
    /\ \A f \in Files : IsReached(f) => (pred[f] = NoFile <=> f \in SeedsOf(f))

LinksArrived ==
    /\ \A f, g \in Files : IsReached(f) /\ Linked(f, g) => ArrivedBy(g, f)
    /\ \A f, g \in Files :
          pred[g] = f /\ IsReached(g) =>
              /\ IsReached(f) /\ index[f] < index[g] /\ Linked(f, g)
              /\ InEntry(f) <=> InEntry(g)
    /\ \A f, g \in Files :
          IsReached(f) /\ index[f] < index[g] /\ (InEntry(f) <=> InEntry(g))
              => PredIndex(f) <= PredIndex(g)

LEMMA WalkedOut ==
    ASSUME ClassInv, TraceInv, OrderInv, Done
    PROVE  Arrived /\ LinksArrived
<1>1. stage = "done" /\ queue = <<>> /\ current = NoFile
  BY DEF Done, ClassInv, CurrentInv
<1>2. /\ index \in [Files -> Nat] /\ pred \in [Files -> Files \cup {NoFile}]
      /\ IsProject(project)
  BY DEF ClassInv, TypeOK
<1>3. \A f \in Files : IsReached(f) => IsFollowed(f)
  BY <1>1 DEF ClassInv, QueueInv, Waiting, IsReached, IsFollowed
<1>4. \A f \in EntrySeeds \cup GlobSeeds : f \in Files /\ IsReached(f)
  <2>1. \A f \in EntrySeeds \cup GlobSeeds : f \in Files
    BY <1>2, SeedClasses DEF EntrySeeds, GlobSeeds
  <2> QED
    BY <1>1, <2>1, SeedsReached DEF Early
<1>5. Arrived
  BY <1>2, <1>4 DEF OrderInv, ArrivalInv, FirstSeedsInv, Arrived
<1>6. \A f, g \in Files : IsReached(f) /\ Linked(f, g) => ArrivedBy(g, f)
  BY <1>1, <1>3, NoFileAssumption DEF OrderInv, LinksInv, Linked
<1>7. ASSUME NEW f \in Files, NEW g \in Files, pred[g] = f, IsReached(g)
      PROVE  /\ IsReached(f) /\ index[f] < index[g] /\ Linked(f, g)
             /\ InEntry(f) <=> InEntry(g)
  BY <1>7, NoFileAssumption
     DEF TraceInv, TraceEndsAtSeed, IsReached, Linked, OrderInv, PredsInv
<1> QED
  BY <1>5, <1>6, <1>7 DEF OrderInv, PredsInv, LinksArrived

-----------------------------------------------------------------------------
(* The files on the way a trace takes.                                     *)
IsWay(t, n, f) ==
    /\ t \in [1..n -> Files] /\ t[n] = f
    /\ pred[t[1]] = NoFile
    /\ \A i \in 1..n - 1 : pred[t[i + 1]] = t[i]
    /\ \A i \in 1..n : IsReached(t[i]) /\ (InEntry(t[i]) <=> InEntry(f))
    /\ \A i, j \in 1..n : i < j => index[t[i]] < index[t[j]]

LEMMA WayBack ==
    ASSUME Arrived, LinksArrived, NEW f \in Files, IsReached(f)
    PROVE  \E n \in Nat \ {0} : \E t \in [1..n -> Files] : IsWay(t, n, f)
<1> DEFINE Has(g) == \E n \in Nat \ {0} : \E t \in [1..n -> Files] : IsWay(t, n, g)
           bad == {index[g] : g \in {h \in Files : IsReached(h) /\ ~Has(h)}}
<1> HIDE DEF Has
<1>1. SUFFICES ASSUME ~Has(f) PROVE FALSE
  BY DEF Has
<1>2. bad \in SUBSET Nat /\ bad # {}
  BY <1>1 DEF Arrived
<1>3. PICK k \in bad : \A m \in bad : k <= m
  BY <1>2, LeastNatural
<1>4. PICK g \in Files : IsReached(g) /\ ~Has(g) /\ index[g] = k
  BY <1>3
<1>5. CASE pred[g] = NoFile
  <2> DEFINE t == [i \in 1..1 |-> g]
  <2>1. t \in [1..1 -> Files] /\ t[1] = g
    BY <1>4
  <2>2. \A i \in 1..1 : i = 1
    OBVIOUS
  <2>3. 1..1 - 1 = {}
    OBVIOUS
  <2> HIDE DEF t
  <2>4. IsWay(t, 1, g)
    BY <1>4, <1>5, <2>1, <2>2, <2>3 DEF IsWay
  <2>5. \E v \in [1..1 -> Files] : IsWay(v, 1, g)
    BY <2>1, <2>4
  <2>6. 1 \in Nat \ {0}
    OBVIOUS
  <2> QED
    BY <1>4, <2>5, <2>6 DEF Has
<1>6. CASE pred[g] # NoFile
  <2>1. PICK p \in Files : pred[g] = p
    BY <1>6 DEF Arrived
  <2>2. /\ IsReached(p) /\ index[p] < index[g] /\ (InEntry(p) <=> InEntry(g))
        /\ index[p] \in Nat /\ index[g] \in Nat
    BY <1>4, <2>1 DEF LinksArrived, Arrived
  <2>3. Has(p)
    <3>1. ~(k <= index[p])
      BY <1>4, <2>2
    <3> QED
      BY <1>3, <2>2, <3>1
  <2>4. PICK n \in Nat \ {0} : \E t \in [1..n -> Files] : IsWay(t, n, p)
    BY <2>3 DEF Has
  <2>5. PICK t \in [1..n -> Files] : IsWay(t, n, p)
    BY <2>4
  <2> DEFINE u == [i \in 1..n + 1 |-> IF i = n + 1 THEN g ELSE t[i]]
  <2>6. /\ u \in [1..n + 1 -> Files] /\ u[n + 1] = g
        /\ \A i \in 1..n : u[i] = t[i]
    <3>1. \A i \in 1..n + 1 : i # n + 1 => i \in 1..n
      BY <2>4
    <3>2. \A i \in 1..n : i \in 1..n + 1 /\ i # n + 1
      BY <2>4
    <3>3. n + 1 \in 1..n + 1
      BY <2>4
    <3> QED
      BY <1>4, <2>5, <3>1, <3>2, <3>3
  <2> HIDE DEF u
  <2>7. \A i \in 1..n + 1 : i \in 1..n \/ i = n + 1
    BY <2>4
  <2>8. u[1] = t[1]
    BY <2>4, <2>6
  <2>9. \A i \in 1..n + 1 - 1 : pred[u[i + 1]] = u[i]
    <3>1. SUFFICES ASSUME NEW i \in 1..n PROVE pred[u[i + 1]] = u[i]
      BY <2>4
    <3>2. CASE i = n
      BY <2>1, <2>5, <2>6, <3>2 DEF IsWay
    <3>3. CASE i # n
      <4>1. i \in 1..n - 1 /\ i + 1 \in 1..n
        BY <2>4, <3>1, <3>3
      <4> QED
        BY <2>5, <2>6, <4>1 DEF IsWay
    <3> QED
      BY <3>2, <3>3
  <2>10. \A i \in 1..n : index[t[i]] <= index[p]
    <3>1. SUFFICES ASSUME NEW i \in 1..n PROVE index[t[i]] <= index[p]
      OBVIOUS
    <3>2. n \in 1..n /\ (i = n \/ i < n)
      BY <2>4
    <3>3. t[n] = p /\ index[p] \in Nat
      BY <2>2, <2>5 DEF IsWay
    <3>4. i < n => index[t[i]] < index[t[n]]
      BY <2>5, <3>2 DEF IsWay
    <3>5. index[t[i]] \in Nat
      BY <2>5 DEF Arrived
    <3> QED
      BY <3>2, <3>3, <3>4, <3>5
  <2>11. ASSUME NEW i \in 1..n + 1, NEW j \in 1..n + 1, i < j
         PROVE  index[u[i]] < index[u[j]]
    <3>1. i \in 1..n
      BY <2>4, <2>11
    <3>2. CASE j \in 1..n
      BY <2>5, <2>6, <2>11, <3>1, <3>2 DEF IsWay
    <3>3. CASE j = n + 1
      <4>1. index[t[i]] \in Nat
        BY <2>5, <3>1 DEF Arrived
      <4> QED
        BY <2>2, <2>6, <2>10, <3>1, <3>3, <4>1
    <3> QED
      BY <2>7, <3>2, <3>3
  <2>12. \A i \in 1..n + 1 : IsReached(u[i]) /\ (InEntry(u[i]) <=> InEntry(g))
    BY <1>4, <2>2, <2>5, <2>6, <2>7 DEF IsWay
  <2>13. IsWay(u, n + 1, g)
    BY <2>5, <2>6, <2>8, <2>9, <2>11, <2>12 DEF IsWay
  <2>14. n + 1 \in Nat \ {0}
    BY <2>4
  <2> QED
    BY <1>4, <2>6, <2>13, <2>14 DEF Has
<1> QED
  BY <1>5, <1>6

(* It meets no file twice, so it is one of the chains, and it starts at a  *)
(* seed of the file's own kind.                                            *)
LEMMA WayIsTrace ==
    ASSUME Arrived, LinksArrived, NEW f \in Files, NEW n \in Nat \ {0},
           NEW t \in [1..n -> Files], IsWay(t, n, f)
    PROVE  Len(t) = n /\ IsTrace(t) /\ t \in LeadsTo(SeedsOf(f), f)
<1>1. Len(t) = n /\ 1 \in 1..n
  OBVIOUS
<1>2. IsTrace(t)
  BY <1>1 DEF IsWay, IsTrace
<1>3. n <= Cardinality(Files) /\ Cardinality(Files) \in Nat
  <2>1. ASSUME NEW i \in 1..n, NEW j \in 1..n, t[i] = t[j]
        PROVE  i = j
    <3>1. index[t[i]] \in Nat /\ index[t[j]] = index[t[i]]
      BY <2>1 DEF Arrived
    <3>2. ~(i < j) /\ ~(j < i)
      BY <3>1 DEF IsWay
    <3> QED
      BY <3>2
  <2>2. t \in Injection(1..n, Files)
    BY <2>1 DEF Injection, IsInjective
  <2>3. Cardinality(1..n) = n
    BY FS_Interval
  <2> QED
    BY <2>2, <2>3, FilesAssumption, FS_Injection, FS_CardinalityType
<1>4. t \in Chains
  BY <1>3 DEF Chains
<1>5. t[1] \in SeedsOf(f)
  BY <1>1 DEF IsWay, Arrived, SeedsOf
<1>6. ASSUME NEW i \in 1..n - 1
      PROVE  Linked(t[i], t[i + 1])
  <2>1. i \in 1..n /\ i + 1 \in 1..n
    OBVIOUS
  <2> QED
    BY <2>1 DEF IsWay, LinksArrived
<1> QED
  BY <1>1, <1>2, <1>4, <1>5, <1>6 DEF LeadsTo, IsWay

-----------------------------------------------------------------------------
(* What is closed under import sites holds the rest of a chain.            *)
LEMMA ChainStaysIn ==
    ASSUME NEW S, \A g \in S, h \in Files : Linked(g, h) => h \in S,
           NEW m \in Nat, NEW s \in [1..m -> Files],
           \A i \in 1..m - 1 : Linked(s[i], s[i + 1]),
           NEW k \in 1..m, s[k] \in S
    PROVE  \A j \in k..m : s[j] \in S
<1> DEFINE bad == {j \in k..m : s[j] \notin S}
<1>1. SUFFICES ASSUME bad # {} PROVE FALSE
  OBVIOUS
<1>2. bad \in SUBSET Nat
  OBVIOUS
<1>3. PICK j \in bad : \A i \in bad : j <= i
  BY <1>1, <1>2, LeastNatural
<1>4. j \in k..m /\ s[j] \notin S /\ j # k
  BY <1>3
<1>5. j - 1 \in k..m /\ j - 1 \in 1..m - 1 /\ j - 1 + 1 = j /\ ~(j <= j - 1) /\ j \in 1..m
  BY <1>4
<1>6. j - 1 \notin bad
  BY <1>3, <1>5
<1>7. s[j - 1] \in S /\ Linked(s[j - 1], s[j])
  BY <1>5, <1>6
<1>8. s[j] \in Files
  BY <1>5
<1> HIDE DEF bad
<1> QED
  BY <1>4, <1>7, <1>8

LEMMA ChainFacts ==
    ASSUME NEW seeds, NEW f, NEW s \in LeadsTo(seeds, f)
    PROVE  /\ Len(s) \in Nat \ {0} /\ s \in [1..Len(s) -> Files]
           /\ s[1] \in seeds /\ s[Len(s)] = f
           /\ \A i \in 1..Len(s) - 1 : Linked(s[i], s[i + 1])
<1>1. s \in Chains
  BY DEF LeadsTo
<1>2. PICK m \in 1..Cardinality(Files) : s \in [1..m -> Files]
  BY <1>1 DEF Chains
<1>3. m \in Nat \ {0}
  BY FilesAssumption, FS_CardinalityType
<1>4. Len(s) = m
  BY <1>2, <1>3
<1> QED
  BY <1>2, <1>3, <1>4 DEF LeadsTo

(* What a chain from a file's seeds passes through has been reached, and   *)
(* is of the file's own kind.                                              *)
LEMMA ChainArrived ==
    ASSUME Arrived, LinksArrived, NEW f \in Files, NEW s \in LeadsTo(SeedsOf(f), f)
    PROVE  \A i \in 1..Len(s) : IsReached(s[i]) /\ (InEntry(s[i]) <=> InEntry(f))
<1> DEFINE m == Len(s)
           R == {g \in Files : IsReached(g)}
           E == {g \in Files : InEntry(g)}
<1>1. /\ m \in Nat \ {0} /\ s \in [1..m -> Files] /\ s[1] \in SeedsOf(f) /\ s[m] = f
      /\ \A i \in 1..m - 1 : Linked(s[i], s[i + 1])
  BY ChainFacts
<1> HIDE DEF m
<1>2. 1 \in 1..m /\ m \in Nat /\ \A i \in 1..m : i \in 1..m /\ m \in i..m
  BY <1>1
<1>3. \A g \in R, h \in Files : Linked(g, h) => h \in R
  BY DEF LinksArrived, ArrivedBy
<1>4. \A g \in E, h \in Files : Linked(g, h) => h \in E
  BY InEntryFacts
<1>5. s[1] \in R
  BY <1>1 DEF Arrived, SeedsOf
<1> HIDE DEF R, E
<1>6. \A i \in 1..m : s[i] \in R
  BY <1>1, <1>2, <1>3, <1>5, ChainStaysIn
<1>7. ASSUME NEW i \in 1..m, s[i] \in E
      PROVE  f \in E
  BY <1>1, <1>2, <1>4, <1>7, ChainStaysIn
<1>8. ASSUME InEntry(f)
      PROVE  \A i \in 1..m : s[i] \in E
  <2>1. s[1] \in E
    BY <1>1, <1>2, <1>8, InEntryFacts DEF SeedsOf, E
  <2> QED
    BY <1>1, <1>2, <1>4, <2>1, ChainStaysIn
<1> QED
  BY <1>1, <1>6, <1>7, <1>8 DEF m, R, E

(* No chain is shorter: going back from the file, each predecessor arrived *)
(* no later than the file of the chain that is as far away.                *)
LEMMA WayIsShortest ==
    ASSUME Arrived, LinksArrived, NEW f \in Files, NEW n \in Nat \ {0},
           NEW t \in [1..n -> Files], IsWay(t, n, f), NEW s \in LeadsTo(SeedsOf(f), f)
    PROVE  n <= Len(s)
<1> DEFINE m == Len(s)
           Behind(k) == index[t[n - k]] <= index[s[m - k]]
           bad == {k \in Nat : k < n /\ k < m /\ ~Behind(k)}
<1>1. /\ m \in Nat \ {0} /\ s \in [1..m -> Files] /\ s[1] \in SeedsOf(f) /\ s[m] = f
      /\ \A i \in 1..m - 1 : Linked(s[i], s[i + 1])
  BY ChainFacts
<1>2. \A i \in 1..m : IsReached(s[i]) /\ (InEntry(s[i]) <=> InEntry(f))
  BY ChainArrived
<1> HIDE DEF m
<1>3. ASSUME NEW g \in Files, NEW h \in Files, IsReached(g), IsReached(h),
             InEntry(g) <=> InEntry(h), index[g] <= index[h]
      PROVE  PredIndex(g) <= PredIndex(h)
  <2>1. index[g] \in Nat /\ index[h] \in Nat
    BY DEF Arrived
  <2>2. CASE index[g] = index[h]
    <3>1. g = h
      BY <1>3, <2>2 DEF Arrived
    <3>2. PredIndex(g) \in Nat
      BY DEF Arrived, PredIndex
    <3> QED
      BY <3>1, <3>2
  <2>3. CASE index[g] < index[h]
    BY <1>3, <2>3 DEF LinksArrived
  <2> QED
    BY <1>3, <2>1, <2>2, <2>3
<1>4. ASSUME NEW k \in Nat, k + 1 < n, k + 1 < m, Behind(k)
      PROVE  Behind(k + 1)
  <2>1. PICK g \in Files : g = t[n - k]
    BY <1>4
  <2>2. PICK h \in Files : h = s[m - k]
    BY <1>1, <1>4
  <2>3. PICK p \in Files : p = t[n - (k + 1)]
    BY <1>4
  <2>4. PICK q \in Files : q = s[m - (k + 1)]
    BY <1>1, <1>4
  <2>5. /\ n - k \in 1..n /\ m - k \in 1..m /\ m - (k + 1) \in 1..m
        /\ n - (k + 1) \in 1..n - 1 /\ n - (k + 1) + 1 = n - k
        /\ m - (k + 1) \in 1..m - 1 /\ m - (k + 1) + 1 = m - k
    BY <1>1, <1>4
  <2>6. pred[g] = p
    BY <2>1, <2>3, <2>5 DEF IsWay
  <2>7. Linked(q, h) /\ IsReached(q)
    BY <1>1, <1>2, <2>2, <2>4, <2>5
  <2>8. PredIndex(g) <= PredIndex(h)
    <3>1. IsReached(g) /\ IsReached(h) /\ (InEntry(g) <=> InEntry(h))
      BY <1>2, <2>1, <2>2, <2>5 DEF IsWay
    <3>2. index[g] <= index[h]
      BY <1>4, <2>1, <2>2
    <3> QED
      BY <1>3, <3>1, <3>2
  <2>9. PredIndex(h) <= index[q]
    BY <2>7 DEF LinksArrived, ArrivedBy
  <2>10. PredIndex(g) = index[p]
    BY <2>6, NoFileAssumption DEF PredIndex
  <2>11. index[p] \in Nat /\ index[q] \in Nat /\ PredIndex(h) \in Nat
    BY DEF Arrived, PredIndex
  <2> QED
    BY <2>3, <2>4, <2>8, <2>9, <2>10, <2>11
<1>5. Behind(0)
  <2>1. n - 0 = n /\ m - 0 = m /\ index[f] \in Nat
    BY <1>1 DEF Arrived
  <2> QED
    BY <1>1, <2>1 DEF IsWay
<1>6. \A k \in Nat : k < n /\ k < m => Behind(k)
  <2> HIDE DEF Behind
  <2>1. SUFFICES ASSUME bad # {} PROVE FALSE
    OBVIOUS
  <2>2. bad \in SUBSET Nat
    OBVIOUS
  <2>3. PICK k \in bad : \A j \in bad : k <= j
    BY <2>1, <2>2, LeastNatural
  <2>4. k \in Nat /\ k < n /\ k < m /\ ~Behind(k) /\ k # 0
    BY <1>5
  <2>5. k - 1 \in Nat /\ k - 1 + 1 = k /\ k - 1 < n /\ k - 1 < m /\ ~(k <= k - 1)
    BY <1>1, <2>4
  <2>6. Behind(k - 1)
    BY <2>3, <2>5
  <2> HIDE DEF bad
  <2>7. Behind(k - 1 + 1)
    BY <1>4, <2>4, <2>5, <2>6
  <2> QED
    BY <2>4, <2>5, <2>7
<1>7. SUFFICES ASSUME m < n PROVE FALSE
  BY <1>1 DEF m
<1>8. /\ m - 1 \in Nat /\ m - 1 < n /\ m - 1 < m /\ m - (m - 1) = 1
      /\ n - (m - 1) \in 1..n /\ n - m \in 1..n - 1 /\ n - m + 1 = n - (m - 1) /\ n - m \in 1..n
      /\ 1 \in 1..m
  BY <1>1, <1>7
<1>9. PICK g \in Files : g = t[n - (m - 1)]
  BY <1>8
<1>10. PICK p \in Files : p = t[n - m]
  BY <1>8
<1>11. PICK h \in Files : h = s[1]
  BY <1>1, <1>8
<1>12. index[g] <= index[h]
  BY <1>6, <1>8, <1>9, <1>11
<1>13. IsReached(g) /\ IsReached(h) /\ (InEntry(g) <=> InEntry(h)) /\ IsReached(p)
  BY <1>2, <1>8, <1>9, <1>10, <1>11 DEF IsWay
<1>14. pred[h] = NoFile
  BY <1>1, <1>2, <1>8, <1>11 DEF Arrived, SeedsOf
<1>15. PredIndex(g) <= 0
  BY <1>3, <1>12, <1>13, <1>14 DEF PredIndex
<1>16. pred[g] = p
  BY <1>8, <1>9, <1>10 DEF IsWay
<1>17. index[p] \in Nat \ {0}
  BY <1>13 DEF Arrived
<1> QED
  BY <1>15, <1>16, <1>17, NoFileAssumption DEF PredIndex

LEMMA WalkedIsShortest ==
    ASSUME ClassInv, TraceInv, OrderInv
    PROVE  TraceShortest
<1> SUFFICES ASSUME Done, NEW f \in Files, IsReached(f)
             PROVE  LET entry == LeadsTo(EntrySeeds, f)
                        chains == IF entry # {} THEN entry ELSE LeadsTo(GlobSeeds, f)
                    IN  \E t \in chains : IsTrace(t) /\ \A s \in chains : Len(t) <= Len(s)
  BY DEF TraceShortest, IsReached
<1> DEFINE entry == LeadsTo(EntrySeeds, f)
           chains == IF entry # {} THEN entry ELSE LeadsTo(GlobSeeds, f)
<1>1. Arrived /\ LinksArrived
  BY WalkedOut
<1>2. PICK n \in Nat \ {0} : \E t \in [1..n -> Files] : IsWay(t, n, f)
  BY <1>1, WayBack
<1>3. PICK t \in [1..n -> Files] : IsWay(t, n, f)
  BY <1>2
<1>4. Len(t) = n /\ IsTrace(t) /\ t \in LeadsTo(SeedsOf(f), f)
  BY <1>1, <1>2, <1>3, WayIsTrace
<1>5. \A s \in LeadsTo(SeedsOf(f), f) : Len(t) <= Len(s)
  BY <1>1, <1>2, <1>3, <1>4, WayIsShortest
<1>6. ASSUME NEW s \in LeadsTo(EntrySeeds, f)
      PROVE  InEntry(f)
  <2> DEFINE m == Len(s)
             E == {g \in Files : InEntry(g)}
  <2>1. /\ m \in Nat \ {0} /\ s \in [1..m -> Files] /\ s[1] \in EntrySeeds /\ s[m] = f
        /\ \A i \in 1..m - 1 : Linked(s[i], s[i + 1])
    BY ChainFacts
  <2> HIDE DEF m
  <2>2. 1 \in 1..m /\ m \in Nat /\ m \in 1..m
    BY <2>1
  <2>3. s[1] \in E /\ \A g \in E, h \in Files : Linked(g, h) => h \in E
    BY <2>1, <2>2, InEntryFacts
  <2> HIDE DEF E
  <2>4. s[m] \in E
    BY <2>1, <2>2, <2>3, ChainStaysIn
  <2> QED
    BY <2>1, <2>4 DEF E
<1>7. chains = LeadsTo(SeedsOf(f), f)
  BY <1>4, <1>6 DEF SeedsOf
<1> HIDE DEF chains, entry
<1>8. \E u \in chains : IsTrace(u) /\ \A s \in chains : Len(u) <= Len(s)
  BY <1>4, <1>5, <1>7
<1> QED
  BY <1>8 DEF chains, entry

(* Each trace is a shortest chain: predecessors are kept from the first    *)
(* arrival, and files are first followed in the order they arrived in, for *)
(* all that a file is followed again when its class rises.                 *)
THEOREM TracesShortest == Spec \/ AnalysisSpec => []TraceShortest
<1>1. Walks => []OrderInv
  BY OrderInvInit, OrderInvNext, ClassInvariant, PTL DEF Walks
<1>2. Walks => []TraceInv
  <2>1. Init => TraceInv
    BY DEF Init, TraceInv, TraceEndsAtSeed
  <2> QED
    BY <2>1, TraceInvNext, ClassInvariant, PTL DEF Walks
<1> QED
  BY <1>1, <1>2, ClassInvariant, WalkedIsShortest, EveryWalk, PTL

-----------------------------------------------------------------------------
Climbing == walk \in {"up", "down"}

(* What carries the name on from m has been looked at: it is the goal, and *)
(* the name arrives, or it is climbed to if it hands the name on.          *)
Followed(m) ==
  \A p \in Files : Carries(m, p, symbol) =>
    /\ p = goal => arrives
    /\ p # goal /\ HandsOn(p, symbol) => p \in climbed

ClimbInv ==
  Climbing =>
    /\ \A b \in Binders(symbol) : HandsOn(b, symbol) => b \in climbed
    /\ \A m \in climbed : HandsOn(m, symbol)
    /\ \A m \in climbed : Followed(m) \/ (walk = "up" /\ m \in open)

DownInv ==
  walk = "down" =>
    /\ open \subseteq expanded
    /\ expanded = {goal} \cup carried
    /\ carried \subseteq climbed
    /\ \A p \in expanded \ open, m \in climbed : Carries(m, p, symbol) => m \in carried
    /\ \A m \in carried : Gets(goal, m, symbol)

UpInv == walk = "up" => open \subseteq climbed /\ carried = {} /\ answer = {}

Inv == StarTypeOK /\ ClimbInv /\ UpInv /\ DownInv /\ SourcesExact

-----------------------------------------------------------------------------
(* One more star import below a chain that reaches g.                      *)
LEMMA OneStepDown ==
  ASSUME NEW g \in Files, NEW m \in Files, NEW p \in Files, NEW name,
         Carries(m, p, name), p = g \/ Gets(g, p, name)
  PROVE  Gets(g, m, name)
<1>1. SUFFICES ASSUME NEW S \in SUBSET Files,
                      \A q \in Files : Carries(m, q, name) => q \in S,
                      ClosedUnder(S, name)
               PROVE  g \in S
  BY DEF Gets
<1>2. p \in S
  BY <1>1
<1>3. CASE p = g
  BY <1>2, <1>3
<1>4. CASE Gets(g, p, name)
  <2>1. \A q \in Files : Carries(p, q, name) => q \in S
    BY <1>1, <1>2 DEF ClosedUnder
  <2> QED
    BY <2>1, <1>1, <1>4 DEF Gets
<1> QED
  BY <1>3, <1>4

(* A module nothing is carried from reaches no module.                     *)
LEMMA StuckGetsNowhere ==
  ASSUME NEW g \in Files, NEW m \in Files, NEW name, Gets(g, m, name)
  PROVE  HandsOn(m, name) /\ Targets(g) # {}
<1>1. ASSUME ~HandsOn(m, name) PROVE FALSE
  <2>1. \A p \in Files : ~Carries(m, p, name)
    BY <1>1 DEF Carries
  <2>2. ClosedUnder({}, name)
    BY DEF ClosedUnder
  <2> QED
    BY <2>1, <2>2 DEF Gets
<1>2. ASSUME Targets(g) = {} PROVE FALSE
  <2>1. \A q \in Files : ~Carries(q, g, name)
    BY <1>2 DEF Carries
  <2>2. ClosedUnder(Files \ {g}, name)
    BY <2>1 DEF ClosedUnder
  <2> QED
    BY <2>1, <2>2 DEF Gets
<1> QED
  BY <1>1, <1>2

-----------------------------------------------------------------------------
(* What the walk up leaves out: a name that does not arrive reaches the    *)
(* goal from no binder.                                                    *)
LEMMA NothingArrives ==
  ASSUME Inv, walk = "up", open = {}, ~arrives
  PROVE  {b \in Binders(symbol) : Gets(goal, b, symbol)} = {}
<1>1. SUFFICES ASSUME NEW b \in Binders(symbol), Gets(goal, b, symbol) PROVE FALSE
  OBVIOUS
<1>. DEFINE S == {m \in Files : m # goal /\ (HandsOn(m, symbol) => m \in climbed)}
<1>2. b \in Files /\ goal \in Files /\ climbed \subseteq Files
  BY DEF Inv, StarTypeOK, Binders, Parsed
<1>3. b \in climbed
  BY <1>1, <1>2, StuckGetsNowhere DEF Inv, ClimbInv, Climbing
<1>4. \A m \in climbed, p \in Files : Carries(m, p, symbol) => p \in S
  BY DEF Inv, ClimbInv, Climbing, Followed
<1>5. ClosedUnder(S, symbol)
  BY <1>4 DEF ClosedUnder, Carries
<1>6. goal \in S
  BY <1>1, <1>2, <1>3, <1>4, <1>5 DEF Gets
<1> QED
  BY <1>6

(* The walk down misses none: were a binder not carried, the climbed       *)
(* modules that are not carried would be closed and without the goal.      *)
LEMMA AllCarried ==
  ASSUME Inv, walk = "down", open = {}
  PROVE  Binders(symbol) \cap carried = {b \in Binders(symbol) : Gets(goal, b, symbol)}
<1>1. SUFFICES ASSUME NEW b \in Binders(symbol), Gets(goal, b, symbol), b \notin carried
               PROVE  FALSE
  BY DEF Inv, DownInv
<1>. DEFINE S == {m \in Files : /\ m # goal /\ m \notin carried
                                /\ HandsOn(m, symbol) => m \in climbed}
<1>2. b \in Files /\ goal \in Files /\ climbed \subseteq Files
  BY DEF Inv, StarTypeOK, Binders, Parsed
<1>3. b \in climbed
  BY <1>1, <1>2, StuckGetsNowhere DEF Inv, ClimbInv, Climbing
<1>4. ASSUME NEW m \in climbed, m \notin carried, NEW p \in Files, Carries(m, p, symbol)
      PROVE  p \in S
  <2>1. p # goal /\ p \notin carried
    BY <1>4 DEF Inv, DownInv
  <2>2. HandsOn(p, symbol) => p \in climbed
    BY <1>4, <2>1 DEF Inv, ClimbInv, Climbing, Followed
  <2> QED
    BY <2>1, <2>2
<1>5. ClosedUnder(S, symbol)
  BY <1>4 DEF ClosedUnder, Carries
<1>6. goal \in S
  BY <1>1, <1>2, <1>3, <1>4, <1>5 DEF Gets
<1> QED
  BY <1>6

-----------------------------------------------------------------------------
(* Nothing the walks ask of the code changes while they run.               *)
LEMMA CodeStays ==
  ASSUME code' = code, read' = read
  PROVE  /\ \A m, name : HandsOn(m, name)' <=> HandsOn(m, name)
         /\ \A m, p, name : Carries(m, p, name)' <=> Carries(m, p, name)
         /\ \A name : Binders(name)' = Binders(name)
         /\ \A g, m, name : Gets(g, m, name)' <=> Gets(g, m, name)
         /\ \A m : Targets(m)' = Targets(m)
<1>1. \A m : Targets(m)' = Targets(m)
  BY DEF Targets, Parsed
<1>2. \A m, name : HandsOn(m, name)' <=> HandsOn(m, name)
  BY DEF HandsOn, Parsed
<1>3. \A m, p, name : Carries(m, p, name)' <=> Carries(m, p, name)
  BY <1>1, <1>2 DEF Carries, Shadows
<1>4. \A name : Binders(name)' = Binders(name)
  BY <1>1 DEF Binders, Parents, Parsed
<1>5. \A g, m, name : Gets(g, m, name)' <=> Gets(g, m, name)
  BY <1>3 DEF Gets, ClosedUnder
<1> QED
  BY <1>1, <1>2, <1>3, <1>4, <1>5

LEMMA TargetsAreFiles ==
  ASSUME StarTypeOK, NEW m
  PROVE  Targets(m) \subseteq Files /\ Parents(m) \subseteq Files /\ Parsed \subseteq Files
  BY DEF StarTypeOK, IsCode, Targets, Parents, Parsed

LEMMA InitInv == StarInit => Inv
<1>1. SUFFICES ASSUME StarInit PROVE Inv
  OBVIOUS
<1>2. StarTypeOK
  BY <1>1, CodesAssumption DEF StarInit, AskedNothing, StarTypeOK
<1> QED
  BY <1>1, <1>2 DEF StarInit, AskedNothing, Inv, ClimbInv, Climbing, UpInv, DownInv, SourcesExact

LEMMA AskInv ==
  ASSUME Inv, NEW target \in Files, NEW name \in Names, Ask(target, name)
  PROVE  Inv'
<1>1. code' = code /\ read' = read
  BY DEF Ask
<1>2. StarTypeOK'
  BY DEF Inv, StarTypeOK, Ask, Binders, Parsed
<1>3. /\ \A m : HandsOn(m, name)' <=> HandsOn(m, name)
      /\ Binders(name)' = Binders(name)
      /\ \A m : Gets(target, m, name)' <=> Gets(target, m, name)
      /\ Targets(target)' = Targets(target)
  BY <1>1, CodeStays
<1>4. ClimbInv' /\ UpInv' /\ DownInv'
  BY <1>3 DEF Ask, ClimbInv, Climbing, UpInv, DownInv
<1>5. SourcesExact'
  <2>1. SUFFICES ASSUME walk' = "answered"
                 PROVE  {b \in Binders(name) : Gets(target, b, name)} = {}
    BY <1>3 DEF Ask, SourcesExact
  <2>2. Targets(target) = {}
    BY <2>1 DEF Ask
  <2>3. \A b \in Binders(name) : b \in Files
    BY TargetsAreFiles DEF Inv, Binders
  <2> QED
    BY <2>2, <2>3, StuckGetsNowhere
<1> QED
  BY <1>2, <1>4, <1>5 DEF Inv

LEMMA ClimbUpInv == ASSUME Inv, ClimbUp PROVE Inv'
<1>1. code' = code /\ read' = read /\ goal' = goal /\ symbol' = symbol /\ walk' = walk
      /\ walk = "up"
  BY DEF ClimbUp
<1>2. /\ \A m : HandsOn(m, symbol)' <=> HandsOn(m, symbol)
      /\ \A m, p : Carries(m, p, symbol)' <=> Carries(m, p, symbol)
      /\ Binders(symbol)' = Binders(symbol)
  BY <1>1, CodeStays
<1>. DEFINE Above(m) == {p \in Parents(m) : ~Shadows(p, symbol)}
            New(m) == {p \in Above(m) \ {goal} : HandsOn(p, symbol)} \ climbed
<1>3. PICK m \in open : /\ arrives' = (arrives \/ goal \in Above(m))
                        /\ climbed' = climbed \cup New(m)
                        /\ open' = (open \ {m}) \cup New(m)
  BY DEF ClimbUp
<1>4. Parents(m) \subseteq Files
  BY TargetsAreFiles DEF Inv
<1>5. StarTypeOK'
  BY <1>1, <1>3, <1>4 DEF Inv, StarTypeOK, ClimbUp
<1>6. open \subseteq climbed
  BY <1>1 DEF Inv, UpInv
<1>7. UpInv'
  BY <1>1, <1>3, <1>6 DEF Inv, UpInv, ClimbUp
<1>8. ClimbInv'
  <2>1. \A b \in Binders(symbol) : HandsOn(b, symbol) => b \in climbed'
    BY <1>1, <1>3 DEF Inv, ClimbInv, Climbing
  <2>2. \A x \in climbed' : HandsOn(x, symbol)
    BY <1>1, <1>3 DEF Inv, ClimbInv, Climbing
  <2>3. ASSUME NEW x \in climbed', x \notin open', NEW p \in Files, Carries(x, p, symbol)
        PROVE  (p = goal => arrives') /\ (p # goal /\ HandsOn(p, symbol) => p \in climbed')
    <3>1. CASE x = m
      <4>1. p \in Above(m)
        BY <2>3, <3>1 DEF Carries, Parents
      <4> QED
        BY <4>1, <1>3
    <3>2. CASE x # m
      <4>1. x \in climbed /\ x \notin open
        BY <1>3, <2>3, <3>2
      <4>2. Followed(x)
        BY <4>1, <1>1 DEF Inv, ClimbInv, Climbing
      <4> QED
        BY <4>2, <2>3, <1>3 DEF Followed
    <3> QED
      BY <3>1, <3>2
  <2> QED
    BY <1>1, <1>2, <2>1, <2>2, <2>3 DEF ClimbInv, Climbing, Followed
<1>9. DownInv' /\ SourcesExact'
  BY <1>1 DEF DownInv, SourcesExact
<1> QED
  BY <1>5, <1>7, <1>8, <1>9 DEF Inv

LEMMA TurnInv == ASSUME Inv, Turn PROVE Inv'
<1>1. /\ code' = code /\ read' = read /\ goal' = goal /\ symbol' = symbol
      /\ climbed' = climbed /\ arrives' = arrives /\ carried' = carried /\ answer' = answer
      /\ walk = "up" /\ open = {}
  BY DEF Turn
<1>2. /\ \A m : HandsOn(m, symbol)' <=> HandsOn(m, symbol)
      /\ \A m, p : Carries(m, p, symbol)' <=> Carries(m, p, symbol)
      /\ Binders(symbol)' = Binders(symbol)
      /\ \A m : Gets(goal, m, symbol)' <=> Gets(goal, m, symbol)
  BY <1>1, CodeStays
<1>3. carried = {} /\ answer = {}
  BY <1>1 DEF Inv, UpInv
<1>4. StarTypeOK'
  BY <1>1 DEF Inv, StarTypeOK, Turn
<1>5. ClimbInv' /\ UpInv'
  BY <1>1, <1>2 DEF Inv, ClimbInv, Climbing, Followed, UpInv, Turn
<1>6. DownInv'
  BY <1>1, <1>3 DEF DownInv, Turn
<1>7. SourcesExact'
  BY <1>1, <1>2, <1>3, NothingArrives DEF SourcesExact, Turn
<1> QED
  BY <1>4, <1>5, <1>6, <1>7 DEF Inv

LEMMA ClimbDownInv == ASSUME Inv, ClimbDown PROVE Inv'
<1>1. /\ code' = code /\ read' = read /\ goal' = goal /\ symbol' = symbol
      /\ walk' = walk /\ climbed' = climbed /\ arrives' = arrives /\ answer' = answer
      /\ walk = "down"
  BY DEF ClimbDown
<1>2. /\ \A m : HandsOn(m, symbol)' <=> HandsOn(m, symbol)
      /\ \A m, p : Carries(m, p, symbol)' <=> Carries(m, p, symbol)
      /\ Binders(symbol)' = Binders(symbol)
      /\ \A m : Gets(goal, m, symbol)' <=> Gets(goal, m, symbol)
  BY <1>1, CodeStays
<1>. DEFINE Below(m) == IF Shadows(m, symbol) THEN {} ELSE Targets(m) \cap climbed
<1>3. PICK m \in open : /\ carried' = carried \cup Below(m)
                        /\ expanded' = expanded \cup Below(m)
                        /\ open' = (open \ {m}) \cup (Below(m) \ expanded)
  BY DEF ClimbDown
<1>4. StarTypeOK'
  BY <1>1, <1>3 DEF Inv, StarTypeOK
<1>5. ClimbInv' /\ UpInv' /\ SourcesExact'
  BY <1>1, <1>2 DEF Inv, ClimbInv, Climbing, Followed, UpInv, SourcesExact
<1>6. DownInv'
  <2>1. /\ open' \subseteq expanded' /\ expanded' = {goal} \cup carried'
        /\ carried' \subseteq climbed
    BY <1>1, <1>3 DEF Inv, DownInv
  <2>2. ASSUME NEW p \in expanded' \ open', NEW x \in climbed, Carries(x, p, symbol)
        PROVE  x \in carried'
    <3>1. CASE p = m
      BY <3>1, <2>2, <1>3 DEF Carries
    <3>2. CASE p # m
      BY <3>2, <2>2, <1>1, <1>3 DEF Inv, DownInv
    <3> QED
      BY <3>1, <3>2
  <2>3. ASSUME NEW x \in Below(m) PROVE Gets(goal, x, symbol)
    <3>1. Carries(x, m, symbol)
      BY <1>1, <2>3 DEF Inv, ClimbInv, Climbing, Carries
    <3>2. m = goal \/ Gets(goal, m, symbol)
      BY <1>1 DEF Inv, DownInv
    <3>3. x \in Files /\ m \in Files /\ goal \in Files
      BY DEF Inv, StarTypeOK
    <3> QED
      BY <3>1, <3>2, <3>3, OneStepDown
  <2>4. \A x \in carried' : Gets(goal, x, symbol)
    BY <1>1, <1>3, <2>3 DEF Inv, DownInv
  <2> QED
    BY <1>1, <1>2, <2>1, <2>2, <2>4 DEF DownInv
<1> QED
  BY <1>4, <1>5, <1>6 DEF Inv

LEMMA AnswerInv == ASSUME Inv, Answer PROVE Inv'
<1>1. /\ code' = code /\ read' = read /\ goal' = goal /\ symbol' = symbol
      /\ walk' = "answered" /\ answer' = Binders(symbol) \cap carried
      /\ walk = "down" /\ open = {}
  BY DEF Answer
<1>2. /\ Binders(symbol)' = Binders(symbol)
      /\ \A m : Gets(goal, m, symbol)' <=> Gets(goal, m, symbol)
  BY <1>1, CodeStays
<1>3. StarTypeOK'
  BY <1>1 DEF Inv, StarTypeOK, Answer
<1>4. SourcesExact'
  BY <1>1, <1>2, AllCarried DEF SourcesExact
<1> QED
  BY <1>1, <1>3, <1>4 DEF Inv, ClimbInv, Climbing, UpInv, DownInv

LEMMA ResumeInv == ASSUME Inv, Resume PROVE Inv'
  BY DEF Inv, Resume, StarTypeOK, ClimbInv, Climbing, UpInv, DownInv, SourcesExact

LEMMA StutterInv == ASSUME Inv, UNCHANGED <<code, read, walking>> PROVE Inv'
<1>1. /\ \A m, name : HandsOn(m, name)' <=> HandsOn(m, name)
      /\ \A m, p, name : Carries(m, p, name)' <=> Carries(m, p, name)
      /\ \A name : Binders(name)' = Binders(name)
      /\ \A g, m, name : Gets(g, m, name)' <=> Gets(g, m, name)
  BY CodeStays
<1> QED
  BY <1>1 DEF walking, Inv, StarTypeOK, ClimbInv, Climbing, Followed, UpInv, DownInv, SourcesExact

-----------------------------------------------------------------------------
(* Whatever is asked, in whatever order the queues are popped, the answer  *)
(* is the binders that some chain of star imports carries to the goal.     *)
THEOREM SourcesCorrect == StarSpec => []SourcesExact
<1>1. StarInit => Inv
  BY InitInv
<1>2. Inv /\ [StarNext]_<<code, read, walking>> => Inv'
  BY AskInv, ClimbUpInv, TurnInv, ClimbDownInv, AnswerInv, ResumeInv, StutterInv
     DEF StarNext, Walk
<1>3. Inv => SourcesExact
  BY DEF Inv
<1> QED
  BY <1>1, <1>2, <1>3, PTL DEF StarSpec
-----------------------------------------------------------------------------
(* The index. A reference touches the symbol it names, and the symbol of   *)
(* that name in each module the name comes from.                           *)
Origins(u) == {b \in Binders(u[2]) : Gets(u[1], b, u[2])}

Touches(u, s) == s = u \/ (s[2] = u[2] /\ s[1] \in Origins(u))

IsMarked(s) == united[s] # "absent" \/ \E w \in Workers : partials[w][s] # "absent"

IsExternal(s) == united[s] = "external" \/ \E w \in Workers : partials[w][s] = "external"

(* The references that have not been recorded yet.                         *)
IsLeft(m, i) == (\E j \in DOMAIN todo : todo[j] = m) \/ (m = module /\ at <= i)

(* Whoever asks about the star imports is recording a reference.           *)
AskedFor ==
    walk # "idle" => Reading /\ goal = Reference[1] /\ symbol = Reference[2]

CachedInv == \A w \in Workers : \A entry \in caches[w] : entry[2] = Origins(entry[1])

(* What is marked, is marked for a reference.                              *)
MarksFounded ==
    \A s \in Symbols :
        /\ IsMarked(s) => \E m \in read : \E i \in DOMAIN code.uses[m] :
                             Touches(code.uses[m][i], s)
        /\ IsExternal(s) => \E m \in read \ {s[1]} : \E i \in DOMAIN code.uses[m] :
                               Touches(code.uses[m][i], s)

(* Each reference is left or has marked what it touches.                   *)
MarksComplete ==
    \A m \in read : \A i \in DOMAIN code.uses[m] : \A s \in Symbols :
        Touches(code.uses[m][i], s) =>
            IsLeft(m, i) \/ (IsMarked(s) /\ (m # s[1] => IsExternal(s)))

IndexTypes ==
    /\ IsReferences(code.uses)
    /\ todo \in Seq(Files)
    /\ worker \in Workers
    /\ module \in read \cup {NoModule}
    /\ at \in Nat \ {0}
    /\ caches \in [Workers -> SUBSET (Symbols \X SUBSET Files)]
    /\ partials \in [Workers -> [Symbols -> Marks]]
    /\ united \in [Symbols -> Marks]

IndexInv == IndexTypes /\ AskedFor /\ CachedInv /\ MarksFounded /\ MarksComplete

-----------------------------------------------------------------------------
LEMMA OriginsAreFiles == ASSUME StarTypeOK, NEW u PROVE Origins(u) \in SUBSET Files
BY TargetsAreFiles DEF Origins, Binders

(* A mark is or-ed into its entry (ReferenceIndex::mark).                  *)
LEMMA MarkedFacts ==
  ASSUME NEW entries \in [Symbols -> Marks], NEW importer, NEW targets
  PROVE  /\ Marked(entries, importer, targets) \in [Symbols -> Marks]
         /\ \A s \in Symbols :
              /\ Marked(entries, importer, targets)[s] # "absent"
                    <=> entries[s] # "absent" \/ s \in targets
              /\ Marked(entries, importer, targets)[s] = "external"
                    <=> entries[s] = "external" \/ (s \in targets /\ importer # s[1])
BY DEF Marked, Marks

LEMMA UnitedFacts ==
  ASSUME NEW w \in Workers, partials \in [Workers -> [Symbols -> Marks]],
         NEW entries \in [Symbols -> Marks]
  PROVE  /\ United(w, entries) \in [Symbols -> Marks]
         /\ \A s \in Symbols :
              /\ United(w, entries)[s] # "absent"
                    <=> entries[s] # "absent" \/ partials[w][s] # "absent"
              /\ United(w, entries)[s] = "external"
                    <=> entries[s] = "external" \/ partials[w][s] = "external"
BY DEF United, Marks

(* Nothing changes for the marks but what is left to record.               *)
LEMMA MarksRest ==
  ASSUME IndexInv, code' = code, read' = read, UNCHANGED <<partials, united>>,
         \A m \in read : \A i \in DOMAIN code.uses[m] : IsLeft(m, i) => IsLeft(m, i)'
  PROVE  MarksFounded' /\ MarksComplete'
<1>1. \A u, s : Touches(u, s)' <=> Touches(u, s)
  BY CodeStays DEF Touches, Origins
<1>2. \A s : (IsMarked(s)' <=> IsMarked(s)) /\ (IsExternal(s)' <=> IsExternal(s))
  BY DEF IsMarked, IsExternal
<1> QED
  BY <1>1, <1>2 DEF IndexInv, MarksFounded, MarksComplete

LEMMA CacheRests ==
  ASSUME IndexInv, code' = code, read' = read, caches' = caches
  PROVE  CachedInv'
<1>1. \A u : Origins(u)' = Origins(u)
  BY CodeStays DEF Origins
<1> QED
  BY <1>1 DEF IndexInv, CachedInv

-----------------------------------------------------------------------------
(* What follows an entry of a sequence holds every later entry, moved      *)
(* forward.                                                                *)
LEMMA RestOfSequence ==
  ASSUME NEW S, NEW s \in Seq(S), NEW i \in 1 .. Len(s), NEW j \in 1 .. Len(s), j > i
  PROVE  /\ j - i \in 1 .. Len(SubSeq(s, i + 1, Len(s)))
         /\ SubSeq(s, i + 1, Len(s))[j - i] = s[j]
<1>1. /\ i \in Nat /\ j \in Nat /\ Len(s) \in Nat
      /\ i + 1 \in 1 .. Len(s) /\ j - i \in 1 .. Len(s) - i
  OBVIOUS
<1>2. Len(SubSeq(s, i + 1, Len(s))) = Len(s) - i
  BY <1>1
<1>3. (i + 1) + (j - i) - 1 = j
  BY <1>1
<1> QED
  BY <1>1, <1>2, <1>3

LEMMA TakeKeeps ==
  ASSUME Inv, IndexInv, NEW w \in Workers, Take(w)
  PROVE  IndexInv'
<1>1. PICK i \in DOMAIN todo : /\ todo[i] \in read /\ \A j \in 1 .. i - 1 : todo[j] \notin read
                               /\ module' = todo[i]
                               /\ todo' = SubSeq(todo, i + 1, Len(todo))
  BY DEF Take
<1>2. /\ UNCHANGED <<code, read, walking, caches, partials, united>> /\ worker' = w
      /\ ModuleRead /\ at' = 1
  BY DEF Take
<1>3. todo \in Seq(Files) /\ i \in 1 .. Len(todo) /\ IsReferences(code.uses)
  BY DEF IndexInv, IndexTypes
<1>4. todo' \in Seq(Files)
  BY <1>1, <1>3
<1>5. IndexTypes'
  BY <1>1, <1>2, <1>4 DEF IndexInv, IndexTypes
<1>6. AskedFor'
  BY <1>2 DEF walking, IndexInv, AskedFor, Reading
<1>7. CachedInv'
  BY <1>2, CacheRests
<1>8. ASSUME NEW m \in read, NEW n \in DOMAIN code.uses[m], IsLeft(m, n)
      PROVE  IsLeft(m, n)'
  <2>1. read \subseteq Files
    BY DEF Inv, StarTypeOK
  <2>2. code.uses[m] \in Seq(Symbols) /\ n \in 1 .. Len(code.uses[m])
    BY <1>3, <2>1 DEF IsReferences
  <2>3. CASE m = module /\ at <= n
    <3>1. at > Len(code.uses[m]) /\ at \in Nat
      BY <1>2, <2>3, <2>1, NoModuleAssumption DEF ModuleRead, IndexInv, IndexTypes
    <3> QED
      BY <2>2, <2>3, <3>1
  <2>4. CASE \E j \in DOMAIN todo : todo[j] = m
    <3>1. PICK j \in 1 .. Len(todo) : todo[j] = m
      BY <1>3, <2>4
    <3>2. CASE j = i
      BY <1>1, <1>2, <2>2, <3>1, <3>2 DEF IsLeft
    <3>3. CASE j > i
      <4>1. j - i \in 1 .. Len(todo') /\ todo'[j - i] = todo[j]
        BY ONLY <1>1, <1>3, <3>1, <3>3, RestOfSequence
      <4> QED
        BY <1>4, <3>1, <4>1 DEF IsLeft
    <3>4. CASE j < i
      BY <1>1, <1>3, <3>1, <3>4
    <3> QED
      BY <1>3, <3>2, <3>3, <3>4
  <2> QED
    BY <1>8, <2>3, <2>4 DEF IsLeft
<1>9. MarksFounded' /\ MarksComplete'
  BY <1>2, <1>8, MarksRest
<1> QED
  BY <1>5, <1>6, <1>7, <1>9 DEF IndexInv

LEMMA ReadingFacts ==
  ASSUME Inv, IndexInv, Reading
  PROVE  /\ module \in read /\ module \in Files /\ worker \in Workers
         /\ code.uses[module] \in Seq(Symbols) /\ at \in DOMAIN code.uses[module]
         /\ Reference \in Symbols
<1>1. module \in read /\ module \in Files /\ at <= Len(code.uses[module]) /\ at \in Nat \ {0}
  <2>1. module # NoModule /\ ~ (at > Len(code.uses[module]))
    BY DEF Reading, ModuleRead
  <2>2. module \in read /\ read \subseteq Files /\ code.uses \in [Files -> Seq(Symbols)]
    BY <2>1 DEF IndexInv, IndexTypes, Inv, StarTypeOK, IsReferences
  <2> QED
    BY <2>1, <2>2 DEF IndexInv, IndexTypes
<1>2. code.uses[module] \in Seq(Symbols)
  BY <1>1 DEF IndexInv, IndexTypes, IsReferences
<1>3. at \in DOMAIN code.uses[module] /\ code.uses[module][at] \in Symbols
  BY <1>1, <1>2
<1> QED
  BY <1>1, <1>2, <1>3 DEF Reference, IndexInv, IndexTypes

(* A reference is recorded with all it touches.                            *)
LEMMA RecordKeeps ==
  ASSUME Inv, IndexInv, Reading, Record(Origins(Reference)), code' = code, read' = read
  PROVE  /\ partials' \in [Workers -> [Symbols -> Marks]] /\ at' \in Nat \ {0}
         /\ MarksFounded' /\ MarksComplete'
<1> DEFINE u == Reference
           targets == {u} \cup (Origins(u) \X {u[2]})
<1>1. /\ partials' = [partials EXCEPT ![worker] = Marked(partials[worker], module, targets)]
      /\ at' = at + 1 /\ UNCHANGED <<todo, worker, module, united>>
  BY DEF Record
<1>2. /\ module \in read /\ module \in Files /\ worker \in Workers
      /\ at \in DOMAIN code.uses[module] /\ u \in Symbols
  BY ReadingFacts
<1>3. \A s \in Symbols : s \in targets <=> Touches(u, s)
  <2> SUFFICES ASSUME NEW m \in Files, NEW n \in Names
               PROVE  <<m, n>> \in targets <=> Touches(u, <<m, n>>)
    BY DEF Symbols
  <2>1. <<m, n>> \in Origins(u) \X {u[2]} <=> m \in Origins(u) /\ n = u[2]
    OBVIOUS
  <2> HIDE DEF u
  <2> QED
    BY <2>1 DEF Touches
<1>4. partials[worker] \in [Symbols -> Marks] /\ at \in Nat \ {0}
  BY <1>2 DEF IndexInv, IndexTypes
<1> DEFINE new == Marked(partials[worker], module, targets)
<1> HIDE DEF targets, new
<1>5. /\ new \in [Symbols -> Marks]
      /\ \A s \in Symbols :
           /\ new[s] # "absent" <=> partials[worker][s] # "absent" \/ s \in targets
           /\ new[s] = "external" <=>
                partials[worker][s] = "external" \/ (s \in targets /\ module # s[1])
  BY <1>4, MarkedFacts DEF new
<1>6. partials' = [partials EXCEPT ![worker] = new]
  BY <1>1 DEF new
<1>7. /\ partials' \in [Workers -> [Symbols -> Marks]] /\ at' \in Nat \ {0}
      /\ \A w \in Workers : partials'[w] = IF w = worker THEN new ELSE partials[w]
  BY <1>1, <1>2, <1>4, <1>5, <1>6 DEF IndexInv, IndexTypes
<1>8. ASSUME NEW s \in Symbols
      PROVE  /\ IsMarked(s)' <=> IsMarked(s) \/ Touches(u, s)
             /\ IsExternal(s)' <=> IsExternal(s) \/ (Touches(u, s) /\ module # s[1])
  <2>1. united' = united /\ worker \in Workers
    BY <1>1, <1>2
  <2>2. /\ new[s] # "absent" <=> partials[worker][s] # "absent" \/ Touches(u, s)
        /\ new[s] = "external" <=>
             partials[worker][s] = "external" \/ (Touches(u, s) /\ module # s[1])
    BY <1>3, <1>5
  <2>3. \A w \in Workers : partials'[w][s] = IF w = worker THEN new[s] ELSE partials[w][s]
    BY <1>7
  <2>4. /\ partials'[worker][s] = new[s]
        /\ \A w \in Workers \ {worker} : partials'[w][s] = partials[w][s]
    BY <2>1, <2>3
  <2> HIDE DEF u
  <2>5. IsMarked(s)' <=> IsMarked(s) \/ Touches(u, s)
    BY <2>1, <2>2, <2>4 DEF IsMarked
  <2>6. IsExternal(s)' <=> IsExternal(s) \/ (Touches(u, s) /\ module # s[1])
    BY <2>1, <2>2, <2>4 DEF IsExternal
  <2> QED
    BY <2>5, <2>6
<1>9. \A v, s : Touches(v, s)' <=> Touches(v, s)
  BY CodeStays DEF Touches, Origins
<1>10. MarksFounded'
  <2> SUFFICES ASSUME NEW s \in Symbols
               PROVE  /\ IsMarked(s)' => \E m \in read : \E i \in DOMAIN code.uses[m] :
                                            Touches(code.uses[m][i], s)
                      /\ IsExternal(s)' => \E m \in read \ {s[1]} : \E i \in DOMAIN code.uses[m] :
                                              Touches(code.uses[m][i], s)
    BY <1>9 DEF MarksFounded
  <2>1. /\ IsMarked(s) => \E m \in read : \E i \in DOMAIN code.uses[m] :
                             Touches(code.uses[m][i], s)
        /\ IsExternal(s) => \E m \in read \ {s[1]} : \E i \in DOMAIN code.uses[m] :
                               Touches(code.uses[m][i], s)
    BY DEF IndexInv, MarksFounded
  <2>2. Touches(u, s) => \E i \in DOMAIN code.uses[module] : Touches(code.uses[module][i], s)
    BY <1>2 DEF Reference
  <2> QED
    BY <1>2, <1>8, <2>1, <2>2
<1>11. MarksComplete'
  <2> SUFFICES ASSUME NEW m \in read, NEW i \in DOMAIN code.uses[m], NEW s \in Symbols,
                      Touches(code.uses[m][i], s), ~ IsLeft(m, i)'
               PROVE  IsMarked(s)' /\ (m # s[1] => IsExternal(s)')
    BY <1>9 DEF MarksComplete
  <2>1. CASE m = module /\ i = at
    BY <1>8, <2>1 DEF Reference
  <2>2. CASE ~ (m = module /\ i = at)
    <3>1. code.uses[m] \in Seq(Symbols)
      BY DEF Inv, StarTypeOK, IndexInv, IndexTypes, IsReferences
    <3>2. i \in Nat
      BY <3>1
    <3>3. ~ IsLeft(m, i)
      BY <1>1, <1>4, <2>2, <3>2 DEF IsLeft
    <3> QED
      BY <1>8, <3>3 DEF IndexInv, MarksComplete
  <2> QED
    BY <2>1, <2>2
<1> QED
  BY <1>7, <1>10, <1>11

LEMMA RecordCachedKeeps == ASSUME Inv, IndexInv, RecordCached PROVE IndexInv'
<1>1. PICK entry \in caches[worker] : entry[1] = Reference /\ Record(entry[2])
  BY DEF RecordCached
<1>2. /\ Reading /\ walk = "idle" /\ UNCHANGED <<code, read, walking, caches>>
  BY DEF RecordCached
<1>3. entry[2] = Origins(Reference)
  BY <1>1, <1>2, ReadingFacts DEF IndexInv, CachedInv
<1>4. /\ partials' \in [Workers -> [Symbols -> Marks]] /\ at' \in Nat \ {0}
      /\ MarksFounded' /\ MarksComplete'
  BY <1>1, <1>2, <1>3, RecordKeeps
<1>5. UNCHANGED <<todo, worker, module, united>>
  BY <1>1 DEF Record
<1>6. IndexTypes' /\ AskedFor'
  BY <1>2, <1>4, <1>5 DEF IndexInv, IndexTypes, AskedFor, walking
<1>7. CachedInv'
  BY <1>2, CacheRests
<1> QED
  BY <1>4, <1>6, <1>7 DEF IndexInv

LEMMA AskSourcesKeeps == ASSUME Inv, IndexInv, AskSources PROVE IndexInv'
<1>1. /\ Reading /\ goal' = Reference[1] /\ symbol' = Reference[2]
      /\ UNCHANGED <<code, read>> /\ UNCHANGED indexing
  BY DEF AskSources, Ask
<1>2. IndexTypes' /\ AskedFor'
  BY <1>1 DEF indexing, IndexInv, IndexTypes, AskedFor, Reading, ModuleRead, Reference
<1>3. MarksFounded' /\ MarksComplete'
  BY <1>1, MarksRest DEF indexing, IsLeft
<1>4. CachedInv'
  BY <1>1, CacheRests DEF indexing
<1> QED
  BY <1>2, <1>3, <1>4 DEF IndexInv

LEMMA WalkKeeps == ASSUME Inv, IndexInv, Walk, UNCHANGED indexing PROVE IndexInv'
<1>1. /\ walk # "idle" /\ goal' = goal /\ symbol' = symbol
      /\ UNCHANGED <<code, read>>
  BY DEF Walk, ClimbUp, Turn, ClimbDown, Answer
<1>2. IndexTypes' /\ AskedFor'
  BY <1>1 DEF indexing, IndexInv, IndexTypes, AskedFor, Reading, ModuleRead, Reference
<1>3. MarksFounded' /\ MarksComplete'
  BY <1>1, MarksRest DEF indexing, IsLeft
<1>4. CachedInv'
  BY <1>1, CacheRests DEF indexing
<1> QED
  BY <1>2, <1>3, <1>4 DEF IndexInv

LEMMA RecordAnswerKeeps == ASSUME Inv, IndexInv, RecordAnswer PROVE IndexInv'
<1>1. /\ Reading /\ Resume /\ Record(answer) /\ walk = "answered"
      /\ walk' = "idle" /\ UNCHANGED <<code, read>>
      /\ caches' = [caches EXCEPT ![worker] =
            IF Targets(goal) = {} THEN @ ELSE @ \cup {<<Reference, answer>>}]
  BY DEF RecordAnswer, Resume
<1>2. answer = Origins(Reference)
  BY <1>1 DEF Inv, SourcesExact, IndexInv, AskedFor, Origins
<1>3. /\ partials' \in [Workers -> [Symbols -> Marks]] /\ at' \in Nat \ {0}
      /\ MarksFounded' /\ MarksComplete'
  BY <1>1, <1>2, RecordKeeps
<1>4. UNCHANGED <<todo, worker, module, united>>
  BY <1>1 DEF Record
<1>5. worker \in Workers /\ Reference \in Symbols /\ answer \in SUBSET Files
  BY <1>1, <1>2, ReadingFacts, OriginsAreFiles DEF Inv
<1>6. caches \in [Workers -> SUBSET (Symbols \X SUBSET Files)]
  BY DEF IndexInv, IndexTypes
<1>7. /\ caches' \in [Workers -> SUBSET (Symbols \X SUBSET Files)]
      /\ \A w \in Workers : caches'[w] \subseteq caches[w] \cup {<<Reference, answer>>}
  BY <1>1, <1>5, <1>6
<1>8. IndexTypes' /\ AskedFor'
  BY <1>1, <1>3, <1>4, <1>7 DEF IndexInv, IndexTypes, AskedFor
<1>9. CachedInv'
  <2>1. \A u : Origins(u)' = Origins(u)
    BY <1>1, CodeStays DEF Origins
  <2>2. \A w \in Workers : \A entry \in caches'[w] : entry[2] = Origins(entry[1])
    BY <1>2, <1>7 DEF IndexInv, CachedInv
  <2> QED
    BY <2>1, <2>2 DEF CachedInv
<1> QED
  BY <1>3, <1>8, <1>9 DEF IndexInv

LEMMA MergeKeeps ==
  ASSUME Inv, IndexInv, NEW w \in Workers, Merge(w)
  PROVE  IndexInv'
<1>1. /\ united' = United(w, united) /\ partials' = [partials EXCEPT ![w] = Unmarked]
      /\ UNCHANGED <<code, read, walking, todo, worker, module, at, caches>>
  BY DEF Merge
<1>2. /\ partials \in [Workers -> [Symbols -> Marks]] /\ united \in [Symbols -> Marks]
  BY DEF IndexInv, IndexTypes
<1> DEFINE new == United(w, united)
<1>3. /\ new \in [Symbols -> Marks]
      /\ \A s \in Symbols :
           /\ new[s] # "absent" <=> united[s] # "absent" \/ partials[w][s] # "absent"
           /\ new[s] = "external" <=> united[s] = "external" \/ partials[w][s] = "external"
  BY <1>2, UnitedFacts
<1> HIDE DEF new
<1>4. /\ Unmarked \in [Symbols -> Marks] /\ \A s \in Symbols : Unmarked[s] = "absent"
  BY DEF Unmarked, Marks
<1>5. /\ partials' \in [Workers -> [Symbols -> Marks]]
      /\ \A v \in Workers : partials'[v] = IF v = w THEN Unmarked ELSE partials[v]
  BY <1>1, <1>2, <1>4
<1>6. united' = new
  BY <1>1 DEF new
<1>7. \A s \in Symbols : (IsMarked(s)' <=> IsMarked(s)) /\ (IsExternal(s)' <=> IsExternal(s))
  BY <1>3, <1>4, <1>5, <1>6 DEF IsMarked, IsExternal
<1>8. \A u, s : Touches(u, s)' <=> Touches(u, s)
  BY <1>1, CodeStays DEF Touches, Origins
<1>9. \A m, i : IsLeft(m, i)' <=> IsLeft(m, i)
  BY <1>1 DEF IsLeft
<1>10. MarksFounded' /\ MarksComplete'
  BY <1>1, <1>7, <1>8, <1>9 DEF IndexInv, MarksFounded, MarksComplete
<1>11. IndexTypes' /\ AskedFor'
  BY <1>1, <1>3, <1>5, <1>6
     DEF IndexInv, IndexTypes, AskedFor, walking, Reading, ModuleRead, Reference
<1>12. CachedInv'
  BY <1>1, CacheRests
<1> QED
  BY <1>10, <1>11, <1>12 DEF IndexInv

LEMMA IndexKept == ASSUME Inv, IndexInv, IndexNext PROVE Inv' /\ IndexInv'
<1>1. IndexInv'
  BY TakeKeeps, MergeKeeps, RecordCachedKeeps, AskSourcesKeeps, RecordAnswerKeeps, WalkKeeps
     DEF IndexNext
<1>2. CASE AskSources
  <2>1. Reference[1] \in Files /\ Reference[2] \in Names
    BY <1>2, ReadingFacts DEF AskSources, Symbols
  <2> QED
    BY <1>1, <1>2, <2>1, AskInv DEF AskSources
<1>3. CASE RecordAnswer
  BY <1>1, <1>3, ResumeInv DEF RecordAnswer
<1>4. CASE Walk
  BY <1>1, <1>4, ClimbUpInv, TurnInv, ClimbDownInv, AnswerInv DEF Walk
<1>5. CASE RecordCached \/ \E w \in Workers : Take(w) \/ Merge(w)
  <2>1. UNCHANGED <<code, read, walking>>
    BY <1>5 DEF RecordCached, Take, Merge
  <2> QED
    BY <1>1, <2>1, StutterInv
<1> QED
  BY <1>2, <1>3, <1>4, <1>5 DEF IndexNext
-----------------------------------------------------------------------------
(* What SymbolIndex and StarImports define over the variables, for any code *)
(* c and any set R of files that are read.                                 *)
ParsedIn(c, R) == R \cap c.named

TargetsIn(c, R, m) == IF m \in ParsedIn(c, R) THEN c.stars[m] \ {m} ELSE {}

HandsOnIn(c, R, m, name) ==
    (m \in ParsedIn(c, R) /\ c.all[m].state = "known" /\ c.all[m].names # {})
        => name \in c.all[m].names

ShadowsIn(c, R, m, name) == TargetsIn(c, R, m) # {} /\ name \in c.defines[m]

CarriesIn(c, R, m, p, name) ==
    m \in TargetsIn(c, R, p) /\ HandsOnIn(c, R, m, name) /\ ~ShadowsIn(c, R, p, name)

IsClosedIn(c, R, S, name) ==
    \A m \in S : \A p \in Files : CarriesIn(c, R, m, p, name) => p \in S

GetsIn(c, R, g, m, name) ==
    \A S \in SUBSET Files :
        /\ \A p \in Files : CarriesIn(c, R, m, p, name) => p \in S
        /\ IsClosedIn(c, R, S, name)
        => g \in S

MayBindIn(c, R, s) == s[1] \in ParsedIn(c, R) => s[2] \in c.binds[s[1]]

UsesIn(c, R, m, s) ==
    \E i \in DOMAIN c.uses[m] :
        LET u == c.uses[m][i]
        IN  \/ u = s
            \/ u[2] = s[2] /\ MayBindIn(c, R, s) /\ GetsIn(c, R, u[1], s[1], s[2])

PassesIn(c, R, h, p, name, shadow) ==
    h \in TargetsIn(c, R, p) /\ (shadow => ~ShadowsIn(c, R, p, name))

ClimbsIn(c, R, X, name, shadow) ==
    X \cup {p \in Files : /\ \E h \in X : PassesIn(c, R, h, p, name, shadow)
                          /\ HandsOnIn(c, R, p, name)}

MetIn(c, R, m, name, shadow) ==
    LET hands[n \in 0..Cardinality(Files)] ==
            IF n = 0 THEN {h \in {m} : HandsOnIn(c, R, h, name)}
            ELSE ClimbsIn(c, R, hands[n - 1], name, shadow)
    IN  {p \in Files : \E h \in hands[Cardinality(Files)] :
                          PassesIn(c, R, h, p, name, shadow)}

LEMMA MetHere ==
  ASSUME NEW m, NEW name, NEW shadow
  PROVE  Met(m, name, shadow) = MetIn(code, read, m, name, shadow)
BY DEF Met, MetIn, PassesIn, ClimbsIn, Targets, TargetsIn, Parsed, ParsedIn, Shadows,
   ShadowsIn, HandsOn, HandsOnIn

LEMMA GetsHere ==
  ASSUME NEW g, NEW m, NEW name
  PROVE  Gets(g, m, name) <=> GetsIn(code, read, g, m, name)
BY DEF Gets, GetsIn, ClosedUnder, IsClosedIn, Carries, CarriesIn, Targets, TargetsIn, Parsed,
   ParsedIn, Shadows, ShadowsIn, HandsOn, HandsOnIn

LEMMA UsesHere ==
  ASSUME NEW m, NEW s
  PROVE  Uses(m, s) <=> UsesIn(code, read, m, s)
BY GetsHere DEF Uses, UsesIn, MayBind, MayBindIn, Parsed, ParsedIn

-----------------------------------------------------------------------------
(* The modules that are not read. StarChain::reaches goes on for as many   *)
(* rounds as there are files, which is enough.                             *)
(* Climbing n times.                                                       *)
Rounds(c, R, n, base, name, shadow) ==
    {f \in [0 .. n -> SUBSET Files] :
        f[0] = base /\ \A i \in 1 .. n : f[i] = ClimbsIn(c, R, f[i - 1], name, shadow)}

LEMMA Iterated ==
  ASSUME NEW c, NEW R, NEW base \in SUBSET Files, NEW name, NEW shadow, NEW N \in Nat
  PROVE  Rounds(c, R, N, base, name, shadow) # {}
<1> DEFINE V == SUBSET Files
           step(X) == ClimbsIn(c, R, X, name, shadow)
<1>0. \A X \in V : step(X) \in V
  BY DEF ClimbsIn
<1> HIDE DEF step, V
<1> DEFINE Has(n) == \E f \in [0 .. n -> V] : f[0] = base /\ \A i \in 1 .. n : f[i] = step(f[i - 1])
           bad == {n \in Nat : ~ Has(n)}
<1>1. SUFFICES ASSUME bad # {} PROVE FALSE
  BY DEF V, step, Rounds
<1>2. PICK n \in bad : \A k \in bad : n <= k
  BY <1>1, LeastNatural
<1>3. CASE n = 0
  <2>1. [i \in 0 .. 0 |-> base] \in [0 .. 0 -> V]
    BY DEF V
  <2>2. [i \in 0 .. 0 |-> base][0] = base /\ 1 .. 0 = {}
    OBVIOUS
  <2>3. Has(0)
    BY <2>1, <2>2
  <2> QED
    BY <1>2, <1>3, <2>3
<1>4. CASE n # 0
  <2>1. n \in Nat \ {0} /\ n - 1 \in Nat /\ n - 1 < n
    BY <1>2, <1>4
  <2>2. Has(n - 1)
    <3> HIDE DEF Has
    <3> QED
      BY <1>2, <2>1
  <2>3. PICK f \in [0 .. n - 1 -> V] : f[0] = base /\ \A i \in 1 .. n - 1 : f[i] = step(f[i - 1])
    BY <2>2
  <2> DEFINE g == [i \in 0 .. n |-> IF i = n THEN step(f[n - 1]) ELSE f[i]]
  <2>4. f[n - 1] \in V /\ step(f[n - 1]) \in V
    BY <1>0, <2>1, <2>3
  <2>5. g \in [0 .. n -> V]
    BY <2>1, <2>3, <2>4
  <2>6. g[0] = base
    BY <2>1, <2>3
  <2>7. ASSUME NEW i \in 1 .. n PROVE g[i] = step(g[i - 1])
    <3>1. i - 1 \in 0 .. n /\ i - 1 # n /\ i \in 0 .. n
      BY <2>1
    <3>2. g[i - 1] = f[i - 1]
      BY <3>1
    <3>3. CASE i = n
      BY <3>1, <3>2, <3>3
    <3>4. CASE i # n
      <4>1. i \in 1 .. n - 1
        BY <2>1, <3>4
      <4> QED
        BY <2>3, <3>1, <3>2, <3>4, <4>1
    <3> QED
      BY <3>3, <3>4
  <2> HIDE DEF g
  <2>8. Has(n)
    BY <2>5, <2>6, <2>7
  <2> QED
    BY <1>2, <2>8
<1> QED
  BY <1>3, <1>4

(* Sets that grow stop growing within as many rounds as there are members. *)
LEMMA Saturates ==
  ASSUME NEW F, IsFiniteSet(F), NEW step \in [SUBSET F -> SUBSET F],
         \A X \in SUBSET F : X \subseteq step[X],
         NEW f \in [0 .. Cardinality(F) -> SUBSET F], f[0] # {},
         \A n \in 1 .. Cardinality(F) : f[n] = step[f[n - 1]]
  PROVE  step[f[Cardinality(F)]] = f[Cardinality(F)]
<1> DEFINE N == Cardinality(F)
           Fixed(n) == step[f[n]] = f[n]
           bad == {n \in 0 .. N : ~ (Fixed(n) \/ n + 1 <= Cardinality(f[n]))}
<1>1. N \in Nat
  BY FS_CardinalityType
<1>2. \A n \in 0 .. N : /\ f[n] \in SUBSET F /\ IsFiniteSet(f[n]) /\ Cardinality(f[n]) \in Nat
                        /\ Cardinality(f[n]) <= N
  BY FS_Subset, FS_CardinalityType
<1>3. bad = {}
  <2>1. SUFFICES ASSUME bad # {} PROVE FALSE
    OBVIOUS
  <2>2. bad \in SUBSET Nat
    BY <1>1
  <2>3. PICK n \in bad : \A k \in bad : n <= k
    BY <2>1, <2>2, LeastNatural
  <2>4. n \in 0 .. N /\ ~ Fixed(n) /\ ~ (n + 1 <= Cardinality(f[n]))
    BY <2>3
  <2>5. CASE n = 0
    <3>1. f[0] \in SUBSET F /\ Cardinality(f[0]) \in Nat /\ IsFiniteSet(f[0])
      BY <1>1, <1>2
    <3>2. Cardinality(f[0]) # 0
      BY <3>1, FS_EmptySet
    <3> QED
      BY <2>4, <2>5, <3>1, <3>2
  <2>6. CASE n # 0
    <3>1. n \in 1 .. N /\ n - 1 \in 0 .. N /\ ~ (n <= n - 1)
      BY <1>1, <2>4, <2>6
    <3>2. n - 1 \notin bad
      BY <2>3, <3>1
    <3>3. f[n] = step[f[n - 1]] /\ f[n - 1] \subseteq f[n]
      BY <1>2, <3>1
    <3>4. ~ Fixed(n - 1)
      BY <2>4, <3>3
    <3>5. n <= Cardinality(f[n - 1])
      <4>1. n - 1 + 1 <= Cardinality(f[n - 1])
        BY <3>1, <3>2, <3>4
      <4> QED
        BY <3>1, <4>1
    <3>6. Cardinality(f[n - 1]) <= Cardinality(f[n]) /\ Cardinality(f[n - 1]) # Cardinality(f[n])
      BY <1>2, <2>4, <3>3, <3>4, FS_Subset
    <3> QED
      BY <1>2, <2>4, <3>1, <3>5, <3>6
  <2> QED
    BY <2>5, <2>6
<1>4. N \in 0 .. N /\ N \notin bad
  BY <1>1, <1>3
<1>5. Fixed(N) \/ N + 1 <= Cardinality(f[N])
  BY <1>4
<1> QED
  BY <1>1, <1>2, <1>4, <1>5

-----------------------------------------------------------------------------
(* The modules StarChain::reaches climbs to from m.                        *)
IsClimb(c, R, H, m, name, shadow) ==
    /\ H \in SUBSET Files
    /\ HandsOnIn(c, R, m, name) => m \in H
    /\ \A h \in H : \A p \in Files : PassesIn(c, R, h, p, name, shadow) /\ HandsOnIn(c, R, p, name) => p \in H

Above(c, R, H, name, shadow) ==
    {p \in Files : \E h \in H : PassesIn(c, R, h, p, name, shadow)}

IsLeastClimb(c, R, H, m, name, shadow) ==
    /\ IsClimb(c, R, H, m, name, shadow)
    /\ \A S : IsClimb(c, R, S, m, name, shadow) => H \subseteq S

LEMMA MetFacts ==
  ASSUME IsFiniteSet(Files), NEW c, NEW R, NEW m \in Files, NEW name, NEW shadow
  PROVE  \E H : /\ IsLeastClimb(c, R, H, m, name, shadow)
                /\ MetIn(c, R, m, name, shadow) = Above(c, R, H, name, shadow)
<1> DEFINE N == Cardinality(Files)
           base == {h \in {m} : HandsOnIn(c, R, h, name)}
           step == [X \in SUBSET Files |-> ClimbsIn(c, R, X, name, shadow)]
           Body(f) == [n \in 0 .. N |-> IF n = 0 THEN base ELSE ClimbsIn(c, R, f[n - 1], name, shadow)]
           hands == CHOOSE f : f = Body(f)
<1>1. N \in Nat
  BY FS_CardinalityType
<1>2. step \in [SUBSET Files -> SUBSET Files] /\ base \in SUBSET Files
  BY DEF ClimbsIn
<1>3. \A X \in SUBSET Files : X \subseteq step[X] /\ step[X] = ClimbsIn(c, R, X, name, shadow)
  BY DEF ClimbsIn
<1> HIDE DEF step, base, N
<1>4. PICK f \in [0 .. N -> SUBSET Files] :
          f[0] = base /\ \A n \in 1 .. N : f[n] = ClimbsIn(c, R, f[n - 1], name, shadow)
  <2>1. Rounds(c, R, N, base, name, shadow) # {}
    BY <1>1, <1>2, Iterated
  <2> QED
    BY <2>1 DEF Rounds
<1>5. f = Body(f)
  <2>1. \A n \in 0 .. N : f[n] = IF n = 0 THEN base ELSE ClimbsIn(c, R, f[n - 1], name, shadow)
    BY <1>1, <1>4
  <2> QED
    BY <1>4, <2>1
<1>6. hands = Body(hands)
  BY <1>5
<1> HIDE DEF hands
<1>7. \A n \in 0 .. N : hands[n] = f[n]
  <2> DEFINE bad == {n \in 0 .. N : hands[n] # f[n]}
  <2>1. SUFFICES ASSUME bad # {} PROVE FALSE
    OBVIOUS
  <2>2. bad \in SUBSET Nat
    BY <1>1
  <2>3. PICK n \in bad : \A k \in bad : n <= k
    BY <2>1, <2>2, LeastNatural
  <2>4. n \in 0 .. N
    BY <2>3
  <2>5. CASE n = 0
    BY <1>4, <1>6, <2>3, <2>4, <2>5
  <2>6. CASE n # 0
    <3>1. n - 1 \in 0 .. N /\ ~ (n <= n - 1)
      BY <1>1, <2>4, <2>6
    <3>2. hands[n - 1] = f[n - 1]
      BY <2>3, <3>1
    <3>3. hands[n] = ClimbsIn(c, R, hands[n - 1], name, shadow)
      BY <1>6, <2>4, <2>6
    <3>4. f[n] = ClimbsIn(c, R, f[n - 1], name, shadow)
      BY <1>5, <2>4, <2>6
    <3> QED
      BY <2>3, <3>2, <3>3, <3>4
  <2> QED
    BY <2>5, <2>6
<1> DEFINE H == f[N]
<1>8. H \in SUBSET Files
  BY <1>1, <1>4
<1>9. step[H] = H
  <2>1. CASE base # {}
    <3>1. \A X \in SUBSET Files : X \subseteq step[X]
      BY <1>3
    <3>2. \A n \in 1 .. N : f[n] = step[f[n - 1]]
      BY <1>1, <1>3, <1>4
    <3> QED
      BY <1>2, <1>4, <2>1, <3>1, <3>2, Saturates DEF N
  <2>2. CASE base = {}
    <3>1. step[{}] = {}
      BY <1>3 DEF ClimbsIn
    <3>2. \A n \in 0 .. N : f[n] = {}
      <4> DEFINE bad == {n \in 0 .. N : f[n] # {}}
      <4>1. SUFFICES ASSUME bad # {} PROVE FALSE
        OBVIOUS
      <4>2. bad \in SUBSET Nat
        BY <1>1
      <4>3. PICK n \in bad : \A k \in bad : n <= k
        BY <4>1, <4>2, LeastNatural
      <4>4. n \in 1 .. N /\ n - 1 \in 0 .. N /\ ~ (n <= n - 1)
        BY <1>1, <1>4, <2>2, <4>3
      <4>5. f[n - 1] = {}
        BY <4>3, <4>4
      <4> QED
        BY <1>3, <1>4, <3>1, <4>3, <4>4, <4>5
    <3>3. f[N] = {}
      BY <1>1, <3>2
    <3> QED
      BY <3>1, <3>3
  <2> QED
    BY <2>1, <2>2
<1>10. IsClimb(c, R, H, m, name, shadow)
  <2>1. \A n \in 0 .. N : base \subseteq f[n]
    <3> DEFINE bad == {n \in 0 .. N : ~ (base \subseteq f[n])}
    <3>1. SUFFICES ASSUME bad # {} PROVE FALSE
      OBVIOUS
    <3>2. bad \in SUBSET Nat
      BY <1>1
    <3>3. PICK n \in bad : \A k \in bad : n <= k
      BY <3>1, <3>2, LeastNatural
    <3>4. n \in 1 .. N /\ n - 1 \in 0 .. N /\ ~ (n <= n - 1)
      BY <1>1, <1>4, <3>3
    <3>5. base \subseteq f[n - 1] /\ f[n - 1] \in SUBSET Files
      BY <1>4, <3>3, <3>4
    <3> QED
      BY <1>3, <1>4, <3>3, <3>4, <3>5
  <2>2. HandsOnIn(c, R, m, name) => m \in H
    BY <1>1, <2>1 DEF base
  <2>3. ClimbsIn(c, R, H, name, shadow) = H
    BY <1>3, <1>8, <1>9
  <2> QED
    BY <1>8, <2>2, <2>3 DEF IsClimb, ClimbsIn
<1>11. ASSUME NEW S, IsClimb(c, R, S, m, name, shadow) PROVE H \subseteq S
  <2> DEFINE bad == {n \in 0 .. N : ~ (f[n] \subseteq S)}
  <2>1. SUFFICES ASSUME bad # {} PROVE FALSE
    BY <1>1
  <2>2. bad \in SUBSET Nat
    BY <1>1
  <2>3. PICK n \in bad : \A k \in bad : n <= k
    BY <2>1, <2>2, LeastNatural
  <2>4. n \in 0 .. N /\ ~ (f[n] \subseteq S)
    BY <2>3
  <2>5. n # 0
    BY <1>4, <1>11, <2>4 DEF IsClimb, base
  <2>6. n \in 1 .. N /\ n - 1 \in 0 .. N /\ ~ (n <= n - 1)
    BY <1>1, <2>4, <2>5
  <2>7. f[n - 1] \subseteq S /\ f[n - 1] \in SUBSET Files
    BY <1>4, <2>3, <2>6
  <2>8. f[n] = ClimbsIn(c, R, f[n - 1], name, shadow)
    BY <1>3, <1>4, <2>6, <2>7
  <2> QED
    BY <1>11, <2>4, <2>7, <2>8 DEF IsClimb, ClimbsIn
<1>12. MetIn(c, R, m, name, shadow) = {p \in Files : \E h \in hands[N] : PassesIn(c, R, h, p, name, shadow)}
  BY DEF MetIn, PassesIn, ClimbsIn, hands, N, base
<1> QED
  BY <1>1, <1>7, <1>10, <1>11, <1>12 DEF IsLeastClimb, Above
-----------------------------------------------------------------------------
(* A name climbs from a module to those that get it.                       *)
LEMMA MetIsGetsIn ==
  ASSUME IsFiniteSet(Files), NEW c, NEW R, NEW m \in Files, NEW name, NEW p \in Files
  PROVE  p \in MetIn(c, R, m, name, TRUE) <=> GetsIn(c, R, p, m, name)
<1>0. PICK H : /\ IsLeastClimb(c, R, H, m, name, TRUE)
               /\ MetIn(c, R, m, name, TRUE) = Above(c, R, H, name, TRUE)
  <2>1. \A sh : \E H : /\ IsLeastClimb(c, R, H, m, name, sh)
                       /\ MetIn(c, R, m, name, sh) = Above(c, R, H, name, sh)
    BY MetFacts
  <2> QED
    BY ONLY <2>1
<1>1. /\ IsClimb(c, R, H, m, name, TRUE)
      /\ \A S : IsClimb(c, R, S, m, name, TRUE) => H \subseteq S
      /\ MetIn(c, R, m, name, TRUE) = {q \in Files : \E h \in H : PassesIn(c, R, h, q, name, TRUE)}
  BY <1>0 DEF IsLeastClimb, Above
<1>2. \A h, q : CarriesIn(c, R, h, q, name) <=> PassesIn(c, R, h, q, name, TRUE) /\ HandsOnIn(c, R, h, name)
  BY DEF CarriesIn, PassesIn
<1>3. ASSUME p \in MetIn(c, R, m, name, TRUE) PROVE GetsIn(c, R, p, m, name)
  <2> SUFFICES ASSUME NEW S \in SUBSET Files,
                      \A q \in Files : CarriesIn(c, R, m, q, name) => q \in S, IsClosedIn(c, R, S, name)
               PROVE  p \in S
    BY DEF GetsIn
  <2> DEFINE T == {h \in Files : (h = m \/ h \in S) /\ HandsOnIn(c, R, h, name)}
  <2>1. \A h \in T : \A q \in Files : PassesIn(c, R, h, q, name, TRUE) => q \in S
    BY <1>2 DEF IsClosedIn
  <2>2. IsClimb(c, R, T, m, name, TRUE)
    BY <2>1 DEF IsClimb
  <2> HIDE DEF T
  <2> QED
    BY <1>1, <1>3, <2>1, <2>2
<1>4. ASSUME GetsIn(c, R, p, m, name) PROVE p \in MetIn(c, R, m, name, TRUE)
  <2> DEFINE S == {q \in Files : \E h \in H : PassesIn(c, R, h, q, name, TRUE)}
  <2>1. \A q \in Files : CarriesIn(c, R, m, q, name) => q \in S
    BY <1>1, <1>2 DEF IsClimb
  <2>2. \A h \in S : HandsOnIn(c, R, h, name) => h \in H
    BY <1>1 DEF IsClimb
  <2>3. IsClosedIn(c, R, S, name)
    BY <1>2, <2>2 DEF IsClosedIn
  <2>4. S \in SUBSET Files
    OBVIOUS
  <2> HIDE DEF S
  <2>5. p \in S
    BY <1>4, <2>1, <2>3, <2>4 DEF GetsIn
  <2> QED
    BY <1>1, <2>5 DEF S
<1> QED
  BY <1>3, <1>4

LEMMA MetIsGets ==
  ASSUME IsFiniteSet(Files), NEW m \in Files, NEW name, NEW p \in Files
  PROVE  p \in Met(m, name, TRUE) <=> Gets(p, m, name)
BY MetHere, GetsHere, MetIsGetsIn

(* One more star import above a chain.                                     *)
LEMMA GetsOnward ==
  ASSUME NEW g \in Files, NEW p \in Files, NEW m \in Files, NEW name,
         Gets(g, p, name), Gets(p, m, name)
  PROVE  Gets(g, m, name)
<1> SUFFICES ASSUME NEW S \in SUBSET Files,
                    \A q \in Files : Carries(m, q, name) => q \in S, ClosedUnder(S, name)
             PROVE  g \in S
  BY DEF Gets
<1>1. p \in S
  BY DEF Gets
<1>2. \A q \in Files : Carries(p, q, name) => q \in S
  BY <1>1 DEF ClosedUnder
<1> QED
  BY <1>2 DEF Gets

(* A module that hands a name to another is star-imported.                 *)
LEMMA GetsFromImported ==
  ASSUME NEW g \in Files, NEW m \in Files, NEW name, Gets(g, m, name)
  PROVE  Parents(m) # {}
<1>1. SUFFICES ASSUME Parents(m) = {} PROVE FALSE
  OBVIOUS
<1>2. \A p \in Files : ~ Carries(m, p, name)
  BY <1>1 DEF Parents, Carries
<1>3. ClosedUnder({}, name)
  BY DEF ClosedUnder
<1> QED
  BY <1>2, <1>3 DEF Gets

(* Of a module that was read, a use is a reference that touches it.        *)
LEMMA UseTouches ==
  ASSUME StarTypeOK, NEW u \in Symbols, NEW s \in Symbols
  PROVE  /\ Touches(u, s) => u = s \/ (u[2] = s[2] /\ MayBind(s) /\ Gets(u[1], s[1], s[2]))
         /\ s[1] \in Parsed /\ u[2] = s[2] /\ MayBind(s) /\ Gets(u[1], s[1], s[2])
               => Touches(u, s)
<1>1. u[1] \in Files /\ s[1] \in Files
  BY DEF Symbols
<1> QED
  BY <1>1, GetsFromImported DEF Touches, Origins, Binders, MayBind

LEMMA IndexIsExact == ASSUME IsFiniteSet(Files), Inv, IndexInv PROVE ReferencesExact
<1> SUFFICES ASSUME Built, NEW s \in code.named \X Names
             PROVE  /\ Lookup(s) = "external" <=> \E m \in read \ {s[1]} : Uses(m, s)
                    /\ Lookup(s) = "absent" <=> \A m \in read : ~Uses(m, s)
  BY DEF ReferencesExact
<1>1. s \in Symbols /\ s[1] \in code.named /\ s[1] \in Files /\ s[2] \in Names /\ s = <<s[1], s[2]>>
  BY DEF Inv, StarTypeOK, IsCode, Symbols
<1>2. read \subseteq Files /\ \A m \in read : code.uses[m] \in Seq(Symbols)
  BY DEF Inv, StarTypeOK, IndexInv, IndexTypes, IsReferences
<1>3. \A m \in read : \A i \in DOMAIN code.uses[m] : code.uses[m][i] \in Symbols /\ i \in Nat
  BY <1>2
<1>4. united \in [Symbols -> Marks]
  BY DEF IndexInv, IndexTypes
<1>5. \A t \in Symbols : /\ IsMarked(t) <=> united[t] # "absent"
                         /\ IsExternal(t) <=> united[t] = "external"
  BY DEF Built, IsMarked, IsExternal, Unmarked
<1>6. \A m \in read : \A i \in DOMAIN code.uses[m] : ~ IsLeft(m, i)
  <2> SUFFICES ASSUME NEW m \in read, NEW i \in DOMAIN code.uses[m], IsLeft(m, i)
               PROVE  FALSE
    OBVIOUS
  <2>1. m = module /\ at <= i
    BY DEF IsLeft, Built, AllRead
  <2>2. at > Len(code.uses[m]) /\ at \in Nat
    BY <1>2, <2>1, NoModuleAssumption DEF Built, AllRead, ModuleRead, IndexInv, IndexTypes
  <2> QED
    BY <1>2, <2>1, <2>2
<1>7. \A t \in Symbols :
         /\ united[t] # "absent" => \E m \in read : \E i \in DOMAIN code.uses[m] :
                                       Touches(code.uses[m][i], t)
         /\ united[t] = "external" => \E m \in read \ {t[1]} : \E i \in DOMAIN code.uses[m] :
                                         Touches(code.uses[m][i], t)
  BY <1>5 DEF IndexInv, MarksFounded
<1>8. \A t \in Symbols : \A m \in read : \A i \in DOMAIN code.uses[m] :
         Touches(code.uses[m][i], t) =>
            united[t] # "absent" /\ (m # t[1] => united[t] = "external")
  BY <1>5, <1>6 DEF IndexInv, MarksComplete
<1>9. \A t \in Symbols : Touches(t, t)
  BY DEF Touches
<1> DEFINE Used(m, i) == LET u == code.uses[m][i]
                         IN  \/ u = s
                             \/ u[2] = s[2] /\ MayBind(s) /\ Gets(u[1], s[1], s[2])
<1>10. \A m : Uses(m, s) <=> \E i \in DOMAIN code.uses[m] : Used(m, i)
  BY DEF Uses
<1>11. \A m \in read : \A i \in DOMAIN code.uses[m] :
          Touches(code.uses[m][i], s) => Used(m, i)
  BY <1>1, <1>3, UseTouches DEF Inv
<1> HIDE DEF Used
<1>12. /\ united[s] # "absent" => \E m \in read : Uses(m, s)
       /\ united[s] = "external" => \E m \in read \ {s[1]} : Uses(m, s)
  BY <1>1, <1>7, <1>10, <1>11
<1>13. CASE s[1] \in Parsed
  <2>1. Lookup(s) = united[s]
    BY <1>13 DEF Lookup, Opaque
  <2>2. \A m \in read : \A i \in DOMAIN code.uses[m] :
           Used(m, i) => Touches(code.uses[m][i], s)
    BY <1>1, <1>3, <1>9, <1>13, UseTouches DEF Inv, Used
  <2>3. \A m \in read : Uses(m, s) => united[s] # "absent" /\ (m # s[1] => united[s] = "external")
    BY <1>1, <1>8, <1>10, <2>2
  <2> QED
    BY <1>12, <2>1, <2>3
<1>14. CASE s[1] \notin Parsed
  <2>1. s[1] \notin read /\ MayBind(s)
    BY <1>1, <1>14 DEF Parsed, MayBind
  <2> DEFINE Through == \E p \in Met(s[1], s[2], TRUE) : united[<<p, s[2]>>] # "absent"
  <2>2. ASSUME Through PROVE \E m \in read : Uses(m, s)
    <3>1. PICK p \in Met(s[1], s[2], TRUE) : united[<<p, s[2]>>] # "absent"
      BY <2>2
    <3>2. p \in Files /\ Gets(p, s[1], s[2])
      BY <1>1, <3>1, MetIsGets DEF Met
    <3>3. <<p, s[2]>> \in Symbols
      BY <1>1, <3>2 DEF Symbols
    <3>0. PICK m \in read : \E i \in DOMAIN code.uses[m] : Touches(code.uses[m][i], <<p, s[2]>>)
      BY <1>7, <3>1, <3>3
    <3>4. PICK i \in DOMAIN code.uses[m] : Touches(code.uses[m][i], <<p, s[2]>>)
      BY <3>0
    <3> DEFINE u == code.uses[m][i]
    <3>5. u \in Symbols /\ u[1] \in Files
      BY <1>3 DEF Symbols
    <3>6. u = <<p, s[2]>> \/ (u[2] = s[2] /\ Gets(u[1], p, s[2]))
      BY <3>4 DEF Touches, Origins
    <3> HIDE DEF u
    <3>7. u[2] = s[2] /\ Gets(u[1], s[1], s[2])
      BY <1>1, <3>2, <3>5, <3>6, GetsOnward
    <3>8. Used(m, i)
      BY <2>1, <3>7 DEF Used, u
    <3> QED
      BY <1>10, <3>8
  <2>3. ASSUME NEW m \in read, Uses(m, s), united[s] # "external"
        PROVE  s[1] \in Opaque /\ Through
    <3>1. PICK i \in DOMAIN code.uses[m] : Used(m, i)
      BY <1>10, <2>3
    <3> DEFINE u == code.uses[m][i]
    <3>2. u \in Symbols /\ u[1] \in Files
      BY <1>3 DEF Symbols
    <3>3. u # s
      BY <1>1, <1>8, <1>9, <2>1, <2>3
    <3>4. u[2] = s[2] /\ Gets(u[1], s[1], s[2])
      BY <3>1, <3>3 DEF Used
    <3>5. united[u] # "absent"
      BY <1>8, <1>9, <3>2
    <3> HIDE DEF u
    <3>6. u[1] \in Met(s[1], s[2], TRUE)
      BY <1>1, <3>2, <3>4, MetIsGets
    <3>7. u = <<u[1], s[2]>>
      BY <3>2, <3>4 DEF Symbols
    <3>8. s[1] \in Opaque
      BY <1>1, <1>14, <3>2, <3>4, GetsFromImported DEF Opaque
    <3> QED
      BY <3>5, <3>6, <3>7, <3>8
  <2>4. Lookup(s) = IF united[s] # "external" /\ s[1] \in Opaque /\ Through THEN "external" ELSE united[s]
    BY DEF Lookup
  <2> HIDE DEF Through
  <2>5. \A m \in read : m # s[1]
    BY <2>1
  <2> QED
    BY <1>12, <2>2, <2>3, <2>4, <2>5
<1> QED
  BY <1>13, <1>14
-----------------------------------------------------------------------------
(* The report as a whole: an index is under way only while it is built.    *)
PausedInv ==
    /\ report \in {"walk", "references", "evidence", "testimony", "api", "reported"}
    /\ report \notin {"references", "testimony"} => Built /\ walk = "idle"

ReportInv == IsAnalysed(code) /\ Inv /\ IndexInv /\ PausedInv

LEMMA ReportStarts == AnalysisInit => ReportInv
<1> SUFFICES ASSUME AnalysisInit PROVE ReportInv
  OBVIOUS
<1>1. IsAnalysed(code)
  BY CodesOfAssumption DEF AnalysisInit, Init
<1>2. /\ read = {} /\ AskedNothing /\ Fresh(<<>>) /\ report = "walk"
  BY DEF AnalysisInit
<1>3. Inv
  BY <1>1, <1>2 DEF IsAnalysed, AskedNothing, StarTypeOK, Inv, ClimbInv, Climbing, UpInv,
     DownInv, SourcesExact
<1>4. /\ Unmarked \in [Symbols -> Marks] /\ \A s \in Symbols : Unmarked[s] = "absent"
  BY DEF Unmarked, Marks
<1>5. IndexInv
  <2>1. IndexTypes
    BY <1>1, <1>2, <1>4 DEF IsAnalysed, Fresh, IndexTypes
  <2>2. AskedFor /\ CachedInv
    BY <1>2 DEF AskedNothing, Fresh, AskedFor, CachedInv
  <2>3. MarksFounded
    BY <1>2, <1>4 DEF Fresh, MarksFounded, IsMarked, IsExternal
  <2>4. MarksComplete
    BY <1>2 DEF MarksComplete
  <2> QED
    BY <2>1, <2>2, <2>3, <2>4 DEF IndexInv
<1>6. PausedInv
  BY <1>2, <1>4 DEF Fresh, AskedNothing, PausedInv, Built, AllRead, ModuleRead
<1> QED
  BY <1>1, <1>3, <1>5, <1>6 DEF ReportInv

(* An index that is begun has everything left to read.                     *)
LEMMA BuildKeeps ==
  ASSUME ReportInv, Built, walk = "idle", NEW files \in SUBSET Files, Build(files),
         report' \in {"references", "testimony"}
  PROVE  ReportInv'
<1>1. /\ read' = files /\ todo' = code.order /\ caches' = [w \in Workers |-> {}]
      /\ united' = Unmarked /\ module' = NoModule
      /\ UNCHANGED <<code, walking, worker, at, partials>>
  BY DEF Build
<1>2. /\ IsAnalysed(code) /\ Inv /\ IndexTypes
  BY DEF ReportInv, IndexInv
<1>3. /\ Unmarked \in [Symbols -> Marks] /\ \A s \in Symbols : Unmarked[s] = "absent"
  BY DEF Unmarked, Marks
<1>4. walk' = "idle"
  BY <1>1 DEF walking
<1>5. Inv'
  BY <1>1, <1>2, <1>4
     DEF walking, Inv, StarTypeOK, ClimbInv, Climbing, UpInv, DownInv, SourcesExact
<1>6. IndexTypes' /\ AskedFor' /\ CachedInv'
  BY <1>1, <1>2, <1>3, <1>4 DEF IsAnalysed, IndexTypes, AskedFor, CachedInv
<1>7. MarksFounded'
  <2>1. \A s \in Symbols : ~ IsMarked(s)' /\ ~ IsExternal(s)'
    BY <1>1, <1>3 DEF Built, IsMarked, IsExternal
  <2> QED
    BY <2>1 DEF MarksFounded
<1>8. MarksComplete'
  <2>1. \A m \in files : \A i : IsLeft(m, i)'
    BY <1>1, <1>2 DEF IsAnalysed, IsLeft
  <2> QED
    BY <1>1, <2>1 DEF MarksComplete
<1> QED
  BY <1>1, <1>2, <1>5, <1>6, <1>7, <1>8 DEF ReportInv, IndexInv, PausedInv

(* What moves on without the index leaves it alone.                        *)
LEMMA IndexRests ==
  ASSUME ReportInv, UNCHANGED <<code, symbols>>, PausedInv'
  PROVE  ReportInv'
<1>1. UNCHANGED <<code, read, walking>> /\ UNCHANGED indexing
  BY DEF symbols
<1>2. Inv'
  BY <1>1, StutterInv DEF ReportInv
<1>3. IndexTypes' /\ AskedFor'
  BY <1>1 DEF ReportInv, indexing, walking, IndexInv, IndexTypes, AskedFor, Reading,
     ModuleRead, Reference
<1>4. MarksFounded' /\ MarksComplete'
  BY <1>1, MarksRest DEF ReportInv, indexing, IsLeft
<1>5. CachedInv'
  BY <1>1, CacheRests DEF ReportInv, indexing
<1> QED
  BY <1>1, <1>2, <1>3, <1>4, <1>5 DEF ReportInv, IndexInv

LEMMA ReportKept == ReportInv /\ [AnalysisNext]_analysis => ReportInv'
<1> SUFFICES ASSUME ReportInv, [AnalysisNext]_analysis PROVE ReportInv'
  OBVIOUS
<1>1. CASE WalkOn
  <2>1. UNCHANGED <<code, symbols, reporting>>
    BY <1>1 DEF WalkOn
  <2>2. PausedInv'
    BY <2>1 DEF symbols, indexing, walking, reporting, ReportInv, PausedInv, Built, AllRead,
       ModuleRead
  <2> QED
    BY <2>1, <2>2, IndexRests
<1>2. CASE StartReferences
  <2>1. /\ report = "walk" /\ Build(Reached) /\ report' = "references"
    BY <1>2 DEF StartReferences
  <2>2. Built /\ walk = "idle" /\ Reached \in SUBSET Files
    BY <2>1 DEF ReportInv, PausedInv, Reached
  <2> QED
    BY <2>1, <2>2, BuildKeeps
<1>3. CASE IndexOn
  <2>1. report \in {"references", "testimony"} /\ IndexNext /\ UNCHANGED reporting
    BY <1>3 DEF IndexOn
  <2>2. Inv' /\ IndexInv'
    BY <2>1, IndexKept DEF ReportInv
  <2>3. PausedInv'
    BY <2>1 DEF reporting, PausedInv
  <2>4. code' = code
    BY <2>1 DEF IndexNext, Take, Merge, RecordCached, AskSources, Ask, RecordAnswer, Resume,
       Walk, ClimbUp, Turn, ClimbDown, Answer
  <2> QED
    BY <2>2, <2>3, <2>4 DEF ReportInv
<1>4. CASE ReferencesRead \/ TestimonyRead
  <2>1. Built /\ UNCHANGED <<code, symbols>> /\ report' \in {"evidence", "api"}
    BY <1>4 DEF ReferencesRead, TestimonyRead
  <2>2. walk = "idle"
    BY <2>1 DEF ReportInv, IndexInv, AskedFor, Reading, Built, AllRead
  <2>3. PausedInv'
    BY <2>1, <2>2 DEF symbols, indexing, walking, PausedInv, Built, AllRead, ModuleRead
  <2> QED
    BY <2>1, <2>3, IndexRests
<1>5. CASE Seek \/ ReportSymbols
  <2>1. /\ UNCHANGED <<code, symbols>> /\ report \in {"evidence", "api"}
        /\ report' \in {"evidence", "reported"}
    BY <1>5 DEF Seek, ReportSymbols
  <2>2. PausedInv'
    BY <2>1 DEF symbols, indexing, walking, ReportInv, PausedInv, Built, AllRead, ModuleRead
  <2> QED
    BY <2>1, <2>2, IndexRests
<1>6. CASE StartTestimony
  <2>1. /\ report = "evidence" /\ Build(Witnesses) /\ report' = "testimony"
    BY <1>6 DEF StartTestimony
  <2>2. Built /\ walk = "idle"
    BY <2>1 DEF ReportInv, PausedInv
  <2>3. Witnesses \in SUBSET Files
    BY DEF Witnesses, PublicModule, ReportInv, IsAnalysed, IsCode
  <2> QED
    BY <2>1, <2>2, <2>3, BuildKeeps
<1>7. CASE UNCHANGED analysis
  <2>1. UNCHANGED <<code, symbols, reporting>>
    BY <1>7 DEF analysis
  <2>2. PausedInv'
    BY <2>1 DEF symbols, indexing, walking, reporting, ReportInv, PausedInv, Built, AllRead,
       ModuleRead
  <2> QED
    BY <2>1, <2>2, IndexRests
<1> QED
  BY <1>1, <1>2, <1>3, <1>4, <1>5, <1>6, <1>7 DEF AnalysisNext, Reported

THEOREM ReportInvariant == AnalysisSpec => []ReportInv
BY ReportStarts, ReportKept, PTL DEF AnalysisSpec

(* Whoever reads which module, whatever a worker has cached and in         *)
(* whatever order the indexes are united, a name counts as referenced      *)
(* exactly if a module uses it, through any chain of star imports and also *)
(* where its own module was not read (ReferenceIndex::build, lookup).      *)
THEOREM ReferencesCorrect == AnalysisSpec => [](SourcesExact /\ ReferencesExact)
<1>1. ReportInv => SourcesExact /\ ReferencesExact
  BY FilesAssumption, IndexIsExact DEF ReportInv, Inv
<1> QED
  BY <1>1, ReportInvariant, PTL
-----------------------------------------------------------------------------
(* What is read in addition. A chain of star imports from a module that is *)
(* read passes through modules that are read only, so none is lost when    *)
(* more is read.                                                           *)
LEMMA ReadMore ==
  ASSUME NEW c, NEW R, NEW T, R \subseteq T, NEW m \in R, NEW name
  PROVE  /\ m \in ParsedIn(c, R) <=> m \in ParsedIn(c, T)
         /\ TargetsIn(c, R, m) = TargetsIn(c, T, m)
         /\ HandsOnIn(c, R, m, name) <=> HandsOnIn(c, T, m, name)
         /\ ShadowsIn(c, R, m, name) <=> ShadowsIn(c, T, m, name)
BY DEF ParsedIn, TargetsIn, HandsOnIn, ShadowsIn

LEMMA GetsMore ==
  ASSUME NEW c, NEW R, NEW T, R \subseteq T, T \subseteq Files, NEW g \in Files, NEW m \in R,
         NEW name, GetsIn(c, R, g, m, name)
  PROVE  GetsIn(c, T, g, m, name)
<1> SUFFICES ASSUME NEW S \in SUBSET Files,
                    \A p \in Files : CarriesIn(c, T, m, p, name) => p \in S,
                    IsClosedIn(c, T, S, name)
             PROVE  g \in S
  BY DEF GetsIn
<1>1. ASSUME NEW h \in R, NEW p \in Files, CarriesIn(c, R, h, p, name)
      PROVE  p \in R /\ CarriesIn(c, T, h, p, name)
  <2>1. p \in R
    BY <1>1 DEF CarriesIn, TargetsIn, ParsedIn
  <2> QED
    BY <1>1, <2>1, ReadMore DEF CarriesIn
<1>2. \A p \in Files : CarriesIn(c, R, m, p, name) => p \in S \cap R
  BY <1>1
<1>3. IsClosedIn(c, R, S \cap R, name)
  BY <1>1 DEF IsClosedIn
<1>4. g \in S \cap R
  BY <1>2, <1>3 DEF GetsIn
<1> QED
  BY <1>4

LEMMA UsesMore ==
  ASSUME NEW c, IsAnalysed(c), NEW R, NEW T, R \subseteq T, T \subseteq Files,
         NEW m \in Files, NEW s \in Symbols, s[1] \in R, UsesIn(c, R, m, s)
  PROVE  UsesIn(c, T, m, s)
<1>1. PICK i \in DOMAIN c.uses[m] :
         LET u == c.uses[m][i]
         IN  \/ u = s
             \/ u[2] = s[2] /\ MayBindIn(c, R, s) /\ GetsIn(c, R, u[1], s[1], s[2])
  BY DEF UsesIn
<1>2. c.uses[m][i] \in Symbols
  BY DEF IsAnalysed, IsReferences
<1>3. c.uses[m][i][1] \in Files
  BY <1>2 DEF Symbols
<1>4. MayBindIn(c, R, s) => MayBindIn(c, T, s)
  BY ReadMore DEF MayBindIn
<1>5. GetsIn(c, R, c.uses[m][i][1], s[1], s[2]) => GetsIn(c, T, c.uses[m][i][1], s[1], s[2])
  BY <1>3, GetsMore
<1> QED
  BY <1>1, <1>4, <1>5 DEF UsesIn

LEMMA MetMore ==
  ASSUME IsFiniteSet(Files), NEW c, NEW R, NEW T, R \subseteq T, T \subseteq Files, NEW m \in R,
         NEW name, NEW shadow, NEW p \in MetIn(c, R, m, name, shadow)
  PROVE  p \in MetIn(c, T, m, name, shadow)
<1>1. m \in Files
  OBVIOUS
<1>2. PICK H : /\ IsLeastClimb(c, R, H, m, name, shadow)
               /\ MetIn(c, R, m, name, shadow) = Above(c, R, H, name, shadow)
  BY <1>1, MetFacts
<1>3. PICK G : /\ IsLeastClimb(c, T, G, m, name, shadow)
               /\ MetIn(c, T, m, name, shadow) = Above(c, T, G, name, shadow)
  BY <1>1, MetFacts
<1>4. ASSUME NEW h \in R, NEW q \in Files, PassesIn(c, R, h, q, name, shadow)
      PROVE  /\ q \in R /\ PassesIn(c, T, h, q, name, shadow)
             /\ HandsOnIn(c, R, q, name) <=> HandsOnIn(c, T, q, name)
  <2>1. q \in R
    BY <1>4 DEF PassesIn, TargetsIn, ParsedIn
  <2> QED
    BY <1>4, <2>1, ReadMore DEF PassesIn
<1>5. IsClimb(c, R, G \cap R, m, name, shadow)
  <2>1. HandsOnIn(c, R, m, name) => m \in G
    BY <1>3, ReadMore DEF IsLeastClimb, IsClimb
  <2>2. \A h \in G \cap R : \A q \in Files :
           PassesIn(c, R, h, q, name, shadow) /\ HandsOnIn(c, R, q, name) => q \in G \cap R
    BY <1>3, <1>4 DEF IsLeastClimb, IsClimb
  <2> QED
    BY <2>1, <2>2 DEF IsClimb
<1>6. H \subseteq G \cap R
  BY <1>2, <1>5 DEF IsLeastClimb
<1>7. p \in Files /\ \E h \in H : PassesIn(c, R, h, p, name, shadow)
  BY <1>2 DEF Above
<1> QED
  BY <1>3, <1>4, <1>6, <1>7 DEF Above

(* Following imports. A set D of files that is closed under the import     *)
(* sites holds every module of a chain of star imports into one of its     *)
(* own, so the chain is there too when D is read, but for what the symbol's*)
(* own module hands on.                                                    *)
IsFollowedUp(p, D) == \A f \in D : \A i \in FollowedSites(p, f) : p.sites[f][i].to \in D

LEMMA GetsTraced ==
  ASSUME NEW p, NEW c, Imports(p, c), NEW V, V \subseteq Files, NEW D, D \subseteq Files,
         IsFollowedUp(p, D), NEW g \in D, NEW m \in Files, NEW name,
         GetsIn(c, V, g, m, name), m \in V \/ HandsOnIn(c, D, m, name)
  PROVE  GetsIn(c, D, g, m, name)
<1> SUFFICES ASSUME NEW S \in SUBSET Files,
                    \A q \in Files : CarriesIn(c, D, m, q, name) => q \in S,
                    IsClosedIn(c, D, S, name)
             PROVE  g \in S
  BY DEF GetsIn
<1>1. ASSUME NEW h \in Files, NEW q \in D, CarriesIn(c, V, h, q, name),
             h \in V \/ HandsOnIn(c, D, h, name)
      PROVE  h \in D /\ CarriesIn(c, D, h, q, name)
  <2>1. q \in V /\ q \in c.named /\ h \in c.stars[q] /\ h # q
    BY <1>1 DEF CarriesIn, TargetsIn, ParsedIn
  <2>2. \E i \in FollowedSites(p, q) : p.sites[q][i].to = h
    BY <2>1 DEF Imports
  <2>3. h \in D
    BY <2>2 DEF IsFollowedUp
  <2>4. /\ TargetsIn(c, V, q) = TargetsIn(c, D, q)
        /\ ShadowsIn(c, V, q, name) <=> ShadowsIn(c, D, q, name)
    BY <2>1 DEF TargetsIn, ParsedIn, ShadowsIn
  <2>5. h \in V => (HandsOnIn(c, V, h, name) <=> HandsOnIn(c, D, h, name))
    BY <2>3 DEF HandsOnIn, ParsedIn
  <2> QED
    BY <1>1, <2>3, <2>4, <2>5 DEF CarriesIn
<1> DEFINE U == {q \in V : q \in D => q \in S}
<1>2. \A h, q : CarriesIn(c, V, h, q, name) => q \in V
  BY DEF CarriesIn, TargetsIn, ParsedIn
<1>3. \A q \in Files : CarriesIn(c, V, m, q, name) => q \in U
  BY <1>1, <1>2
<1>4. IsClosedIn(c, V, U, name)
  <2> SUFFICES ASSUME NEW h \in U, NEW q \in Files, CarriesIn(c, V, h, q, name), q \in D
               PROVE  q \in S
    BY <1>2 DEF IsClosedIn
  <2> QED
    BY <1>1 DEF IsClosedIn
<1>5. U \in SUBSET Files
  OBVIOUS
<1> HIDE DEF U
<1>6. g \in U
  BY <1>3, <1>4, <1>5 DEF GetsIn
<1> QED
  BY <1>6 DEF U

LEMMA UsesTraced ==
  ASSUME NEW p, NEW c, IsAnalysed(c), Imports(p, c), NEW V, V \subseteq Files,
         NEW D, D \subseteq Files, IsFollowedUp(p, D), NEW m \in D, NEW s \in Symbols,
         s[2] \in c.defines[s[1]], UsesIn(c, V, m, s),
         s[1] \in V \/ HandsOnIn(c, D, s[1], s[2])
  PROVE  UsesIn(c, D, m, s)
<1>1. PICK i \in DOMAIN c.uses[m] :
         LET u == c.uses[m][i]
         IN  \/ u = s
             \/ u[2] = s[2] /\ MayBindIn(c, V, s) /\ GetsIn(c, V, u[1], s[1], s[2])
  BY DEF UsesIn
<1>2. c.uses[m][i] \in Symbols /\ s[1] \in Files
  BY DEF IsAnalysed, IsReferences, Symbols
<1>3. c.uses[m][i][1] \in Files
  BY <1>2 DEF Symbols
<1>4. MayBindIn(c, D, s)
  BY <1>2 DEF MayBindIn, IsAnalysed
<1>5. c.uses[m][i][1] \in D
  <2>1. CASE c.uses[m][i][1] = m
    BY <2>1
  <2>2. CASE c.uses[m][i][1] # m
    <3>1. \E j \in FollowedSites(p, m) : p.sites[m][j].to = c.uses[m][i][1]
      BY <1>3, <2>2 DEF Imports
    <3> QED
      BY <3>1 DEF IsFollowedUp
  <2> QED
    BY <2>1, <2>2
<1>6. GetsIn(c, V, c.uses[m][i][1], s[1], s[2]) => GetsIn(c, D, c.uses[m][i][1], s[1], s[2])
  BY <1>2, <1>5, GetsTraced
<1> QED
  BY <1>1, <1>4, <1>6 DEF UsesIn
-----------------------------------------------------------------------------
(* The indexes AnalysisReport compares are this one over other files.      *)
LEMMA UsesByDefault ==
  ASSUME NEW m, NEW s
  PROVE  Default!Uses(m, s) <=> UsesIn(code, DefaultReached, m, s)
<1>1. \A g, h, name : Default!Gets(g, h, name) <=> GetsIn(code, DefaultReached, g, h, name)
  BY DEF Default!Gets, GetsIn, Default!ClosedUnder, IsClosedIn, Default!Carries, CarriesIn,
     Default!Targets, TargetsIn, Default!Parsed, ParsedIn, Default!Shadows, ShadowsIn,
     Default!HandsOn, HandsOnIn
<1> QED
  BY <1>1 DEF Default!Uses, UsesIn, Default!MayBind, MayBindIn, Default!Parsed, ParsedIn

LEMMA HandsOnByDefault ==
  ASSUME NEW m, NEW name
  PROVE  Default!HandsOn(m, name) <=> HandsOnIn(code, DefaultReached, m, name)
BY DEF Default!HandsOn, HandsOnIn, Default!Parsed, ParsedIn

LEMMA UsesHeard ==
  ASSUME NEW m, NEW s
  PROVE  Heard!Uses(m, s) <=> UsesIn(code, Vouching, m, s)
<1>1. \A g, h, name : Heard!Gets(g, h, name) <=> GetsIn(code, Vouching, g, h, name)
  BY DEF Heard!Gets, GetsIn, Heard!ClosedUnder, IsClosedIn, Heard!Carries, CarriesIn,
     Heard!Targets, TargetsIn, Heard!Parsed, ParsedIn, Heard!Shadows, ShadowsIn,
     Heard!HandsOn, HandsOnIn
<1> QED
  BY <1>1 DEF Heard!Uses, UsesIn, Heard!MayBind, MayBindIn, Heard!Parsed, ParsedIn

LEMMA MetByApi ==
  ASSUME NEW m, NEW name, NEW shadow
  PROVE  Api!Met(m, name, shadow) = MetIn(code, Surface, m, name, shadow)
BY DEF Api!Met, MetIn, PassesIn, ClimbsIn, Api!Targets, TargetsIn, Api!Parsed, ParsedIn,
   Api!Shadows, ShadowsIn, Api!HandsOn, HandsOnIn, Api!Cardinality, Cardinality

DefaultSurface == DefaultReached \cap code.surface

LEMMA MetByDefaultApi ==
  ASSUME NEW m, NEW name, NEW shadow
  PROVE  DefaultApi!Met(m, name, shadow) = MetIn(code, DefaultSurface, m, name, shadow)
BY DEF DefaultApi!Met, MetIn, PassesIn, ClimbsIn, DefaultApi!Targets, TargetsIn,
   DefaultApi!Parsed, ParsedIn, DefaultApi!Shadows, ShadowsIn, DefaultApi!HandsOn, HandsOnIn,
   DefaultSurface, DefaultApi!Cardinality, Cardinality

(* A default run reaches more, and what it reaches is followed up.         *)
LEMMA ReachedByDefault ==
  ASSUME IsProject(project)
  PROVE  /\ Reached \subseteq DefaultReached /\ DefaultReached \subseteq Files
         /\ IsFollowedUp(project, DefaultReached)
<1>1. Reached \subseteq Files
  BY DEF Reached
<1>2. Reached \subseteq DefaultReached /\ DefaultReached \subseteq Files
  BY <1>1 DEF DefaultReached
<1>3. ASSUME NEW f \in DefaultReached, NEW i \in FollowedSites(project, f),
             NEW S \in SUBSET Files, Reached \cup code.rooted \subseteq S,
             \A g \in S : \A j \in FollowedSites(project, g) : project.sites[g][j].to \in S
      PROVE  project.sites[f][i].to \in S
  BY <1>3 DEF DefaultReached
<1>4. \A f \in Files : \A i \in FollowedSites(project, f) : project.sites[f][i].to \in Files
  BY SiteTarget
<1> QED
  BY <1>2, <1>3, <1>4 DEF IsFollowedUp, DefaultReached

LEMMA StarReachedMore ==
  ASSUME IsProject(project)
  PROVE  StarReached \subseteq DefaultStarReached
<1> SUFFICES ASSUME NEW s \in StarReached PROVE s \in DefaultStarReached
  OBVIOUS
<1>1. /\ s \in (Surface \cap code.named) \X Names /\ s[2] \in code.defines[s[1]]
      /\ \E p \in Api!Met(s[1], s[2], FALSE) : PublicModule(p)
  BY DEF StarReached, Api!Parsed
<1>2. PICK p \in Api!Met(s[1], s[2], FALSE) : PublicModule(p)
  BY <1>1
<1>3. Surface \subseteq DefaultSurface /\ DefaultSurface \subseteq Files
  BY ReachedByDefault DEF Surface, DefaultSurface
<1>4. \A sh : p \in MetIn(code, Surface, s[1], s[2], sh)
              => p \in MetIn(code, DefaultSurface, s[1], s[2], sh)
  BY <1>1, <1>3, FilesAssumption, MetMore
<1>5. p \in MetIn(code, Surface, s[1], s[2], FALSE)
  <2>1. \A sh : Api!Met(s[1], s[2], sh) = MetIn(code, Surface, s[1], s[2], sh)
    BY MetByApi
  <2> QED
    BY <1>2, <2>1
<1>6. p \in DefaultApi!Met(s[1], s[2], FALSE)
  <2>1. \A sh : DefaultApi!Met(s[1], s[2], sh) = MetIn(code, DefaultSurface, s[1], s[2], sh)
    BY MetByDefaultApi
  <2>2. p \in MetIn(code, DefaultSurface, s[1], s[2], FALSE)
    BY ONLY <1>4, <1>5
  <2> QED
    BY <2>1, <2>2
<1> QED
  BY <1>1, <1>2, <1>3, <1>6 DEF DefaultStarReached, DefaultApi!Parsed, DefaultSurface
-----------------------------------------------------------------------------
(* The report. What an index of the files of R says of a symbol.           *)
IsKnown(lookup, c, R) ==
    \A s \in c.named \X Names :
        /\ lookup[s] = "external" <=> \E m \in R \ {s[1]} : UsesIn(c, R, m, s)
        /\ lookup[s] = "absent" <=> \A m \in R : ~UsesIn(c, R, m, s)

UnusedExportsIn(c, files, external, reaching, vouched) ==
    {s \in (files \cap c.named) \X Names :
        LET listed_by_all == s[2] \in c.all[s[1]].names
            is_public == s[1] \in c.named \ c.private
        IN  /\ s[2] \in c.defines[s[1]]
            /\ s \notin c.outside \cup external
            /\ ~(listed_by_all /\ s[1] \in c.wheels)
            /\ IF s[1] \in c.library \ c.unshipped
               THEN /\ s[2] \notin c.inside[s[1]]
                    /\ ~ \/ listed_by_all
                         \/ s[1] \in c.inits /\ is_public
                         \/ s \in reaching
                         \/ is_public /\ s \in vouched
               ELSE s[2] \in c.inside[s[1]] => listed_by_all}

UnusedReexportsIn(c, files, referenced) ==
    {s \in (files \cap c.inits) \X Names :
        LET declared == s[2] \in c.declared[s[1]]
            is_public == s[1] \in c.named \ c.private
        IN  /\ s[2] \in c.reexports[s[1]] \ c.inside[s[1]]
            /\ s \notin c.outside \cup referenced
            /\ ~(s[1] \in c.library /\ (declared \/ is_public))
            /\ ~(declared /\ s[1] \in c.wheels)}

StarReachedIn(c, R) ==
    {s \in ParsedIn(c, R) \X Names :
        /\ s[2] \in c.defines[s[1]]
        /\ \E p \in MetIn(c, R, s[1], s[2], FALSE) : p \in c.named \ c.private}

LEMMA ReportsHere ==
  /\ \A files, external, reaching, vouched :
        UnusedExports(files, external, reaching, vouched)
            = UnusedExportsIn(code, files, external, reaching, vouched)
  /\ \A files, referenced :
        UnusedReexports(files, referenced) = UnusedReexportsIn(code, files, referenced)
  /\ StarReached = StarReachedIn(code, Surface)
  /\ DefaultStarReached = StarReachedIn(code, DefaultSurface)
<1>1. \A files, external, reaching, vouched :
        UnusedExports(files, external, reaching, vouched)
            = UnusedExportsIn(code, files, external, reaching, vouched)
  BY DEF UnusedExports, UnusedExportsIn, Exports, InAll, PublicModule
<1>2. \A files, referenced :
        UnusedReexports(files, referenced) = UnusedReexportsIn(code, files, referenced)
  BY DEF UnusedReexports, UnusedReexportsIn, PublicModule
<1>3. StarReached = StarReachedIn(code, Surface)
  <2>1. \A m, name : Api!Met(m, name, FALSE) = MetIn(code, Surface, m, name, FALSE)
    <3>1. \A m, name, sh : Api!Met(m, name, sh) = MetIn(code, Surface, m, name, sh)
      BY MetByApi
    <3> QED
      BY ONLY <3>1
  <2> QED
    BY <2>1 DEF StarReached, StarReachedIn, Api!Parsed, ParsedIn, PublicModule
<1>4. DefaultStarReached = StarReachedIn(code, DefaultSurface)
  <2>1. \A m, name : DefaultApi!Met(m, name, FALSE) = MetIn(code, DefaultSurface, m, name, FALSE)
    <3>1. \A m, name, sh :
             DefaultApi!Met(m, name, sh) = MetIn(code, DefaultSurface, m, name, sh)
      BY MetByDefaultApi
    <3> QED
      BY ONLY <3>1
  <2> QED
    BY <2>1 DEF DefaultStarReached, StarReachedIn, DefaultApi!Parsed, ParsedIn, PublicModule,
       DefaultSurface
<1> QED
  BY <1>1, <1>2, <1>3, <1>4

(* What reached_from_tests has found is led to by tests, and what it has   *)
(* no longer in its queue leads on to nothing else.                        *)
EvidenceInv ==
    LET known == code.tests \cup found
    IN  /\ known \subseteq Files /\ seeking \subseteq known
        /\ \A f \in known \ seeking : ImportedFiles(f) \ Reached \subseteq known
        /\ \A S \in SUBSET Files :
              (\A g \in code.tests \cup S : ImportedFiles(g) \ Reached \subseteq S)
              => found \subseteq S

HeardInv ==
    /\ report = "references" => read = Reached
    /\ report \in {"walk", "references"} => testimony = Nothing /\ found = {}
    /\ report \in {"evidence", "testimony", "api", "reported"} =>
          IsKnown(references, code, Reached)
    /\ report = "evidence" => EvidenceInv
    /\ report = "testimony" => read = Vouching
    /\ report \in {"evidence", "testimony"} => ReadsTests
    /\ report \in {"api", "reported"} =>
          IF ReadsTests THEN IsKnown(testimony, code, Vouching) ELSE testimony = Nothing
    /\ report = "reported" =>
          /\ unused_exports =
                UnusedExportsIn(code, Surface, WithMark({"external"}, references),
                                StarReachedIn(code, Surface), WithMark({"external"}, testimony))
          /\ unused_reexports =
                UnusedReexportsIn(code, Surface, WithMark({"own", "external"}, references))
-----------------------------------------------------------------------------
AnalysisInv == ReportInv /\ ClassInv /\ Imports(project, code) /\ HeardInv

(* Once the walk is over, what was reached is settled.                     *)
LEMMA SettledStays ==
  ASSUME UNCHANGED vars, UNCHANGED code
  PROVE  /\ Reached' = Reached /\ Vouching' = Vouching /\ Surface' = Surface
         /\ ReadsTests' = ReadsTests
         /\ \A f : ImportedFiles(f)' = ImportedFiles(f)
<1>1. class' = class /\ project' = project
  BY DEF vars
<1>2. Reached' = Reached
  BY <1>1 DEF Reached
<1>3. \A f : ImportedFiles(f)' = ImportedFiles(f)
  BY <1>1 DEF ImportedFiles
<1>4. Vouching' = Vouching
  BY <1>1, <1>2, <1>3 DEF Vouching, PublicModule
<1> QED
  BY <1>2, <1>3, <1>4 DEF Surface, ReadsTests

LEMMA HeardRests ==
  ASSUME HeardInv, UNCHANGED <<vars, code, reporting>>, read' = read
  PROVE  HeardInv'
<1>1. /\ Reached' = Reached /\ Vouching' = Vouching /\ Surface' = Surface
      /\ ReadsTests' = ReadsTests
      /\ \A f : ImportedFiles(f)' = ImportedFiles(f)
  BY SettledStays
<1>2. code' = code /\ UNCHANGED reporting
  OBVIOUS
<1>3. EvidenceInv => EvidenceInv'
  BY <1>1, <1>2 DEF EvidenceInv, reporting
<1> QED
  BY <1>1, <1>2, <1>3 DEF HeardInv, reporting

(* A built index is what it says of the files it was built from.           *)
LEMMA LookedUpIsKnown ==
  ASSUME ReportInv, Built
  PROVE  IsKnown(LookedUp, code, read)
<1>1. ReferencesExact
  BY FilesAssumption, IndexIsExact DEF ReportInv
<1>2. \A s \in code.named \X Names : LookedUp[s] = Lookup(s)
  BY DEF LookedUp, Symbols, ReportInv, IsAnalysed, IsCode
<1>3. \A m, s : Uses(m, s) <=> UsesIn(code, read, m, s)
  BY UsesHere
<1> QED
  BY <1>1, <1>2, <1>3 DEF ReferencesExact, IsKnown

LEMMA ImportsAreFiles ==
  ASSUME IsProject(project), NEW f \in Files
  PROVE  ImportedFiles(f) \subseteq Files
<1> SUFFICES ASSUME NEW i \in DOMAIN project.sites[f], project.sites[f][i].kind = "import"
             PROVE  project.sites[f][i].to \in Files
  BY DEF ImportedFiles
<1>1. i \in FollowedSites(project, f)
  BY DEF IsProject, FollowedSites, IsFileSite
<1> QED
  BY <1>1, SiteTarget

LEMMA SeekKeeps ==
  ASSUME AnalysisInv, Seek
  PROVE  HeardInv'
<1>1. /\ report = "evidence" /\ UNCHANGED <<vars, code, symbols, report, references, testimony>>
      /\ UNCHANGED <<unused_exports, unused_reexports>>
  BY DEF Seek
<1>2. /\ Reached' = Reached /\ Vouching' = Vouching /\ ReadsTests' = ReadsTests
      /\ \A f : ImportedFiles(f)' = ImportedFiles(f)
  BY <1>1, SettledStays
<1>3. EvidenceInv
  BY <1>1 DEF AnalysisInv, HeardInv
<1>4. PICK f \in seeking :
         LET new == ImportedFiles(f) \ (Reached \cup code.tests \cup found)
         IN  found' = found \cup new /\ seeking' = (seeking \ {f}) \cup new
  BY DEF Seek
<1>5. EvidenceInv'
  <2> DEFINE known == code.tests \cup found
             new == ImportedFiles(f) \ (Reached \cup code.tests \cup found)
             known1 == known \cup new
  <2>1. /\ known \subseteq Files /\ seeking \subseteq known
        /\ \A g \in known \ seeking : ImportedFiles(g) \ Reached \subseteq known
        /\ \A S \in SUBSET Files :
              (\A g \in code.tests \cup S : ImportedFiles(g) \ Reached \subseteq S)
              => found \subseteq S
    BY <1>3 DEF EvidenceInv
  <2>2. found' = found \cup new /\ seeking' = (seeking \ {f}) \cup new /\ f \in known
    BY <1>4, <2>1
  <2>3. new \subseteq Files
    BY <2>1, <2>2, ImportsAreFiles DEF AnalysisInv, ClassInv, TypeOK
  <2>4. \A g \in known1 \ ((seeking \ {f}) \cup new) : ImportedFiles(g) \ Reached \subseteq known1
    BY <2>1
  <2>5. ASSUME NEW S \in SUBSET Files,
               \A g \in code.tests \cup S : ImportedFiles(g) \ Reached \subseteq S
        PROVE  found \cup new \subseteq S
    BY <2>1, <2>2, <2>5
  <2>6. code.tests \cup (found \cup new) = known1
    OBVIOUS
  <2> HIDE DEF known, new, known1
  <2>7. known1 \subseteq Files /\ (seeking \ {f}) \cup new \subseteq known1
    BY <2>1, <2>3 DEF known1
  <2> QED
    BY <1>1, <1>2, <2>2, <2>4, <2>5, <2>6, <2>7 DEF EvidenceInv
<1> QED
  BY <1>1, <1>2, <1>5 DEF AnalysisInv, HeardInv

(* When the queue is empty, all that tests lead to has been found.         *)
LEMMA FoundAll ==
  ASSUME EvidenceInv, seeking = {}
  PROVE  Witnesses = Vouching
<1> DEFINE known == code.tests \cup found
           led == {f \in Files : \A S \in SUBSET Files :
                     (\A g \in code.tests \cup S : ImportedFiles(g) \ Reached \subseteq S)
                     => f \in S}
<1>1. /\ known \subseteq Files
      /\ \A f \in known : ImportedFiles(f) \ Reached \subseteq known
      /\ \A S \in SUBSET Files :
            (\A g \in code.tests \cup S : ImportedFiles(g) \ Reached \subseteq S)
            => found \subseteq S
  BY DEF EvidenceInv
<1>2. found \subseteq led
  BY <1>1
<1>3. code.tests \cup known = known
  OBVIOUS
<1>4. led \subseteq known
  BY <1>1, <1>3
<1>5. Vouching = code.tests \cup {f \in led : PublicModule(f)}
  BY DEF Vouching
<1>6. Witnesses = code.tests \cup {f \in found : PublicModule(f)}
  BY DEF Witnesses
<1> HIDE DEF led
<1> QED
  BY <1>2, <1>4, <1>5, <1>6
-----------------------------------------------------------------------------
LEMMA NothingHeard == ASSUME AnalysisInit PROVE HeardInv
BY DEF AnalysisInit, HeardInv

LEMMA StartReferencesKeeps ==
  ASSUME AnalysisInv, StartReferences
  PROVE  HeardInv'
<1>1. /\ report = "walk" /\ report' = "references" /\ read' = Reached
      /\ UNCHANGED <<vars, code, references, seeking, found, testimony>>
  BY DEF StartReferences, Build
<1>2. Reached' = Reached
  BY <1>1, SettledStays
<1> QED
  BY <1>1, <1>2 DEF AnalysisInv, HeardInv, Nothing

LEMMA ReferencesReadKeeps ==
  ASSUME AnalysisInv, ReferencesRead
  PROVE  HeardInv'
<1>1. /\ report = "references" /\ Built /\ references' = LookedUp
      /\ UNCHANGED <<vars, code, found, testimony>>
      /\ IF ReadsTests THEN report' = "evidence" /\ seeking' = code.tests ELSE report' = "api"
  BY DEF ReferencesRead
<1>2. /\ Reached' = Reached /\ ReadsTests' = ReadsTests
      /\ \A f : ImportedFiles(f)' = ImportedFiles(f)
  BY <1>1, SettledStays
<1>3. IsKnown(references', code, Reached)
  BY <1>1, LookedUpIsKnown DEF AnalysisInv, HeardInv
<1>4. testimony = Nothing /\ found = {}
  BY <1>1 DEF AnalysisInv, HeardInv
<1>5. Nothing' = Nothing
  BY DEF Nothing
<1>6. CASE ReadsTests
  <2>1. code.tests \subseteq Files
    BY DEF AnalysisInv, ReportInv, IsAnalysed
  <2>2. EvidenceInv'
    BY <1>1, <1>4, <1>6, <2>1 DEF EvidenceInv
  <2> QED
    BY <1>1, <1>2, <1>3, <1>6, <2>2 DEF HeardInv
<1>7. CASE ~ReadsTests
  BY <1>1, <1>2, <1>3, <1>4, <1>5, <1>7 DEF HeardInv
<1> QED
  BY <1>6, <1>7

LEMMA StartTestimonyKeeps ==
  ASSUME AnalysisInv, StartTestimony
  PROVE  HeardInv'
<1>1. /\ report = "evidence" /\ report' = "testimony" /\ seeking = {} /\ read' = Witnesses
      /\ UNCHANGED <<vars, code, references, testimony>>
  BY DEF StartTestimony, Build
<1>2. Reached' = Reached /\ Vouching' = Vouching /\ ReadsTests' = ReadsTests
  BY <1>1, SettledStays
<1>3. read' = Vouching
  BY <1>1, FoundAll DEF AnalysisInv, HeardInv
<1> QED
  BY <1>1, <1>2, <1>3 DEF AnalysisInv, HeardInv

LEMMA TestimonyReadKeeps ==
  ASSUME AnalysisInv, TestimonyRead
  PROVE  HeardInv'
<1>1. /\ report = "testimony" /\ report' = "api" /\ Built /\ testimony' = LookedUp
      /\ UNCHANGED <<vars, code, references>>
  BY DEF TestimonyRead
<1>2. Reached' = Reached /\ Vouching' = Vouching /\ ReadsTests' = ReadsTests
  BY <1>1, SettledStays
<1>3. IsKnown(testimony', code, Vouching)
  BY <1>1, LookedUpIsKnown DEF AnalysisInv, HeardInv
<1> QED
  BY <1>1, <1>2, <1>3 DEF AnalysisInv, HeardInv

LEMMA ReportSymbolsKeeps ==
  ASSUME AnalysisInv, ReportSymbols
  PROVE  HeardInv'
<1>1. /\ report = "api" /\ report' = "reported" /\ UNCHANGED <<vars, code, references, testimony>>
      /\ unused_exports' =
            UnusedExports(Surface, WithMark({"external"}, references), StarReached,
                          WithMark({"external"}, testimony))
      /\ unused_reexports' = UnusedReexports(Surface, WithMark({"own", "external"}, references))
  BY DEF ReportSymbols
<1>2. /\ unused_exports' =
            UnusedExportsIn(code, Surface, WithMark({"external"}, references),
                            StarReachedIn(code, Surface), WithMark({"external"}, testimony))
      /\ unused_reexports' =
            UnusedReexportsIn(code, Surface, WithMark({"own", "external"}, references))
  BY <1>1, ReportsHere
<1>3. /\ Reached' = Reached /\ Vouching' = Vouching /\ ReadsTests' = ReadsTests
      /\ Surface' = Surface
  BY <1>1, SettledStays
<1>4. Nothing' = Nothing
  BY DEF Nothing
<1> QED
  BY <1>1, <1>2, <1>3, <1>4 DEF AnalysisInv, HeardInv

LEMMA AnalysisStarts == AnalysisInit => AnalysisInv
<1> SUFFICES ASSUME AnalysisInit PROVE AnalysisInv
  OBVIOUS
<1>1. Init /\ code \in CodesOf(project) /\ project \in Projects
  BY DEF AnalysisInit, Init
<1> QED
  BY <1>1, ReportStarts, ClassInvInit, NothingHeard, CodesOfAssumption DEF AnalysisInv

LEMMA AnalysisKept == AnalysisInv /\ [AnalysisNext]_analysis => AnalysisInv'
<1> SUFFICES ASSUME AnalysisInv, [AnalysisNext]_analysis PROVE AnalysisInv'
  OBVIOUS
<1>1. [Next]_vars /\ UNCHANGED code
  BY WalksOn
<1>2. project' = project
  BY <1>1 DEF vars, Next, SeedRoot, SeedPluginRef, SeedFramework, Skip, Follow, RecordImport,
     RecordUse, FileFollowed, NextLoop, Terminated
<1>3. Imports(project, code)'
  BY <1>1, <1>2 DEF AnalysisInv
<1>4. ReportInv' /\ ClassInv'
  BY <1>1, ReportKept, ClassInvNext DEF AnalysisInv
<1>5. HeardInv'
  <2>1. CASE WalkOn
    <3>1. report = "walk" /\ UNCHANGED <<code, reporting>>
      BY <2>1 DEF WalkOn
    <3> QED
      BY <3>1 DEF AnalysisInv, HeardInv, reporting, Nothing
  <2>2. CASE IndexOn
    <3>1. UNCHANGED <<vars, code, reporting>> /\ read' = read
      BY <2>2, IndexReadsOn DEF IndexOn
    <3> QED
      BY <3>1, HeardRests DEF AnalysisInv
  <2>3. CASE UNCHANGED analysis
    <3>1. UNCHANGED <<vars, code, reporting>> /\ read' = read
      BY <2>3 DEF analysis, symbols
    <3> QED
      BY <3>1, HeardRests DEF AnalysisInv
  <2> QED
    BY <2>1, <2>2, <2>3, StartReferencesKeeps, ReferencesReadKeeps, SeekKeeps,
       StartTestimonyKeeps, TestimonyReadKeeps, ReportSymbolsKeeps DEF AnalysisNext, Reported
<1> QED
  BY <1>3, <1>4, <1>5 DEF AnalysisInv

THEOREM AnalysisInvariant == AnalysisSpec => []AnalysisInv
BY AnalysisStarts, AnalysisKept, PTL DEF AnalysisSpec

-----------------------------------------------------------------------------
(* What is said of a reached file's symbol is said in a default run.       *)
LEMMA ReferencedByDefault ==
  ASSUME AnalysisInv, report = "reported", NEW s \in code.named \X Names, s[1] \in Reached
  PROVE  /\ s \in WithMark({"external"}, references)
               => \E m \in DefaultReached \ {s[1]} : Default!Uses(m, s)
         /\ s \in WithMark({"own", "external"}, references)
               => \E m \in DefaultReached : Default!Uses(m, s)
<1>1. IsAnalysed(code) /\ IsProject(project) /\ IsKnown(references, code, Reached)
  BY DEF AnalysisInv, ReportInv, ClassInv, TypeOK, HeardInv
<1>2. Reached \subseteq DefaultReached /\ DefaultReached \subseteq Files
  BY <1>1, ReachedByDefault
<1>3. s \in Symbols
  BY <1>1 DEF IsAnalysed, IsCode, Symbols
<1>4. \A m \in Reached : UsesIn(code, Reached, m, s) => m \in DefaultReached /\ Default!Uses(m, s)
  BY <1>1, <1>2, <1>3, UsesMore, UsesByDefault
<1>5. /\ s \in WithMark({"external"}, references)
            => \E m \in Reached \ {s[1]} : UsesIn(code, Reached, m, s)
      /\ s \in WithMark({"own", "external"}, references)
            => \E m \in Reached : UsesIn(code, Reached, m, s)
  BY <1>1 DEF IsKnown, WithMark
<1> QED
  BY <1>4, <1>5

LEMMA TestimonyByDefault ==
  ASSUME AnalysisInv, report = "reported", NEW s \in code.named \X Names,
         s[2] \in code.defines[s[1]], s \in WithMark({"external"}, testimony)
  PROVE  \/ \E m \in DefaultReached \ {s[1]} : Default!Uses(m, s)
         \/ \E m \in Vouching \ DefaultReached : Heard!Uses(m, s)
         \/ s[1] \notin Vouching /\ ~Default!HandsOn(s[1], s[2])
<1>1. IsAnalysed(code) /\ IsProject(project) /\ Imports(project, code)
  BY DEF AnalysisInv, ReportInv, ClassInv, TypeOK
<1>2. DefaultReached \subseteq Files /\ IsFollowedUp(project, DefaultReached)
  BY <1>1, ReachedByDefault
<1>3. s \in Symbols /\ Vouching \subseteq Files
  BY <1>1 DEF IsAnalysed, IsCode, Symbols, Vouching
<1>4. IsKnown(testimony, code, Vouching)
  BY <1>3 DEF AnalysisInv, HeardInv, WithMark, Nothing
<1>5. PICK m \in Vouching \ {s[1]} : UsesIn(code, Vouching, m, s)
  BY <1>4 DEF IsKnown, WithMark
<1>6. CASE m \notin DefaultReached
  BY <1>5, <1>6, UsesHeard
<1>7. CASE m \in DefaultReached /\ (s[1] \in Vouching \/ HandsOnIn(code, DefaultReached, s[1], s[2]))
  <2>1. UsesIn(code, DefaultReached, m, s)
    BY <1>1, <1>2, <1>3, <1>5, <1>7, UsesTraced
  <2> QED
    BY <1>5, <1>7, <2>1, UsesByDefault
<1> QED
  BY <1>6, <1>7, HandsOnByDefault

LEMMA LostIsVouchedFor == AnalysisInv => ProductionReportsMost
<1> SUFFICES ASSUME AnalysisInv, report = "reported", NEW s \in Lost
             PROVE  \/ \E m \in Vouching \ DefaultReached : Heard!Uses(m, s)
                    \/ s[1] \notin Vouching /\ ~Default!HandsOn(s[1], s[2])
  BY DEF ProductionReportsMost
<1>1. IsAnalysed(code) /\ IsProject(project)
  BY DEF AnalysisInv, ReportInv, ClassInv, TypeOK
<1>2. StarReachedIn(code, Surface) \subseteq StarReachedIn(code, DefaultSurface)
  BY <1>1, StarReachedMore, ReportsHere
<1> DEFINE external == {t \in Symbols : \E m \in DefaultReached \ {t[1]} : Default!Uses(m, t)}
           referenced == {t \in Symbols : \E m \in DefaultReached : Default!Uses(m, t)}
<1>3. CASE s \in DefaultUnusedExports \ unused_exports /\ s[1] \in Reached
  <2>1. /\ s \in UnusedExportsIn(code, DefaultSurface, external,
                                 StarReachedIn(code, DefaultSurface), {})
        /\ s \notin UnusedExportsIn(code, Surface, WithMark({"external"}, references),
                                    StarReachedIn(code, Surface),
                                    WithMark({"external"}, testimony))
    BY <1>3, ReportsHere DEF DefaultUnusedExports, DefaultSurface, AnalysisInv, HeardInv
  <2>2. /\ s \in code.named \X Names /\ s[1] \in code.surface
        /\ s[2] \in code.defines[s[1]] /\ s \notin external
    BY <2>1 DEF UnusedExportsIn, DefaultSurface
  <2>3. s \in Symbols
    BY <1>1, <2>2 DEF IsAnalysed, IsCode, Symbols
  <2>4. s \notin WithMark({"external"}, references)
    BY <1>3, <2>2, <2>3, ReferencedByDefault
  <2> HIDE DEF external
  <2>5. s \in WithMark({"external"}, testimony)
    BY <1>2, <1>3, <2>1, <2>2, <2>4 DEF UnusedExportsIn, Surface
  <2> QED
    BY <2>2, <2>3, <2>5, TestimonyByDefault DEF external
<1>4. CASE s \in DefaultUnusedReexports \ unused_reexports /\ s[1] \in Reached
  <2>1. /\ s \in UnusedReexportsIn(code, DefaultSurface, referenced)
        /\ s \notin UnusedReexportsIn(code, Surface, WithMark({"own", "external"}, references))
    BY <1>4, ReportsHere DEF DefaultUnusedReexports, DefaultSurface, AnalysisInv, HeardInv
  <2>2. s \in code.inits \X Names /\ s[1] \in code.surface /\ s \notin referenced
    BY <2>1 DEF UnusedReexportsIn, DefaultSurface
  <2>3. s \in code.named \X Names /\ s \in Symbols
    BY <1>1, <2>2 DEF IsAnalysed, IsCode, Symbols
  <2>4. s \notin WithMark({"own", "external"}, references)
    BY <1>4, <2>2, <2>3, ReferencedByDefault
  <2> HIDE DEF referenced
  <2> QED
    BY <1>4, <2>1, <2>2, <2>4 DEF UnusedReexportsIn, Surface
<1> QED
  BY <1>3, <1>4 DEF Lost

(* Whatever the code: a name that a default run reports in a reached file  *)
(* and --production does not is vouched for by a test, or by a module only *)
(* tests lead to, that no root of a default run reaches, or its own module *)
(* is not read with the testimony (production_witnesses, PublicApi).       *)
THEOREM ProductionReportsMostCorrect == AnalysisSpec => []ProductionReportsMost
BY AnalysisInvariant, LostIsVouchedFor, PTL
=============================================================================
