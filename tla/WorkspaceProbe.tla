--------------------------- MODULE WorkspaceProbe ---------------------------
(***************************************************************************)
(* The probe of a workspace (src/pipeline/probe.rs): while one thread      *)
(* walks the root, workers take the members in turn, read the              *)
(* configuration and the manifest of each and walk it, and nothing stops   *)
(* them early.  Which error is reported must not depend on who is first.   *)
(* With --production the members are dropped that only dev dependencies    *)
(* pull in.                                                                *)
(***************************************************************************)
EXTENDS SourceWalk

CONSTANTS
  Root,       \* the root of the project
  Parallelism, \* threads the machine has for the members
  Projects,   \* the projects that are probed, see project
  Manifests   \* what the manifests may say of the members, see manifests

ASSUME RootAssumption == Root \in Walks /\ Parallelism \in Nat \ {0}

(* The root has been read when the probe begins; a panic is of a thread.   *)
ASSUME ProjectsAssumption ==
  \A p \in Projects :
    /\ p.members \in Seq(Walks) /\ p.production \in BOOLEAN
    /\ AreIgnoreFiles(p.disk) /\ IsListing(p.listing) /\ p.edits \in 0 .. MaxEdits
    /\ p.fault \in [Walks -> {"none", "gone", "config", "manifest", "glob", "panic"}]
    /\ p.fault[Root] \in {"none", "glob", "panic"}
    /\ \A d \in Walks : p.fault[d] = "panic" =>
          d = Root \/ \E i \in 1 .. Len(p.members) : p.members[i] = d

VARIABLES
  project,    \* members, in order; faults of the members and the root;
              \* whether it is --production; its ignore files, listing, edits
  rootAt,     \* where the thread of the root is
  cursor,     \* the position of the next member to be taken
  worker,     \* of each worker, where it is and with which member
  result,     \* of each member: "none", "gone", "ok" or "error"
  report,     \* what the probe returns
  inputs,     \* the members that are analysed (workspace_inputs)
  manifests,  \* of the root and the members: names, the names their runtime
              \* and their dev dependencies use, and who is published
  pending,    \* manifests whose references are still to be followed
  shipped,    \* members the root needs at runtime
  devReferenced, \* members a dev dependency names
  files       \* the files of the root walk that are left

threadVars == <<project, rootAt, cursor, worker, result, report>>
dropVars == <<inputs, manifests, pending, shipped, devReferenced, files>>
probeVars == <<walkVars, threadVars, dropVars>>

Members == project.members
NoReport == [is |-> "none", of |-> Root]
NoManifests == [uses |-> << >>]

(* Threads are for members; there is always one.                           *)
Spawned ==
  IF Members = << >> THEN 1
  ELSE IF Len(Members) < Parallelism THEN Len(Members) ELSE Parallelism
Workers == DOMAIN worker

Init ==
  /\ project \in Projects
  /\ disk = project.disk /\ listing = project.listing /\ edits = project.edits
  /\ NothingRead
  /\ rootAt = "start" /\ cursor = 1
  /\ worker = [v \in 1 .. Spawned |-> [at |-> "claim", index |-> 0]]
  /\ result = [i \in 1 .. Len(Members) |-> "none"]
  /\ report = NoReport
  /\ inputs = << >> /\ manifests = NoManifests
  /\ pending = {} /\ shipped = {} /\ devReferenced = {} /\ files = {}

----------------------------------------------------------------------------
(* The thread of the root: discover_sources_cached, whose globs are        *)
(* compiled before it walks.                                               *)
StartRoot ==
  /\ rootAt = "start"
  /\ \/ project.fault[Root] = "glob" /\ rootAt' = "error" /\ UNCHANGED walkVars
     \/ project.fault[Root] = "panic" /\ rootAt' = "panicked" /\ UNCHANGED walkVars
     \/ project.fault[Root] = "none" /\ rootAt' = "walking" /\ Begin(Root)
  /\ UNCHANGED <<project, cursor, worker, result, report, dropVars>>

EndRoot ==
  /\ rootAt = "walking" /\ walk[Root].at = "done"
  /\ rootAt' = "ok"
  /\ UNCHANGED <<project, cursor, worker, result, report, dropVars, walkVars>>

unthreaded == <<project, rootAt, report, dropVars>>

Claim(v) ==
  /\ worker[v].at = "claim"
  /\ cursor' = cursor + 1
  /\ worker' = [worker EXCEPT ![v] =
                  [at |-> IF cursor <= Len(Members) THEN "config" ELSE "ended", index |-> cursor]]
  /\ UNCHANGED <<result, walkVars, unthreaded>>

Mine(v) == Members[worker[v].index]
Fault(v) == project.fault[Mine(v)]

Ended(v, as) ==
  /\ result' = [result EXCEPT ![worker[v].index] = as]
  /\ worker' = [worker EXCEPT ![v].at = "claim"]

(* member_inputs: the directory, the configuration, the manifest and the   *)
(* globs can each end it.                                                  *)
ReadConfig(v) ==
  /\ worker[v].at = "config"
  /\ \/ Fault(v) = "gone" /\ Ended(v, "gone")
     \/ Fault(v) = "config" /\ Ended(v, "error")
     \/ /\ Fault(v) \notin {"gone", "config"}
        /\ worker' = [worker EXCEPT ![v].at = "extract"] /\ UNCHANGED result
  /\ UNCHANGED <<cursor, walkVars, unthreaded>>

ExtractManifest(v) ==
  /\ worker[v].at = "extract"
  /\ \/ Fault(v) = "manifest" /\ Ended(v, "error")
     \/ /\ Fault(v) = "panic"
        /\ worker' = [worker EXCEPT ![v].at = "panicked"] /\ UNCHANGED result
     \/ /\ Fault(v) \notin {"manifest", "panic"}
        /\ worker' = [worker EXCEPT ![v].at = "globs"] /\ UNCHANGED result
  /\ UNCHANGED <<cursor, walkVars, unthreaded>>

StartMember(v) ==
  /\ worker[v].at = "globs"
  /\ \/ Fault(v) = "glob" /\ Ended(v, "error") /\ UNCHANGED walkVars
     \/ /\ Fault(v) # "glob" /\ Begin(Mine(v))
        /\ worker' = [worker EXCEPT ![v].at = "walking"] /\ UNCHANGED result
  /\ UNCHANGED <<cursor, unthreaded>>

EndMember(v) ==
  /\ worker[v].at = "walking" /\ walk[Mine(v)].at = "done"
  /\ Ended(v, "ok")
  /\ UNCHANGED <<cursor, walkVars, unthreaded>>

Elements(s) == {s[i] : i \in 1 .. Len(s)}

AllEnded ==
  /\ rootAt \in {"ok", "error", "panicked"}
  /\ \A v \in Workers : worker[v].at \in {"ended", "panicked"}

Panicked == rootAt = "panicked" \/ \E v \in Workers : worker[v].at = "panicked"
Failed == {i \in 1 .. Len(Members) : result[i] = "error"}
First(set) == CHOOSE i \in set : \A j \in set : i <= j

Reports(is, of) == [is |-> is, of |-> of]
Success == Reports(IF project.production THEN "dropping" ELSE "ok", Root)

(* Mutant: an error of a member comes before an error of the root.         *)
MembersFirst ==
  IF Panicked THEN Reports("panic", Root)
  ELSE IF Failed # {} THEN Reports("error", Members[First(Failed)])
  ELSE IF rootAt = "error" THEN Reports("error", Root)
  ELSE Success

(* Threads are joined, panics resumed; then `(sources?, inputs?)`.         *)
Joined ==
  IF Panicked THEN Reports("panic", Root)
  ELSE IF rootAt = "error" THEN Reports("error", Root)
  ELSE IF Failed # {} THEN Reports("error", Members[First(Failed)])
  ELSE Success

Only(members, set) == SelectSeq(members, LAMBDA m : m \in set)
InOrder(positions) == Only(Members, {Members[i] : i \in positions})
Collected == {e \in Entries : walk[Root].seen[e] = "kept" /\ Kind[e] = "file"}

(* discover_root_and_members returns.  What the manifests say of the       *)
(* members matters from here on, so it is chosen here.                     *)
Return ==
  /\ report = NoReport /\ AllEnded
  /\ report' = Joined
  /\ IF Joined = Success
     THEN inputs' = InOrder({i \in 1 .. Len(Members) : result[i] = "ok"}) /\ files' = Collected
     ELSE UNCHANGED <<inputs, files>>
  /\ IF Joined.is = "dropping"
     THEN manifests' \in Manifests /\ pending' = {Root}
     ELSE UNCHANGED <<manifests, pending>>
  /\ UNCHANGED <<project, rootAt, cursor, worker, result, shipped, devReferenced, walkVars>>

----------------------------------------------------------------------------
(* drop_dev_only_members.  Of two members of one name the last is meant.   *)
Inputs == {inputs[i] : i \in 1 .. Len(inputs)}
Named(name, all) ==
  {all[i] : i \in {j \in 1 .. Len(all) :
      /\ manifests.name[all[j]] = name
      /\ \A k \in j + 1 .. Len(all) : manifests.name[all[k]] # name}}
NamedBy(m, how, all) == UNION {Named(name, all) : name \in manifests[how][m]}
Uses(m, how) == NamedBy(m, how, inputs)

(* Mutant: the members a member refers to are not followed further.        *)
FollowRoot(m) ==
  /\ m \in pending
  /\ shipped' = shipped \cup Uses(m, "runtime")
  /\ devReferenced' = devReferenced \cup Uses(m, "dev")
  /\ pending' = pending \ {m}
  /\ UNCHANGED <<walkVars, threadVars, inputs, manifests, files>>

Follow(m) ==
  /\ m \in pending
  /\ shipped' = shipped \cup Uses(m, "runtime")
  /\ devReferenced' = devReferenced \cup Uses(m, "dev")
  /\ pending' = (pending \ {m}) \cup (Uses(m, "runtime") \ shipped)
  /\ UNCHANGED <<walkVars, threadVars, inputs, manifests, files>>

DevOnly == (devReferenced \ shipped) \ manifests.published

(* A file belongs to its innermost member.                                 *)
Stays(e) ==
  \A m \in Inputs :
     /\ IsUnder(Parent[e], m)
     /\ \A n \in Inputs : IsUnder(Parent[e], n) => IsUnder(m, n)
     => m \notin DevOnly

Without(members, set) == Only(members, Elements(members) \ set)

Drop ==
  /\ report.is = "dropping" /\ pending = {}
  /\ report' = Reports("ok", Root)
  /\ inputs' = Without(inputs, DevOnly)
  /\ files' = {e \in files : Stays(e)}
  /\ UNCHANGED <<walkVars, project, rootAt, cursor, worker, result, manifests, pending, shipped,
                 devReferenced>>

----------------------------------------------------------------------------
Thread ==
  \/ StartRoot \/ EndRoot \/ Return \/ Drop
  \/ \E v \in Workers : Claim(v) \/ ReadConfig(v) \/ ExtractManifest(v) \/ StartMember(v)
                          \/ EndMember(v)
  \/ \E m \in pending : Follow(m)

Walking ==
  /\ \/ \E w \in Walks : WalkStep(w)
     \/ report = NoReport /\ \E d \in Dirs : EditIgnore(d)
  /\ UNCHANGED <<threadVars, dropVars>>

Done == report.is \notin {"none", "dropping"} /\ UNCHANGED probeVars

Next == Thread \/ Walking \/ Done

Spec == Init /\ [][Next]_probeVars

----------------------------------------------------------------------------
TypeOK ==
  /\ WalkTypeOK
  /\ rootAt \in {"start", "walking", "ok", "error", "panicked"}
  /\ cursor \in 1 .. Len(Members) + Parallelism + 1
  /\ \A v \in Workers :
        worker[v].at \in {"claim", "config", "extract", "globs", "walking", "ended", "panicked"}
  /\ report.is \in {"none", "ok", "dropping", "error", "panic"}
  /\ shipped \cup devReferenced \subseteq Walks /\ files \subseteq Entries

(* A probe of the root first and of the members after it, one by one.      *)
Breaks(d) == project.fault[d] \in {"config", "manifest", "glob"}
Positions(set) == {i \in 1 .. Len(Members) : project.fault[Members[i]] \in set}
Found == InOrder(Positions({"none"}))

Sequential ==
  IF \E d \in Walks : project.fault[d] = "panic" THEN Reports("panic", Root)
  ELSE IF Breaks(Root) THEN Reports("error", Root)
  ELSE IF \E i \in 1 .. Len(Members) : Breaks(Members[i])
       THEN Reports("error", Members[First(Positions({"config", "manifest", "glob"}))])
  ELSE Reports("ok", Root)

(* Whichever thread is first, the probe returns what a probe without       *)
(* threads returns: the error of the root, else of the first member that   *)
(* has one, else the members that exist, in their order.                   *)
ReportIsSequential ==
  report.is # "none" =>
     /\ report \in {Sequential, IF Sequential.is = "ok" THEN Success ELSE Sequential}
     /\ report.is = "ok" /\ ~ project.production => inputs = Found

(* What the root ships: the least set of members that holds what the root  *)
(* and its members need at runtime.                                        *)
Ships(m) ==
  \A set \in SUBSET Elements(Found) :
     (\A n \in set \cup {Root} : NamedBy(n, "runtime", Found) \subseteq set) => m \in set
Dropped ==
  {m \in Elements(Found) :
     /\ ~ Ships(m) /\ m \notin manifests.published
     /\ \E n \in Elements(Found) \cup {Root} :
           (n = Root \/ Ships(n)) /\ m \in NamedBy(n, "dev", Found)}
Innermost(e) ==
  {m \in Elements(Found) : IsUnder(Parent[e], m) /\
     \A n \in Elements(Found) : IsUnder(Parent[e], n) => IsUnder(m, n)}

(* "Runtime references count only from the root and the members it ships", *)
(* "an unreferenced member stays, and so does one published on its own",   *)
(* "a shipped member nested in a dropped one keeps its files" (probe.rs    *)
(* 475 and 521): --production analyses what is left, and all of it.        *)
ProductionKeepsShipped ==
  report.is = "ok" /\ project.production =>
     /\ inputs = Without(Found, Dropped)
     /\ files = {e \in Collected : Innermost(e) \cap Dropped = {}}
=============================================================================
