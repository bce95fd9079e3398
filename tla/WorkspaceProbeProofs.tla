------------------------ MODULE WorkspaceProbeProofs ------------------------
(***************************************************************************)
(* The probe of WorkspaceProbe returns what a probe without threads does,  *)
(* --production drops the members it should, and the walks that share what *)
(* they read of the ignore files do what git does, for any number of       *)
(* threads and members, any tree, any faults, any ignore files and any     *)
(* manifests.                                                              *)
(*                                                                         *)
(* Threads: every member below the cursor has a result or is with exactly  *)
(* one worker, and a result follows from the fault of the member alone.    *)
(* When the threads are joined nobody has a member, so all have a result.  *)
(*                                                                         *)
(* Members: what is shipped is needed by the root, and what a shipped      *)
(* member needs is shipped, or the member is still to be followed.         *)
(*                                                                         *)
(* Walks: the directories a walk is in lead down from its root, and it has *)
(* read those around it by the time it meets an entry.  The stack of its   *)
(* filter, however it came about, then holds what the cache says of the    *)
(* directories from the root of the walk to the parent of the entry, and   *)
(* going through them as gitignore_skips does decides as git does.  What   *)
(* is read is never read again, so the verdict stands.                     *)
(***************************************************************************)
EXTENDS WorkspaceProbe, WellFoundedInduction, TLAPS

Faults == {"none", "gone", "config", "manifest", "glob", "panic"}

AtMember == {"config", "extract", "globs", "walking", "panicked"}

(* The faults of a member that a worker may find at each step.             *)
Remaining(at) ==
  CASE at = "config"   -> Faults
    [] at = "extract"  -> {"none", "manifest", "glob", "panic"}
    [] at = "globs"    -> {"none", "glob"}
    [] at = "walking"  -> {"none"}
    [] at = "panicked" -> {"panic"}

FaultOf(i) == project.fault[Members[i]]
Indexes == 1 .. Len(Members)

(* The faults that lead to a result.                                       *)
Leading(as) ==
  CASE as = "gone"  -> {"gone"}
    [] as = "ok"    -> {"none"}
    [] as = "error" -> {"config", "manifest", "glob"}
    [] as = "none"  -> Faults

RootInv ==
  /\ rootAt \in {"start", "walking", "ok", "error", "panicked"}
  /\ rootAt \in {"walking", "ok"} => project.fault[Root] = "none"
  /\ rootAt = "error" => project.fault[Root] = "glob"
  /\ rootAt = "panicked" => project.fault[Root] = "panic"

WorkersInv ==
  /\ project \in Projects
  /\ cursor \in Nat \ {0}
  /\ worker \in [1 .. Spawned -> [at : AtMember \cup {"claim", "ended"}, index : Nat]]
  /\ result \in [Indexes -> {"none", "gone", "ok", "error"}]
  /\ \A v \in 1 .. Spawned :
        /\ worker[v].at \in AtMember =>
              /\ worker[v].index \in Indexes /\ worker[v].index < cursor
              /\ result[worker[v].index] = "none"
              /\ FaultOf(worker[v].index) \in Remaining(worker[v].at)
        /\ worker[v].at = "ended" => Len(Members) < cursor

(* A member below the cursor has a result, or is with one worker.          *)
MembersInv ==
  /\ \A v, u \in 1 .. Spawned :
        worker[v].at \in AtMember /\ worker[u].at \in AtMember
        /\ worker[v].index = worker[u].index => v = u
  /\ \A i \in Indexes :
        /\ FaultOf(i) \in Leading(result[i])
        /\ cursor <= i => result[i] = "none"
        /\ i < cursor /\ result[i] = "none" =>
              \E v \in 1 .. Spawned : worker[v].at \in AtMember /\ worker[v].index = i

ThreadInv == RootInv /\ WorkersInv /\ MembersInv

(* What a walk that is over has seen stays.                                *)
RootWalkInv == DOMAIN walk = Walks /\ (rootAt = "ok" => walk[Root].at = "done")

(* What the members that are followed have led to.                         *)
RuntimeOf(m) == NamedBy(m, "runtime", Found)
DevOf(m) == NamedBy(m, "dev", Found)
Reached == {Root} \cup shipped

FollowInv ==
  /\ pending \subseteq Reached /\ shipped \subseteq Elements(Found)
  /\ \A m \in shipped : Ships(m)
  /\ \A m \in Reached \ pending : RuntimeOf(m) \subseteq shipped /\ DevOf(m) \subseteq devReferenced
  /\ \A d \in devReferenced : \E n \in Reached : d \in DevOf(n)

(* The probe has not returned, or its outcome is one of four.              *)
Working == report = NoReport /\ pending = {} /\ shipped = {} /\ devReferenced = {}
Broken == report = Sequential /\ report.is \in {"error", "panic"} /\ pending = {}
Analysed ==
  /\ report = Reports("ok", Root) /\ Sequential = Reports("ok", Root) /\ ~ project.production
  /\ inputs = Found /\ pending = {}
Dropping ==
  /\ report = Reports("dropping", Root) /\ report = Success
  /\ Sequential = Reports("ok", Root) /\ project.production
  /\ rootAt = "ok" /\ inputs = Found /\ files = Collected /\ FollowInv
Settled ==
  /\ report = Reports("ok", Root) /\ Sequential = Reports("ok", Root) /\ project.production
  /\ rootAt = "ok" /\ pending = {}
  /\ inputs = Without(Found, Dropped)
  /\ files = {e \in Collected : Innermost(e) \cap Dropped = {}}

ProbeInv ==
  /\ ThreadInv /\ RootWalkInv
  /\ Working \/ Broken \/ Analysed \/ Dropping \/ Settled

-----------------------------------------------------------------------------
LEMMA ProjectFacts ==
  ASSUME project \in Projects
  PROVE  /\ Members \in Seq(Walks) /\ Len(Members) \in Nat
         /\ project.fault \in [Walks -> Faults]
         /\ project.fault[Root] \in {"none", "glob", "panic"}
         /\ \A i \in Indexes : Members[i] \in Walks /\ FaultOf(i) \in Faults
         /\ Spawned \in Nat \ {0}
<1>1. Members \in Seq(Walks) /\ Len(Members) \in Nat
  BY ProjectsAssumption DEF Members
<1>2. \A i \in Indexes : Members[i] \in Walks
  BY <1>1 DEF Indexes
<1>3. project.fault \in [Walks -> Faults] /\ project.fault[Root] \in {"none", "glob", "panic"}
  BY ProjectsAssumption DEF Faults
<1>4. Spawned \in Nat \ {0}
  <2>1. CASE Members = << >>
    BY <2>1 DEF Spawned
  <2>2. CASE Members # << >>
    <3>1. Len(Members) \in Nat \ {0}
      BY <1>1, <2>2
    <3> QED
      BY <3>1, <2>2, RootAssumption DEF Spawned
  <2> QED
    BY <2>1, <2>2
<1> QED
  BY <1>1, <1>2, <1>3, <1>4 DEF FaultOf

(* Only the threads matter to ThreadInv.                                   *)
LEMMA ThreadStutter ==
  ASSUME ThreadInv, UNCHANGED <<project, rootAt, cursor, worker, result>>
  PROVE  ThreadInv'
BY DEF ThreadInv, RootInv, WorkersInv, MembersInv, FaultOf, Indexes, Members, Spawned

LEMMA InitThreads == ASSUME Init PROVE ThreadInv
<1>1. project \in Projects /\ rootAt = "start" /\ cursor = 1
      /\ worker = [v \in 1 .. Spawned |-> [at |-> "claim", index |-> 0]]
      /\ result = [i \in 1 .. Len(Members) |-> "none"]
  BY DEF Init, NothingRead
<1>2. WorkersInv
  BY <1>1, ProjectFacts DEF WorkersInv, Indexes, AtMember
<1>3. MembersInv
  <2>1. \A i \in Indexes : result[i] = "none" /\ ~ (i < cursor) /\ FaultOf(i) \in Faults
    BY <1>1, ProjectFacts DEF Indexes
  <2>2. \A v \in 1 .. Spawned : worker[v].at = "claim"
    BY <1>1
  <2> QED
    BY <2>1, <2>2 DEF MembersInv, Leading, AtMember
<1> QED
  BY <1>1, <1>2, <1>3 DEF ThreadInv, RootInv

-----------------------------------------------------------------------------
(* A worker takes the next step with its member.                           *)
LEMMA WorkerMoves ==
  ASSUME ThreadInv, UNCHANGED <<project, rootAt, cursor, result>>,
         NEW v \in 1 .. Spawned, worker[v].at \in AtMember,
         NEW at \in AtMember, worker' = [worker EXCEPT ![v].at = at],
         FaultOf(worker[v].index) \in Remaining(at)
  PROVE  ThreadInv'
<1>1. /\ worker'[v].at = at /\ worker'[v].index = worker[v].index
      /\ \A u \in 1 .. Spawned : u # v => worker'[u] = worker[u]
      /\ worker' \in [1 .. Spawned -> [at : AtMember \cup {"claim", "ended"}, index : Nat]]
  BY DEF ThreadInv, WorkersInv
<1>2. UNCHANGED <<Spawned, Indexes, Members>> /\ \A i : FaultOf(i)' = FaultOf(i)
  BY DEF Spawned, Indexes, FaultOf, Members
<1>3. RootInv'
  BY DEF ThreadInv, RootInv
<1>4. WorkersInv'
  <2>1. ASSUME NEW u \in 1 .. Spawned
        PROVE  /\ worker'[u].at \in AtMember =>
                     /\ worker'[u].index \in Indexes /\ worker'[u].index < cursor
                     /\ result[worker'[u].index] = "none"
                     /\ FaultOf(worker'[u].index) \in Remaining(worker'[u].at)
               /\ worker'[u].at = "ended" => Len(Members) < cursor
    <3>1. CASE u = v
      BY <1>1, <3>1 DEF ThreadInv, WorkersInv, AtMember
    <3>2. CASE u # v
      BY <1>1, <3>2 DEF ThreadInv, WorkersInv
    <3> QED
      BY <3>1, <3>2
  <2>2. project' \in Projects /\ cursor' \in Nat \ {0} /\ result' \in [Indexes -> {"none", "gone", "ok", "error"}]
    BY DEF ThreadInv, WorkersInv
  <2> QED
    BY <1>1, <1>2, <2>1, <2>2 DEF WorkersInv
<1>5. MembersInv'
  <2>1. \A u \in 1 .. Spawned : /\ worker'[u].at \in AtMember <=> worker[u].at \in AtMember
                                /\ worker'[u].index = worker[u].index
    BY <1>1
  <2> QED
    BY <1>2, <2>1 DEF ThreadInv, MembersInv
<1> QED
  BY <1>3, <1>4, <1>5 DEF ThreadInv

(* A worker is through with its member.                                    *)
LEMMA WorkerEnds ==
  ASSUME ThreadInv, UNCHANGED <<project, rootAt, cursor>>,
         NEW v \in 1 .. Spawned, worker[v].at \in AtMember,
         NEW as \in {"gone", "ok", "error"}, Ended(v, as),
         FaultOf(worker[v].index) \in Leading(as)
  PROVE  ThreadInv'
<1> DEFINE i == worker[v].index
<1>1. /\ worker'[v].at = "claim"
      /\ \A u \in 1 .. Spawned : u # v => worker'[u] = worker[u]
      /\ worker' \in [1 .. Spawned -> [at : AtMember \cup {"claim", "ended"}, index : Nat]]
  BY DEF ThreadInv, WorkersInv, Ended
<1>2. UNCHANGED <<Spawned, Indexes, Members>> /\ \A j : FaultOf(j)' = FaultOf(j)
  BY DEF Spawned, Indexes, FaultOf, Members
<1>3. i \in Indexes /\ i < cursor /\ i \in Nat
  BY DEF ThreadInv, WorkersInv
<1>4. /\ result'[i] = as /\ \A j \in Indexes : j # i => result'[j] = result[j]
      /\ result' \in [Indexes -> {"none", "gone", "ok", "error"}]
  BY <1>3 DEF ThreadInv, WorkersInv, Ended
<1>5. "claim" \notin AtMember
  BY DEF AtMember
<1>6. RootInv'
  BY DEF ThreadInv, RootInv
<1>7. WorkersInv'
  <2>1. ASSUME NEW u \in 1 .. Spawned
        PROVE  /\ worker'[u].at \in AtMember =>
                     /\ worker'[u].index \in Indexes /\ worker'[u].index < cursor
                     /\ result'[worker'[u].index] = "none"
                     /\ FaultOf(worker'[u].index) \in Remaining(worker'[u].at)
               /\ worker'[u].at = "ended" => Len(Members) < cursor
    <3>1. CASE u = v
      BY <1>1, <1>5, <3>1
    <3>2. CASE u # v
      <4>1. worker'[u] = worker[u]
        BY <1>1, <3>2
      <4>2. worker[u].at \in AtMember => worker[u].index # i
        BY <3>2 DEF ThreadInv, MembersInv
      <4> QED
        BY <1>4, <4>1, <4>2 DEF ThreadInv, WorkersInv
    <3> QED
      BY <3>1, <3>2
  <2>2. project' \in Projects /\ cursor' \in Nat \ {0}
    BY DEF ThreadInv, WorkersInv
  <2> QED
    BY <1>1, <1>2, <1>4, <2>1, <2>2 DEF WorkersInv
<1>8. MembersInv'
  <2>1. \A u, t \in 1 .. Spawned :
           worker'[u].at \in AtMember /\ worker'[t].at \in AtMember
           /\ worker'[u].index = worker'[t].index => u = t
    BY <1>1, <1>5 DEF ThreadInv, MembersInv
  <2>2. ASSUME NEW j \in Indexes
        PROVE  /\ FaultOf(j) \in Leading(result'[j])
               /\ cursor <= j => result'[j] = "none"
               /\ j < cursor /\ result'[j] = "none" =>
                     \E u \in 1 .. Spawned : worker'[u].at \in AtMember /\ worker'[u].index = j
    <3>1. CASE j = i
      <4>1. ~ (cursor <= j)
        BY <1>3, <3>1 DEF ThreadInv, WorkersInv
      <4> QED
        BY <1>4, <3>1, <4>1
    <3>2. CASE j # i
      <4>1. FaultOf(j) \in Leading(result'[j]) /\ (cursor <= j => result'[j] = "none")
        BY <1>4, <3>2 DEF ThreadInv, MembersInv
      <4>2. ASSUME j < cursor, result'[j] = "none"
            PROVE  \E u \in 1 .. Spawned : worker'[u].at \in AtMember /\ worker'[u].index = j
        <5>1. PICK u \in 1 .. Spawned : worker[u].at \in AtMember /\ worker[u].index = j
          BY <1>4, <3>2, <4>2 DEF ThreadInv, MembersInv
        <5>2. u # v
          BY <3>2, <5>1
        <5> QED
          BY <1>1, <5>1, <5>2
      <4> QED
        BY <4>1, <4>2
    <3> QED
      BY <3>1, <3>2
  <2> QED
    BY <1>2, <2>1, <2>2 DEF MembersInv
<1> QED
  BY <1>6, <1>7, <1>8 DEF ThreadInv

LEMMA ClaimKeeps ==
  ASSUME ThreadInv, NEW v \in 1 .. Spawned, Claim(v)
  PROVE  ThreadInv'
<1>1. UNCHANGED <<project, rootAt, result>> /\ cursor' = cursor + 1 /\ cursor \in Nat \ {0}
  BY DEF Claim, unthreaded, ThreadInv, WorkersInv
<1>2. UNCHANGED <<Spawned, Indexes, Members>> /\ \A j : FaultOf(j)' = FaultOf(j)
  BY <1>1 DEF Spawned, Indexes, FaultOf, Members
<1>3. Len(Members) \in Nat /\ \A j \in Indexes : j \in Nat
  BY ProjectFacts DEF ThreadInv, WorkersInv, Indexes
<1> DEFINE at == IF cursor <= Len(Members) THEN "config" ELSE "ended"
<1>4. /\ worker'[v] = [at |-> at, index |-> cursor]
      /\ \A u \in 1 .. Spawned : u # v => worker'[u] = worker[u]
      /\ worker' \in [1 .. Spawned -> [at : AtMember \cup {"claim", "ended"}, index : Nat]]
  BY <1>1 DEF Claim, ThreadInv, WorkersInv, AtMember
<1>5. at \in AtMember <=> cursor \in Indexes
  BY <1>1, <1>3 DEF AtMember, Indexes
<1>6. worker[v].at \notin AtMember
  BY DEF Claim, AtMember
<1>7. RootInv'
  BY <1>1 DEF ThreadInv, RootInv
<1>8. WorkersInv'
  <2>1. ASSUME NEW u \in 1 .. Spawned
        PROVE  /\ worker'[u].at \in AtMember =>
                     /\ worker'[u].index \in Indexes /\ worker'[u].index < cursor'
                     /\ result[worker'[u].index] = "none"
                     /\ FaultOf(worker'[u].index) \in Remaining(worker'[u].at)
               /\ worker'[u].at = "ended" => Len(Members) < cursor'
    <3>1. CASE u = v
      <4>1. ASSUME cursor \in Indexes
            PROVE  at = "config" /\ result[cursor] = "none" /\ FaultOf(cursor) \in Remaining("config")
        BY <1>1, <1>3, <4>1, ProjectFacts DEF ThreadInv, WorkersInv, MembersInv, Remaining, Indexes
      <4> QED
        BY <1>1, <1>3, <1>4, <1>5, <3>1, <4>1
    <3>2. CASE u # v
      BY <1>1, <1>3, <1>4, <3>2 DEF ThreadInv, WorkersInv
    <3> QED
      BY <3>1, <3>2
  <2>2. project' \in Projects /\ cursor' \in Nat \ {0} /\ result' \in [Indexes -> {"none", "gone", "ok", "error"}]
    BY <1>1 DEF ThreadInv, WorkersInv
  <2> QED
    BY <1>1, <1>2, <1>4, <2>1, <2>2 DEF WorkersInv
<1>9. MembersInv'
  <2>1. ASSUME NEW u \in 1 .. Spawned, NEW t \in 1 .. Spawned, worker'[u].at \in AtMember,
               worker'[t].at \in AtMember, worker'[u].index = worker'[t].index
        PROVE  u = t
    <3>1. ASSUME NEW z \in 1 .. Spawned, z # v, worker'[z].at \in AtMember
          PROVE  worker'[z].index # cursor
      BY <1>1, <1>4, <3>1 DEF ThreadInv, WorkersInv
    <3> QED
      BY <1>4, <2>1, <3>1 DEF ThreadInv, MembersInv
  <2>2. ASSUME NEW j \in Indexes
        PROVE  /\ FaultOf(j) \in Leading(result[j])
               /\ cursor' <= j => result[j] = "none"
               /\ j < cursor' /\ result[j] = "none" =>
                     \E u \in 1 .. Spawned : worker'[u].at \in AtMember /\ worker'[u].index = j
    <3>1. FaultOf(j) \in Leading(result[j]) /\ (cursor' <= j => result[j] = "none")
      BY <1>1, <1>3 DEF ThreadInv, MembersInv
    <3>2. ASSUME j < cursor', result[j] = "none"
          PROVE  \E u \in 1 .. Spawned : worker'[u].at \in AtMember /\ worker'[u].index = j
      <4>1. CASE j = cursor
        BY <1>4, <1>5, <4>1
      <4>2. CASE j # cursor
        <5>1. j < cursor
          BY <1>1, <1>3, <3>2, <4>2
        <5>2. PICK u \in 1 .. Spawned : worker[u].at \in AtMember /\ worker[u].index = j
          BY <3>2, <5>1 DEF ThreadInv, MembersInv
        <5> QED
          BY <1>4, <1>6, <5>2
      <4> QED
        BY <4>1, <4>2
    <3> QED
      BY <3>1, <3>2
  <2> QED
    BY <1>1, <1>2, <2>1, <2>2 DEF MembersInv
<1> QED
  BY <1>7, <1>8, <1>9 DEF ThreadInv

-----------------------------------------------------------------------------
LEMMA RootKeeps ==
  ASSUME ThreadInv, StartRoot \/ EndRoot
  PROVE  ThreadInv' /\ UNCHANGED <<project, report, dropVars>>
<1>1. UNCHANGED <<project, cursor, worker, result, report, dropVars>>
  BY DEF StartRoot, EndRoot
<1>2. RootInv'
  BY <1>1 DEF StartRoot, EndRoot, ThreadInv, RootInv
<1>3. WorkersInv' /\ MembersInv'
  BY <1>1 DEF ThreadInv, WorkersInv, MembersInv, FaultOf, Indexes, Members, Spawned
<1> QED
  BY <1>1, <1>2, <1>3 DEF ThreadInv

(* What a worker finds of its member.                                      *)
LEMMA MemberFacts ==
  ASSUME ThreadInv, NEW v \in 1 .. Spawned, worker[v].at \in AtMember
  PROVE  /\ Fault(v) = FaultOf(worker[v].index)
         /\ Fault(v) \in Remaining(worker[v].at)
         /\ worker[v].at = "config" => Fault(v) \in Faults
         /\ worker[v].at = "extract" => Fault(v) \in {"none", "manifest", "glob", "panic"}
         /\ worker[v].at = "globs" => Fault(v) \in {"none", "glob"}
         /\ worker[v].at = "walking" => Fault(v) = "none"
BY DEF Fault, Mine, FaultOf, ThreadInv, WorkersInv, Remaining

LEMMA WorkerKeeps ==
  ASSUME ThreadInv, NEW v \in 1 .. Spawned,
         Claim(v) \/ ReadConfig(v) \/ ExtractManifest(v) \/ StartMember(v) \/ EndMember(v)
  PROVE  ThreadInv' /\ UNCHANGED <<project, report, dropVars>>
<1>1. UNCHANGED <<project, rootAt, report, dropVars>>
  BY DEF Claim, ReadConfig, ExtractManifest, StartMember, EndMember, unthreaded
<1>2. CASE Claim(v)
  BY <1>1, <1>2, ClaimKeeps
<1>3. CASE ReadConfig(v)
  <2>1. UNCHANGED cursor /\ worker[v].at = "config" /\ worker[v].at \in AtMember
    BY <1>3 DEF ReadConfig, AtMember
  <2>2. CASE Fault(v) = "gone" /\ Ended(v, "gone")
    BY <1>1, <2>1, <2>2, WorkerEnds, MemberFacts DEF Leading
  <2>3. CASE Fault(v) = "config" /\ Ended(v, "error")
    BY <1>1, <2>1, <2>3, WorkerEnds, MemberFacts DEF Leading
  <2>4. CASE /\ Fault(v) \notin {"gone", "config"}
             /\ worker' = [worker EXCEPT ![v].at = "extract"] /\ UNCHANGED result
    <3>1. Fault(v) \in Remaining("extract") /\ "extract" \in AtMember
      BY <2>1, <2>4, MemberFacts DEF Faults, Remaining, AtMember
    <3> QED
      BY <1>1, <2>1, <2>4, <3>1, WorkerMoves, MemberFacts
  <2> QED
    BY <1>3, <2>2, <2>3, <2>4 DEF ReadConfig
<1>4. CASE ExtractManifest(v)
  <2>1. UNCHANGED cursor /\ worker[v].at = "extract" /\ worker[v].at \in AtMember
    BY <1>4 DEF ExtractManifest, AtMember
  <2>2. CASE Fault(v) = "manifest" /\ Ended(v, "error")
    BY <1>1, <2>1, <2>2, WorkerEnds, MemberFacts DEF Leading
  <2>3. CASE /\ Fault(v) = "panic"
             /\ worker' = [worker EXCEPT ![v].at = "panicked"] /\ UNCHANGED result
    <3>1. Fault(v) \in Remaining("panicked") /\ "panicked" \in AtMember
      BY <2>3 DEF Remaining, AtMember
    <3> QED
      BY <1>1, <2>1, <2>3, <3>1, WorkerMoves, MemberFacts
  <2>4. CASE /\ Fault(v) \notin {"manifest", "panic"}
             /\ worker' = [worker EXCEPT ![v].at = "globs"] /\ UNCHANGED result
    <3>1. Fault(v) \in Remaining("globs") /\ "globs" \in AtMember
      BY <2>1, <2>4, MemberFacts DEF Remaining, AtMember
    <3> QED
      BY <1>1, <2>1, <2>4, <3>1, WorkerMoves, MemberFacts
  <2> QED
    BY <1>4, <2>2, <2>3, <2>4 DEF ExtractManifest
<1>5. CASE StartMember(v)
  <2>1. UNCHANGED cursor /\ worker[v].at = "globs" /\ worker[v].at \in AtMember
    BY <1>5 DEF StartMember, AtMember
  <2>2. CASE Fault(v) = "glob" /\ Ended(v, "error")
    BY <1>1, <2>1, <2>2, WorkerEnds, MemberFacts DEF Leading
  <2>3. CASE /\ Fault(v) # "glob"
             /\ worker' = [worker EXCEPT ![v].at = "walking"] /\ UNCHANGED result
    <3>1. Fault(v) \in Remaining("walking") /\ "walking" \in AtMember
      BY <2>1, <2>3, MemberFacts DEF Remaining, AtMember
    <3> QED
      BY <1>1, <2>1, <2>3, <3>1, WorkerMoves, MemberFacts
  <2> QED
    BY <1>5, <2>2, <2>3 DEF StartMember
<1>6. CASE EndMember(v)
  <2>1. UNCHANGED cursor /\ worker[v].at = "walking" /\ worker[v].at \in AtMember /\ Ended(v, "ok")
    BY <1>6 DEF EndMember, AtMember
  <2> QED
    BY <1>1, <2>1, WorkerEnds, MemberFacts DEF Leading
<1> QED
  BY <1>1, <1>2, <1>3, <1>4, <1>5, <1>6

-----------------------------------------------------------------------------
(* When all threads have ended and none panicked, all members have the     *)
(* result of their fault, and what is returned is what the faults say.     *)
LEMMA AllHaveResults ==
  ASSUME ThreadInv, AllEnded, ~ Panicked
  PROVE  /\ \A i \in Indexes : result[i] # "none" /\ FaultOf(i) # "panic"
         /\ project.fault[Root] # "panic"
<1>1. \A v \in 1 .. Spawned : worker[v].at = "ended"
  BY DEF AllEnded, Panicked, Workers, ThreadInv, WorkersInv
<1>2. 1 \in 1 .. Spawned
  BY ProjectFacts DEF ThreadInv, WorkersInv
<1>3. Len(Members) < cursor /\ cursor \in Nat /\ Len(Members) \in Nat
  BY <1>1, <1>2, ProjectFacts DEF ThreadInv, WorkersInv
<1>4. ASSUME NEW i \in Indexes PROVE result[i] # "none"
  <2>1. i < cursor
    BY <1>3 DEF Indexes
  <2>2. ~ \E v \in 1 .. Spawned : worker[v].at \in AtMember
    BY <1>1 DEF AtMember
  <2> QED
    BY <2>1, <2>2 DEF ThreadInv, MembersInv
<1>5. ASSUME NEW i \in Indexes PROVE FaultOf(i) # "panic"
  <2>1. result[i] \in {"gone", "ok", "error"} /\ FaultOf(i) \in Leading(result[i])
    BY <1>4 DEF ThreadInv, WorkersInv, MembersInv
  <2> QED
    BY <2>1 DEF Leading
<1>6. project.fault[Root] # "panic"
  BY DEF AllEnded, Panicked, ThreadInv, RootInv
<1> QED
  BY <1>4, <1>5, <1>6

LEMMA ResultsAreFaults ==
  ASSUME ThreadInv, AllEnded, ~ Panicked
  PROVE  /\ Failed = Positions({"config", "manifest", "glob"})
         /\ {i \in 1 .. Len(Members) : result[i] = "ok"} = Positions({"none"})
<1>1. ASSUME NEW i \in Indexes
      PROVE  /\ result[i] = "error" <=> FaultOf(i) \in {"config", "manifest", "glob"}
             /\ result[i] = "ok" <=> FaultOf(i) \in {"none"}
  <2>1. result[i] \in {"gone", "ok", "error"} /\ FaultOf(i) \in Leading(result[i])
    BY AllHaveResults DEF ThreadInv, WorkersInv, MembersInv
  <2> QED
    BY <2>1 DEF Leading
<1> QED
  BY <1>1 DEF Failed, Positions, Indexes, FaultOf

LEMMA JoinedIsSequential ==
  ASSUME ThreadInv, AllEnded
  PROVE  Joined = IF Sequential.is = "ok" THEN Success ELSE Sequential
<1>1. Success.is \in {"ok", "dropping"} /\ Reports("ok", Root).is = "ok"
      /\ \A of : Reports("error", of).is = "error" /\ Reports("panic", of).is = "panic"
  BY DEF Success, Reports
<1>2. CASE Panicked
  <2>1. \E d \in Walks : project.fault[d] = "panic"
    <3>1. CASE rootAt = "panicked"
      BY <3>1, RootAssumption DEF ThreadInv, RootInv
    <3>2. ASSUME NEW v \in 1 .. Spawned, worker[v].at = "panicked"
          PROVE  \E d \in Walks : project.fault[d] = "panic"
      <4>1. worker[v].index \in Indexes /\ FaultOf(worker[v].index) \in Remaining("panicked")
        BY <3>2 DEF ThreadInv, WorkersInv, AtMember
      <4>2. FaultOf(worker[v].index) = "panic"
        BY <4>1 DEF Remaining
      <4>3. Members[worker[v].index] \in Walks
        BY <4>1, ProjectFacts DEF ThreadInv, WorkersInv
      <4> QED
        BY <4>2, <4>3 DEF FaultOf
    <3> QED
      BY <1>2, <3>1, <3>2 DEF Panicked, Workers, ThreadInv, WorkersInv
  <2>2. Sequential = Reports("panic", Root)
    BY <2>1 DEF Sequential
  <2> QED
    BY <1>1, <1>2, <2>2 DEF Joined
<1>3. CASE ~ Panicked
  <2>1. ~ \E d \in Walks : project.fault[d] = "panic"
    <3>1. project \in Projects
      BY DEF ThreadInv, WorkersInv
    <3>2. ASSUME NEW d \in Walks, project.fault[d] = "panic"
          PROVE  d = Root \/ \E i \in Indexes : Members[i] = d
      BY <3>1, <3>2, ProjectsAssumption DEF Indexes, Members
    <3> QED
      BY <1>3, <3>2, AllHaveResults DEF FaultOf
  <2>2. rootAt = "error" <=> Breaks(Root)
    <3>1. project.fault[Root] \in {"none", "glob", "panic"}
      BY ProjectFacts DEF ThreadInv, WorkersInv
    <3> QED
      BY <1>3, <3>1 DEF Breaks, AllEnded, Panicked, ThreadInv, RootInv
  <2>3. Failed = Positions({"config", "manifest", "glob"})
    BY <1>3, ResultsAreFaults
  <2>4. Failed # {} <=> \E i \in 1 .. Len(Members) : Breaks(Members[i])
    BY <2>3 DEF Positions, Breaks
  <2>5. Sequential =
          IF rootAt = "error" THEN Reports("error", Root)
          ELSE IF Failed # {} THEN Reports("error", Members[First(Failed)])
          ELSE Reports("ok", Root)
    BY <2>1, <2>2, <2>3, <2>4 DEF Sequential
  <2>6. Joined =
          IF rootAt = "error" THEN Reports("error", Root)
          ELSE IF Failed # {} THEN Reports("error", Members[First(Failed)])
          ELSE Success
    BY <1>3 DEF Joined
  <2> QED
    BY <1>1, <2>5, <2>6
<1> QED
  BY <1>2, <1>3

-----------------------------------------------------------------------------
LEMMA WhatTheProjectSays ==
  ASSUME UNCHANGED project
  PROVE  UNCHANGED <<Members, Found, Sequential, Success>>
<1>1. UNCHANGED <<Members, Success>>
  BY DEF Members, Success
<1>2. UNCHANGED Found
  BY DEF Found, InOrder, Positions, Members
<1>3. UNCHANGED Sequential
  BY <1>1 DEF Sequential, Positions, Breaks, Members, First
<1> QED
  BY <1>1, <1>2, <1>3

LEMMA ReportKinds ==
  /\ NoReport.is = "none"
  /\ \A of : Reports("ok", of).is = "ok" /\ Reports("dropping", of).is = "dropping"
             /\ Reports("error", of).is = "error" /\ Reports("panic", of).is = "panic"
  /\ Success = Reports("ok", Root) \/ Success = Reports("dropping", Root)
  /\ Sequential = Reports("ok", Root) \/ Sequential.is \in {"error", "panic"}
BY DEF NoReport, Reports, Success, Sequential

(* No step of a walk, and no beginning of one, touches a walk that is over. *)
LEMMA DoneWalkRests ==
  ASSUME DOMAIN walk = Walks, walk[Root].at = "done",
         UNCHANGED walk \/ \E w \in Walks : Begin(w) \/ WalkStep(w)
  PROVE  walk'[Root] = walk[Root]
<1>1. Root \in Walks
  BY RootAssumption
<1>2. ASSUME NEW w \in Walks, Begin(w) \/ WalkStep(w)
      PROVE  w # Root /\ \E r : walk' = [walk EXCEPT ![w] = r]
  <2>1. CASE Begin(w)
    BY <2>1 DEF Begin
  <2>2. CASE Lookup(w) \/ Miss(w) \/ Parse(w) \/ Insert(w) \/ Leave(w)
    BY <2>2 DEF Lookup, Miss, Parse, Insert, Leave, Reads
  <2>3. ASSUME NEW e \in Entries, Prune(w, e) \/ Meet(w, e)
        PROVE  w # Root /\ \E r : walk' = [walk EXCEPT ![w] = r]
    BY <2>3 DEF Prune, Meet, AtEntry
  <2> QED
    BY <1>2, <2>1, <2>2, <2>3 DEF WalkStep
<1> QED
  BY <1>1, <1>2

LEMMA WalksKept ==
  ASSUME DOMAIN walk = Walks, UNCHANGED walk \/ \E w \in Walks : Begin(w) \/ WalkStep(w)
  PROVE  DOMAIN walk' = Walks
<1>1. ASSUME NEW w \in Walks, Begin(w) \/ WalkStep(w)
      PROVE  \E r : walk' = [walk EXCEPT ![w] = r]
  <2>1. CASE Begin(w)
    BY <2>1 DEF Begin
  <2>2. CASE Lookup(w) \/ Miss(w) \/ Parse(w) \/ Insert(w) \/ Leave(w)
    BY <2>2 DEF Lookup, Miss, Parse, Insert, Leave
  <2>3. ASSUME NEW e \in Entries, Prune(w, e) \/ Meet(w, e)
        PROVE  \E r : walk' = [walk EXCEPT ![w] = r]
    BY <2>3 DEF Prune, Meet
  <2> QED
    BY <1>1, <2>1, <2>2, <2>3 DEF WalkStep
<1> QED
  BY <1>1

(* What the manifests say follows from the project and the manifests.      *)
LEMMA WhatTheManifestsSay ==
  ASSUME UNCHANGED <<project, manifests>>
  PROVE  /\ \A m : UNCHANGED <<RuntimeOf(m), DevOf(m), Ships(m)>>
         /\ UNCHANGED Dropped /\ \A e : UNCHANGED Innermost(e)
<1>1. UNCHANGED Found
  BY WhatTheProjectSays
<1>2. \A n, how : UNCHANGED NamedBy(n, how, Found)
  BY <1>1 DEF NamedBy, Named
<1>3. \A m : UNCHANGED <<RuntimeOf(m), DevOf(m), Ships(m)>>
  BY <1>1, <1>2 DEF RuntimeOf, DevOf, Ships
<1>4. UNCHANGED Dropped
  BY <1>1, <1>2, <1>3 DEF Dropped
<1>5. \A e : UNCHANGED Innermost(e)
  BY <1>1 DEF Innermost
<1> QED
  BY <1>3, <1>4, <1>5

(* Threads and walks leave the outcome alone.                              *)
LEMMA OutcomeStays ==
  ASSUME ProbeInv, UNCHANGED <<project, report, dropVars>>,
         rootAt = "ok" => rootAt' = "ok" /\ walk'[Root] = walk[Root]
  PROVE  (Working \/ Broken \/ Analysed \/ Dropping \/ Settled)'
<1>1. /\ UNCHANGED <<Found, Sequential, Success, Reached, Dropped>>
      /\ \A m : UNCHANGED <<RuntimeOf(m), DevOf(m), Ships(m)>> /\ \A e : UNCHANGED Innermost(e)
  BY WhatTheProjectSays, WhatTheManifestsSay DEF dropVars, Reached
<1>2. \A is : Reports(is, Root)' = Reports(is, Root)
  BY DEF Reports
<1>3. UNCHANGED NoReport
  BY DEF NoReport
<1>4. UNCHANGED <<inputs, manifests, pending, shipped, devReferenced, files, report, project>>
  BY DEF dropVars
<1>5. rootAt = "ok" => UNCHANGED Collected
  BY DEF Collected
<1>6. CASE Working
  BY <1>3, <1>4, <1>6 DEF Working
<1>7. CASE Broken
  BY <1>1, <1>4, <1>7 DEF Broken
<1>8. CASE Analysed
  BY <1>1, <1>2, <1>4, <1>8 DEF Analysed
<1>9. CASE Dropping
  <2>1. FollowInv'
    BY <1>1, <1>4, <1>9 DEF Dropping, FollowInv
  <2> QED
    BY <1>1, <1>2, <1>4, <1>5, <1>9, <2>1 DEF Dropping
<1>10. CASE Settled
  <2>1. UNCHANGED Without(Found, Dropped)
    BY <1>1
  <2>2. {e \in Collected' : Innermost(e)' \cap Dropped' = {}}
          = {e \in Collected : Innermost(e) \cap Dropped = {}}
    BY <1>1, <1>5, <1>10 DEF Settled
  <2>3. files' = {e \in Collected' : Innermost(e)' \cap Dropped' = {}}
    BY <1>4, <1>10, <2>2 DEF Settled
  <2>4. /\ report' = Reports("ok", Root)' /\ Sequential' = Reports("ok", Root)'
        /\ project'.production /\ rootAt' = "ok" /\ pending' = {}
        /\ inputs' = Without(Found, Dropped)'
    BY <1>1, <1>2, <1>4, <1>10, <2>1 DEF Settled
  <2>5. Settled'
    BY <2>3, <2>4 DEF Settled
  <2> QED
    BY <2>5
<1> QED
  BY <1>6, <1>7, <1>8, <1>9, <1>10 DEF ProbeInv

LEMMA ReturnKeeps ==
  ASSUME ProbeInv, Return
  PROVE  ProbeInv'
<1>1. /\ report = NoReport /\ AllEnded /\ report' = Joined
      /\ UNCHANGED <<project, rootAt, cursor, worker, result, shipped, devReferenced, walk>>
  BY DEF Return, walkVars
<1>2. ThreadInv /\ Working /\ RootWalkInv
  BY <1>1, ReportKinds DEF ProbeInv, Broken, Analysed, Dropping, Settled
<1>3. ThreadInv'
  BY <1>1, <1>2, ThreadStutter
<1>4. RootWalkInv'
  BY <1>1, <1>2 DEF RootWalkInv
<1>5. Joined = IF Sequential.is = "ok" THEN Success ELSE Sequential
  BY <1>1, <1>2, JoinedIsSequential
<1>6. UNCHANGED <<Members, Found, Sequential, Success, Collected>>
  BY <1>1, WhatTheProjectSays DEF Collected
<1>7. \A is : Reports(is, Root)' = Reports(is, Root)
  BY DEF Reports
<1>8. CASE Sequential.is # "ok"
  <2>1. Joined = Sequential /\ Sequential.is \in {"error", "panic"}
    BY <1>5, <1>8, ReportKinds
  <2>2. pending' = {}
    BY <1>2, <2>1 DEF Return, Working
  <2>3. Broken'
    BY <1>1, <1>6, <2>1, <2>2 DEF Broken
  <2> QED
    BY <1>3, <1>4, <2>3 DEF ProbeInv
<1>9. CASE Sequential.is = "ok"
  <2>1. Joined = Success /\ Sequential = Reports("ok", Root)
    BY <1>5, <1>9, ReportKinds
  <2>2. ~ Panicked /\ rootAt # "error"
    BY <2>1, ReportKinds DEF Joined
  <2>3. rootAt = "ok"
    BY <1>1, <2>2 DEF AllEnded, Panicked
  <2>4. inputs' = Found /\ files' = Collected
    BY <1>1, <1>2, <2>1, <2>2, ResultsAreFaults DEF Return, Found
  <2>5. CASE project.production
    <3>1. Success = Reports("dropping", Root)
      BY <2>5 DEF Success
    <3>2. pending' = {Root} /\ shipped' = {} /\ devReferenced' = {}
      BY <1>1, <1>2, <2>1, <3>1, ReportKinds DEF Return, Working
    <3>3. FollowInv'
      BY <3>2 DEF FollowInv, Reached
    <3>4. Dropping'
      BY <1>1, <1>6, <1>7, <2>1, <2>3, <2>4, <2>5, <3>1, <3>3 DEF Dropping
    <3> QED
      BY <1>3, <1>4, <3>4 DEF ProbeInv
  <2>6. CASE ~ project.production
    <3>1. Success = Reports("ok", Root)
      BY <2>6 DEF Success
    <3>2. pending' = {}
      BY <1>2, <2>1, <3>1, ReportKinds DEF Return, Working
    <3>3. Analysed'
      BY <1>1, <1>6, <1>7, <2>1, <2>4, <2>6, <3>1, <3>2 DEF Analysed
    <3> QED
      BY <1>3, <1>4, <3>3 DEF ProbeInv
  <2> QED
    BY <2>5, <2>6
<1> QED
  BY <1>8, <1>9

-----------------------------------------------------------------------------
LEMMA NamedAreFound ==
  ASSUME NEW m, NEW how
  PROVE  NamedBy(m, how, Found) \subseteq Elements(Found)
BY DEF NamedBy, Named, Elements

(* A member that is shipped needs what every shipped set holds.            *)
LEMMA NeedsShip ==
  ASSUME NEW m, m = Root \/ Ships(m), m \in Elements(Found) \cup {Root}
  PROVE  \A n \in RuntimeOf(m) : Ships(n)
BY DEF Ships, RuntimeOf

LEMMA FollowKeeps ==
  ASSUME ProbeInv, NEW m \in pending, Follow(m)
  PROVE  ProbeInv'
<1>1. /\ UNCHANGED <<project, rootAt, cursor, worker, result, report, inputs, manifests, files, walk>>
      /\ Dropping
  BY DEF Follow, threadVars, walkVars, ProbeInv, Working, Broken, Analysed, Settled
<1>2. ThreadInv' /\ RootWalkInv'
  BY <1>1, ThreadStutter DEF ProbeInv, RootWalkInv
<1>3. UNCHANGED <<Found, Sequential, Success, Collected>> /\ \A is : Reports(is, Root)' = Reports(is, Root)
  BY <1>1, WhatTheProjectSays DEF Collected, Reports
<1>4. \A n : UNCHANGED <<RuntimeOf(n), DevOf(n), Ships(n)>>
  BY <1>1, WhatTheManifestsSay
<1>5. /\ shipped' = shipped \cup RuntimeOf(m) /\ devReferenced' = devReferenced \cup DevOf(m)
      /\ pending' = (pending \ {m}) \cup (RuntimeOf(m) \ shipped)
  BY <1>1 DEF Follow, Uses, Dropping, RuntimeOf, DevOf
<1>6. m \in Reached /\ (m = Root \/ Ships(m)) /\ m \in Elements(Found) \cup {Root}
  BY <1>1 DEF Dropping, FollowInv, Reached
<1>7. RuntimeOf(m) \subseteq Elements(Found) /\ \A n \in RuntimeOf(m) : Ships(n)
  BY <1>6, NamedAreFound, NeedsShip DEF RuntimeOf
<1>8. Reached' = Reached \cup RuntimeOf(m)
  BY <1>5 DEF Reached
<1>9. FollowInv'
  <2>1. pending' \subseteq Reached'
    BY <1>1, <1>5, <1>8 DEF Dropping, FollowInv
  <2>2. shipped' \subseteq Elements(Found)' /\ \A n \in shipped' : Ships(n)'
    BY <1>1, <1>3, <1>4, <1>5, <1>7 DEF Dropping, FollowInv
  <2>3. ASSUME NEW n \in Reached' \ pending'
        PROVE  RuntimeOf(n) \subseteq shipped' /\ DevOf(n) \subseteq devReferenced'
    <3>1. n = m \/ n \in Reached \ pending
      BY <1>5, <1>8, <2>3 DEF Reached
    <3> QED
      BY <1>1, <1>5, <3>1 DEF Dropping, FollowInv
  <2>4. ASSUME NEW d \in devReferenced'
        PROVE  \E n \in Reached' : d \in DevOf(n)
    BY <1>1, <1>5, <1>6, <1>8, <2>4 DEF Dropping, FollowInv
  <2> QED
    BY <1>4, <2>1, <2>2, <2>3, <2>4 DEF FollowInv
<1>10. Dropping'
  BY <1>1, <1>3, <1>9 DEF Dropping
<1> QED
  BY <1>2, <1>10 DEF ProbeInv

(* With nothing left to follow, shipped is what the root ships.            *)
LEMMA AllFollowed ==
  ASSUME Dropping, pending = {}
  PROVE  DevOnly = Dropped /\ Inputs = Elements(Found)
<1>1. FollowInv
  BY DEF Dropping
<1>2. ASSUME NEW m \in Elements(Found) PROVE Ships(m) <=> m \in shipped
  BY <1>1, <1>2 DEF FollowInv, Ships, Reached, RuntimeOf
<1>3. Inputs = Elements(Found)
  BY DEF Dropping, Inputs, Elements
<1>4. ASSUME NEW m \in DevOnly PROVE m \in Dropped
  <2>1. m \in devReferenced /\ m \notin shipped /\ m \notin manifests.published
    BY <1>4 DEF DevOnly
  <2>2. PICK n \in Reached : m \in NamedBy(n, "dev", Found)
    BY <1>1, <2>1 DEF FollowInv, DevOf
  <2>3. m \in Elements(Found)
    BY <2>2, NamedAreFound
  <2>4. n \in Elements(Found) \cup {Root} /\ (n = Root \/ Ships(n))
    BY <1>1 DEF FollowInv, Reached
  <2> QED
    BY <1>2, <2>1, <2>2, <2>3, <2>4 DEF Dropped
<1>5. ASSUME NEW m \in Dropped PROVE m \in DevOnly
  <2>1. m \in Elements(Found) /\ ~ Ships(m) /\ m \notin manifests.published
    BY <1>5 DEF Dropped
  <2>2. PICK n \in Elements(Found) \cup {Root} :
               (n = Root \/ Ships(n)) /\ m \in NamedBy(n, "dev", Found)
    BY <1>5 DEF Dropped
  <2>3. n \in Reached \ pending
    BY <1>2, <2>2 DEF Reached
  <2>4. m \in devReferenced
    BY <1>1, <2>2, <2>3 DEF FollowInv, DevOf
  <2> QED
    BY <1>2, <2>1, <2>4 DEF DevOnly
<1> QED
  BY <1>3, <1>4, <1>5

LEMMA DropKeeps ==
  ASSUME ProbeInv, Drop
  PROVE  ProbeInv'
<1>1. UNCHANGED <<project, rootAt, cursor, worker, result, manifests, pending, walk>> /\ pending = {}
  BY DEF Drop, walkVars
<1>2. Dropping
  BY ReportKinds DEF Drop, ProbeInv, Working, Broken, Analysed, Settled
<1>3. ThreadInv' /\ RootWalkInv'
  BY <1>1, ThreadStutter DEF ProbeInv, RootWalkInv
<1>4. UNCHANGED <<Found, Sequential, Collected>> /\ Reports("ok", Root)' = Reports("ok", Root)
  BY <1>1, WhatTheProjectSays DEF Collected, Reports
<1>5. UNCHANGED Dropped /\ \A e : UNCHANGED Innermost(e)
  BY <1>1, WhatTheManifestsSay
<1>6. DevOnly = Dropped /\ Inputs = Elements(Found)
  BY <1>1, <1>2, AllFollowed
<1>7. inputs' = Without(Found, Dropped)'
  BY <1>2, <1>4, <1>5, <1>6 DEF Drop, Dropping
<1>8. ASSUME NEW e PROVE Stays(e) <=> Innermost(e) \cap Dropped = {}
  BY <1>6 DEF Stays, Innermost
<1>9. files' = {e \in Collected' : Innermost(e)' \cap Dropped' = {}}
  BY <1>2, <1>4, <1>5, <1>8 DEF Drop, Dropping
<1>10. /\ report' = Reports("ok", Root)' /\ Sequential' = Reports("ok", Root)'
       /\ project'.production /\ rootAt' = "ok" /\ pending' = {}
  BY <1>1, <1>2, <1>4 DEF Drop, Dropping
<1>11. Settled'
  BY <1>7, <1>9, <1>10 DEF Settled
<1> QED
  BY <1>3, <1>11 DEF ProbeInv

-----------------------------------------------------------------------------
LEMMA ProbeInit == Init => ProbeInv
<1> SUFFICES ASSUME Init PROVE ProbeInv
  OBVIOUS
<1>1. ThreadInv
  BY InitThreads
<1>2. RootWalkInv
  BY DEF Init, NothingRead, RootWalkInv
<1>3. Working
  BY DEF Init, Working
<1> QED
  BY <1>1, <1>2, <1>3 DEF ProbeInv

LEMMA ProbeStep == ProbeInv /\ [Next]_probeVars => ProbeInv'
<1> SUFFICES ASSUME ProbeInv, [Next]_probeVars PROVE ProbeInv'
  OBVIOUS
<1>1. ThreadInv /\ RootWalkInv
  BY DEF ProbeInv
<1>2. ASSUME ThreadInv', UNCHANGED <<project, report, dropVars>>, rootAt = "ok" => rootAt' = "ok",
             UNCHANGED walk \/ \E w \in Walks : Begin(w) \/ WalkStep(w),
             rootAt' = "ok" => rootAt = "ok" \/ walk[Root].at = "done"
      PROVE  ProbeInv'
  <2>1. walk[Root].at = "done" => walk'[Root] = walk[Root]
    BY <1>1, <1>2, DoneWalkRests DEF RootWalkInv
  <2>2. RootWalkInv'
    BY <1>1, <1>2, <2>1, WalksKept DEF RootWalkInv
  <2>3. (Working \/ Broken \/ Analysed \/ Dropping \/ Settled)'
    BY <1>1, <1>2, <2>1, OutcomeStays DEF RootWalkInv
  <2> QED
    BY <1>2, <2>2, <2>3 DEF ProbeInv
<1>3. CASE StartRoot \/ EndRoot
  <2>1. /\ rootAt # "ok" /\ (rootAt' = "ok" => walk[Root].at = "done")
        /\ UNCHANGED walk \/ Begin(Root)
    BY <1>3 DEF StartRoot, EndRoot, walkVars
  <2> QED
    BY <1>1, <1>2, <1>3, <2>1, RootKeeps, RootAssumption
<1>4. CASE Return
  BY <1>4, ReturnKeeps
<1>5. CASE Drop
  BY <1>5, DropKeeps
<1>6. ASSUME NEW v \in Workers,
             Claim(v) \/ ReadConfig(v) \/ ExtractManifest(v) \/ StartMember(v) \/ EndMember(v)
      PROVE  ProbeInv'
  <2>1. v \in 1 .. Spawned
    BY <1>1 DEF Workers, ThreadInv, WorkersInv
  <2>2. ThreadInv' /\ UNCHANGED <<project, report, dropVars>>
    BY <1>1, <1>6, <2>1, WorkerKeeps
  <2>3. UNCHANGED rootAt /\ (UNCHANGED walk \/ (StartMember(v) /\ Begin(Mine(v))))
    BY <1>6 DEF Claim, ReadConfig, ExtractManifest, StartMember, EndMember, unthreaded, walkVars
  <2>4. StartMember(v) => Mine(v) \in Walks
    BY <1>1, <2>1, ProjectFacts DEF StartMember, AtMember, ThreadInv, WorkersInv, Mine
  <2> QED
    BY <1>2, <2>2, <2>3, <2>4
<1>7. ASSUME NEW m \in pending, Follow(m) PROVE ProbeInv'
  BY <1>7, FollowKeeps
<1>8. CASE Walking
  <2>1. UNCHANGED <<threadVars, dropVars>> /\ (UNCHANGED walk \/ \E w \in Walks : WalkStep(w))
    BY <1>8 DEF Walking, EditIgnore
  <2>2. ThreadInv'
    BY <1>1, <2>1, ThreadStutter DEF threadVars
  <2> QED
    BY <1>2, <2>1, <2>2 DEF threadVars
<1>9. CASE UNCHANGED probeVars
  <2>1. ThreadInv'
    BY <1>1, <1>9, ThreadStutter DEF probeVars, threadVars
  <2> QED
    BY <1>2, <1>9, <2>1 DEF probeVars, threadVars, walkVars
<1> QED
  BY <1>3, <1>4, <1>5, <1>6, <1>7, <1>8, <1>9 DEF Next, Thread, Done

THEOREM ProbeInvariant == Spec => []ProbeInv
BY ProbeInit, ProbeStep, PTL DEF Spec

(* Whichever thread is first, the probe returns what a probe of the root   *)
(* and then of the members one by one returns (discover_root_and_members). *)
THEOREM ReportFollowsFaults == Spec => []ReportIsSequential
<1>1. ProbeInv => ReportIsSequential
  <2> SUFFICES ASSUME ProbeInv PROVE ReportIsSequential
    OBVIOUS
  <2>1. CASE Working
    BY <2>1, ReportKinds DEF Working, ReportIsSequential
  <2>2. CASE Broken
    BY <2>2, ReportKinds DEF Broken, ReportIsSequential
  <2>3. CASE Analysed \/ Dropping \/ Settled
    BY <2>3, ReportKinds DEF Analysed, Dropping, Settled, ReportIsSequential
  <2> QED
    BY <2>1, <2>2, <2>3 DEF ProbeInv
<1> QED
  BY <1>1, ProbeInvariant, PTL

(* With --production the members go that a dev dependency of the root or   *)
(* of a shipped member names, that are not published and that nobody ships,*)
(* and with them the files they are innermost to (drop_dev_only_members).  *)
THEOREM DroppedAreDevOnly == Spec => []ProductionKeepsShipped
<1>1. ProbeInv => ProductionKeepsShipped
  BY ReportKinds
  DEF ProbeInv, Working, Broken, Analysed, Dropping, Settled, ProductionKeepsShipped
<1> QED
  BY <1>1, ProbeInvariant, PTL

-----------------------------------------------------------------------------
(* The tree of directories.                                                *)

(* The least number of a set.                                              *)
LEMMA LeastNatural ==
  ASSUME NEW S \in SUBSET Nat, S # {}
  PROVE  \E n \in S : \A m \in S : n <= m
<1> DEFINE R == {ss \in Nat \X Nat : ss[1] < ss[2]}
<1>1. IsWellFoundedOn(R, Nat)
  BY NatLessThanWellFounded DEF OpToRel
<1>2. PICK x \in S : \A y \in S : ~ (<<y, x>> \in R)
  BY <1>1, WFMin
<1>3. \A y \in S : ~ (y < x)
  BY <1>2
<1> QED
  BY <1>3

(* What holds of Top, and of a directory if it does of the one it is in,   *)
(* holds of every directory: here, there is none of which it does not.     *)
LEMMA TreeInduction ==
  ASSUME NEW B \in SUBSET Dirs, Top \notin B, \A d \in B : Parent[d] \in B
  PROVE  B = {}
<1>1. B \in SUBSET Entries
  BY DEF Dirs
<1> QED
  BY <1>1, TreeAssumption

IsPath(p, d) ==
  /\ Len(p) # 0 /\ p[1] = Top /\ p[Len(p)] = d
  /\ \A i \in 1 .. Len(p) - 1 : p[i + 1] \in Entries /\ p[i] = Parent[p[i + 1]]

(* The path of a directory ends with it, after the path of its parent.     *)
LEMMA PathGrows ==
  ASSUME NEW d \in Dirs \ {Top}, NEW p \in Seq(Dirs), IsPath(p, Parent[d])
  PROVE  Append(p, d) \in Seq(Dirs) /\ IsPath(Append(p, d), d)
<1>1. d \in Entries
  BY DEF Dirs
<1> DEFINE q == Append(p, d)
<1>2. /\ q \in Seq(Dirs) /\ Len(q) = Len(p) + 1 /\ Len(p) \in Nat
      /\ q[Len(p) + 1] = d /\ \A i \in 1 .. Len(p) : q[i] = p[i]
  OBVIOUS
<1> HIDE DEF q
<1>3. q[1] = Top
  BY <1>2 DEF IsPath
<1>4. ASSUME NEW i \in 1 .. Len(q) - 1
      PROVE  q[i + 1] \in Entries /\ q[i] = Parent[q[i + 1]]
  <2>1. CASE i = Len(p)
    BY <1>1, <1>2, <2>1 DEF IsPath
  <2>2. CASE i # Len(p)
    <3>1. i \in 1 .. Len(p) - 1 /\ i + 1 \in 1 .. Len(p) /\ i \in 1 .. Len(p)
      BY <1>2, <2>2
    <3> QED
      BY <1>2, <3>1 DEF IsPath
  <2> QED
    BY <2>1, <2>2
<1>5. IsPath(q, d)
  BY <1>2, <1>3, <1>4 DEF IsPath
<1> QED
  BY <1>2, <1>5 DEF q

(* Every directory has a path, and one only.                               *)
LEMMA PathExists == \A d \in Dirs : \E p \in Seq(Dirs) : IsPath(p, d)
<1> DEFINE B == {d \in Dirs : ~ \E p \in Seq(Dirs) : IsPath(p, d)}
<1>1. Top \notin B
  <2>1. <<Top>> \in Seq(Dirs) /\ IsPath(<<Top>>, Top)
    BY DEF IsPath, Dirs
  <2> QED
    BY <2>1
<1>2. \A d \in B : Parent[d] \in B
  <2> SUFFICES ASSUME NEW d \in B, Parent[d] \notin B
               PROVE  FALSE
    OBVIOUS
  <2>1. d \in Dirs \ {Top} /\ Parent[d] \in Dirs
    BY <1>1, TreeAssumption DEF Dirs
  <2>2. PICK p \in Seq(Dirs) : IsPath(p, Parent[d])
    BY <2>1
  <2> QED
    BY <2>1, <2>2, PathGrows
<1> HIDE DEF B
<1>3. B \in SUBSET Dirs
  BY DEF B
<1>4. B = {}
  BY <1>1, <1>2, <1>3, TreeInduction
<1> QED
  BY <1>4 DEF B

(* A path without its last directory is the path of the parent.            *)
LEMMA PathShrinks ==
  ASSUME NEW d \in Dirs, NEW p \in Seq(Dirs), IsPath(p, d)
  PROVE  IF d = Top THEN p = <<Top>>
         ELSE \E q \in Seq(Dirs) : IsPath(q, Parent[d]) /\ p = Append(q, d)
<1>1. Len(p) \in Nat \ {0}
  BY DEF IsPath
<1>2. CASE Len(p) = 1
  <2>1. p = <<Top>> /\ d = Top
    BY <1>2 DEF IsPath
  <2> QED
    BY <2>1
<1>3. CASE Len(p) # 1
  <2> DEFINE q == [i \in 1 .. Len(p) - 1 |-> p[i]]
  <2>1. q \in Seq(Dirs) /\ Len(q) = Len(p) - 1 /\ \A i \in 1 .. Len(q) : q[i] = p[i]
    BY <1>1
  <2>2. d \in Entries /\ d # Top
    <3>1. \A n \in Nat \ {0} : n # 1 => n - 1 \in 1 .. n - 1 /\ (n - 1) + 1 = n
      OBVIOUS
    <3>2. p[Len(p)] \in Entries /\ p[Len(p)] = d
      BY <1>1, <1>3, <3>1 DEF IsPath
    <3> QED
      BY <3>1, <3>2, TreeAssumption
  <2> HIDE DEF q
  <2>3. IsPath(q, Parent[d])
    BY <1>1, <1>3, <2>1 DEF IsPath
  <2>4. p = Append(q, d)
    <3> DEFINE r == Append(q, d)
    <3>1. r \in Seq(Dirs) /\ Len(r) = Len(p) /\ r[Len(p)] = d /\ \A i \in 1 .. Len(q) : r[i] = q[i]
      BY <1>1, <2>1
    <3>2. \A i \in 1 .. Len(p) : r[i] = p[i]
      BY <1>1, <2>1, <3>1 DEF IsPath
    <3> HIDE DEF r
    <3>3. r = p
      BY <3>1, <3>2
    <3> QED
      BY <3>3 DEF r
  <2> QED
    BY <2>1, <2>2, <2>3, <2>4
<1> QED
  BY <1>2, <1>3

LEMMA PathUnique ==
  \A d \in Dirs : \A p, q \in Seq(Dirs) : IsPath(p, d) /\ IsPath(q, d) => p = q
<1> DEFINE B == {d \in Dirs : \E p, q \in Seq(Dirs) : IsPath(p, d) /\ IsPath(q, d) /\ p # q}
<1>1. Top \notin B
  BY PathShrinks DEF Dirs
<1>2. \A d \in B : Parent[d] \in B
  <2> SUFFICES ASSUME NEW d \in B, Parent[d] \notin B
               PROVE  FALSE
    OBVIOUS
  <2>1. d \in Dirs /\ d # Top /\ Parent[d] \in Dirs
    BY <1>1, TreeAssumption DEF Dirs
  <2>2. PICK p \in Seq(Dirs), q \in Seq(Dirs) : IsPath(p, d) /\ IsPath(q, d) /\ p # q
    OBVIOUS
  <2>3. PICK r \in Seq(Dirs) : IsPath(r, Parent[d]) /\ p = Append(r, d)
    BY <2>1, <2>2, PathShrinks
  <2>4. PICK s \in Seq(Dirs) : IsPath(s, Parent[d]) /\ q = Append(s, d)
    BY <2>1, <2>2, PathShrinks
  <2> QED
    BY <2>1, <2>2, <2>3, <2>4
<1> HIDE DEF B
<1>3. B \in SUBSET Dirs
  BY DEF B
<1>4. B = {}
  BY <1>1, <1>2, <1>3, TreeInduction
<1> QED
  BY <1>4 DEF B

(* PathTo is the function its definition says it is.                       *)
LEMMA PathEquation ==
  \A d \in Dirs : PathTo[d] = IF d = Top THEN <<d>> ELSE Append(PathTo[Parent[d]], d)
<1> DEFINE F(g) == [d \in Dirs |-> IF d = Top THEN <<d>> ELSE Append(g[Parent[d]], d)]
           h == [d \in Dirs |-> CHOOSE p \in Seq(Dirs) : IsPath(p, d)]
<1>1. \A d \in Dirs : h[d] \in Seq(Dirs) /\ IsPath(h[d], d)
  BY PathExists
<1>2. ASSUME NEW d \in Dirs
      PROVE  h[d] = IF d = Top THEN <<d>> ELSE Append(h[Parent[d]], d)
  <2> HIDE DEF h
  <2>1. CASE d = Top
    BY <1>1, <2>1, PathShrinks
  <2>2. CASE d # Top
    <3>1. Parent[d] \in Dirs
      BY <2>2, TreeAssumption DEF Dirs
    <3>2. /\ h[Parent[d]] \in Seq(Dirs) /\ IsPath(h[Parent[d]], Parent[d])
          /\ h[d] \in Seq(Dirs) /\ IsPath(h[d], d)
      BY <1>1, <3>1
    <3>3. Append(h[Parent[d]], d) \in Seq(Dirs) /\ IsPath(Append(h[Parent[d]], d), d)
      BY <2>2, <3>2, PathGrows
    <3>4. h[d] = Append(h[Parent[d]], d)
      BY <3>2, <3>3, PathUnique
    <3> QED
      BY <2>2, <3>4
  <2> QED
    BY <2>1, <2>2
<1>3. h = F(h)
  <2>1. h = [d \in Dirs |-> h[d]]
    OBVIOUS
  <2> HIDE DEF h
  <2>2. h = [d \in Dirs |-> IF d = Top THEN <<d>> ELSE Append(h[Parent[d]], d)]
    BY <1>2, <2>1
  <2> QED
    BY <2>2
<1>4. PathTo = CHOOSE g : g = F(g)
  BY DEF PathTo
<1> HIDE DEF h
<1>5. PathTo = F(PathTo)
  <2> HIDE DEF F
  <2> QED
    BY <1>3, <1>4
<1> QED
  BY <1>5

(* The path of a directory.                                                *)
LEMMA PathFacts ==
  ASSUME NEW d \in Dirs
  PROVE  /\ PathTo[d] \in Seq(Dirs) /\ Depth(d) \in Nat \ {0}
         /\ PathTo[d][1] = Top /\ PathTo[d][Depth(d)] = d
<1> DEFINE B == {c \in Dirs : ~ (PathTo[c] \in Seq(Dirs) /\ IsPath(PathTo[c], c))}
<1>1. Top \notin B
  <2>1. PathTo[Top] = <<Top>> /\ Top \in Dirs
    BY PathEquation DEF Dirs
  <2>2. <<Top>> \in Seq(Dirs) /\ IsPath(<<Top>>, Top)
    BY <2>1 DEF IsPath
  <2> QED
    BY <2>1, <2>2
<1>2. \A c \in B : Parent[c] \in B
  <2> SUFFICES ASSUME NEW c \in B, Parent[c] \notin B
               PROVE  FALSE
    OBVIOUS
  <2>1. c \in Dirs \ {Top} /\ Parent[c] \in Dirs
    BY <1>1, TreeAssumption DEF Dirs
  <2>2. PathTo[c] = Append(PathTo[Parent[c]], c)
    BY <2>1, PathEquation
  <2>3. PathTo[Parent[c]] \in Seq(Dirs) /\ IsPath(PathTo[Parent[c]], Parent[c])
    BY <2>1
  <2> QED
    BY <2>1, <2>2, <2>3, PathGrows
<1> HIDE DEF B
<1>3. B \in SUBSET Dirs
  BY DEF B
<1>4. B = {}
  BY <1>1, <1>2, <1>3, TreeInduction
<1>5. PathTo[d] \in Seq(Dirs) /\ IsPath(PathTo[d], d)
  BY <1>4 DEF B
<1> QED
  BY <1>5 DEF IsPath, Depth

(* Of a directory that is in another.                                      *)
LEMMA ChildFacts ==
  ASSUME NEW d \in Dirs \ {Top}
  PROVE  /\ Parent[d] \in Dirs /\ Depth(d) = Depth(Parent[d]) + 1
         /\ \A i \in 1 .. Depth(Parent[d]) : PathTo[d][i] = PathTo[Parent[d]][i]
<1>1. Parent[d] \in Dirs
  BY TreeAssumption DEF Dirs
<1>2. PathTo[d] = Append(PathTo[Parent[d]], d)
  BY PathEquation
<1>3. PathTo[Parent[d]] \in Seq(Dirs)
  BY <1>1, PathFacts
<1> QED
  BY <1>1, <1>2, <1>3 DEF Depth

(* What is on the path of a directory has the path up to it.               *)
LEMMA OnPath ==
  ASSUME NEW d \in Dirs, NEW i \in 1 .. Depth(d)
  PROVE  /\ PathTo[d][i] \in Dirs /\ Depth(PathTo[d][i]) = i
         /\ \A j \in 1 .. i : PathTo[PathTo[d][i]][j] = PathTo[d][j]
<1> DEFINE Good(c) == \A n \in 1 .. Depth(c) :
             /\ PathTo[c][n] \in Dirs /\ Depth(PathTo[c][n]) = n
             /\ \A j \in 1 .. n : PathTo[PathTo[c][n]][j] = PathTo[c][j]
           B == {c \in Dirs : ~ Good(c)}
<1>1. Top \notin B
  <2>1. PathTo[Top] = <<Top>> /\ Top \in Dirs
    BY PathEquation DEF Dirs
  <2>2. Depth(Top) = 1 /\ PathTo[Top][1] = Top
    BY <2>1 DEF Depth
  <2> QED
    BY <2>1, <2>2
<1>2. \A c \in B : Parent[c] \in B
  <2> SUFFICES ASSUME NEW c \in B, Parent[c] \notin B
               PROVE  FALSE
    OBVIOUS
  <2>1. c \in Dirs \ {Top} /\ Parent[c] \in Dirs
    BY <1>1, TreeAssumption DEF Dirs
  <2>2. Good(Parent[c])
    BY <2>1
  <2>3. /\ Depth(c) = Depth(Parent[c]) + 1 /\ Depth(Parent[c]) \in Nat \ {0}
        /\ \A n \in 1 .. Depth(Parent[c]) : PathTo[c][n] = PathTo[Parent[c]][n]
    BY <2>1, ChildFacts, PathFacts
  <2>4. ASSUME NEW n \in 1 .. Depth(c)
        PROVE  /\ PathTo[c][n] \in Dirs /\ Depth(PathTo[c][n]) = n
               /\ \A j \in 1 .. n : PathTo[PathTo[c][n]][j] = PathTo[c][j]
    <3>1. CASE n = Depth(c)
      BY <2>1, <3>1, PathFacts
    <3>2. CASE n # Depth(c)
      <4>1. n \in 1 .. Depth(Parent[c]) /\ \A j \in 1 .. n : j \in 1 .. Depth(Parent[c])
        BY <2>3, <3>2
      <4>2. PathTo[c][n] = PathTo[Parent[c]][n] /\ \A j \in 1 .. n : PathTo[c][j] = PathTo[Parent[c]][j]
        BY <2>3, <4>1
      <4> QED
        BY <2>2, <4>1, <4>2
    <3> QED
      BY <3>1, <3>2
  <2> QED
    BY <2>4
<1> HIDE DEF B
<1>3. B \in SUBSET Dirs
  BY DEF B
<1>4. B = {}
  BY <1>1, <1>2, <1>3, TreeInduction
<1>5. Good(d)
  BY <1>4 DEF B
<1> QED
  BY <1>5

(* A directory is under those on its path.                                 *)
LEMMA UnderIsOnPath ==
  ASSUME NEW d \in Dirs, NEW c \in Dirs
  PROVE  /\ IsUnder(d, c) <=> \E i \in 1 .. Depth(d) : c = PathTo[d][i]
         /\ \A i \in 1 .. Depth(d) : c = PathTo[d][i] => i = Depth(c)
<1>1. Depth(c) \in Nat \ {0} /\ Depth(d) \in Nat \ {0}
  BY PathFacts
<1>2. \A i \in 1 .. Depth(d) : c = PathTo[d][i] => i = Depth(c)
  BY OnPath
<1> QED
  BY <1>1, <1>2 DEF IsUnder

(* IsUnder orders the directories.                                         *)
LEMMA UnderSelf ==
  ASSUME NEW d \in Dirs
  PROVE  IsUnder(d, d)
BY PathFacts DEF IsUnder

LEMMA UnderTransitive ==
  ASSUME NEW b \in Dirs, NEW c \in Dirs, NEW d \in Dirs, IsUnder(d, c), IsUnder(c, b)
  PROVE  IsUnder(d, b)
<1>1. /\ Depth(b) \in Nat \ {0} /\ Depth(c) \in Nat \ {0} /\ Depth(d) \in Nat \ {0}
      /\ Depth(b) <= Depth(c) /\ Depth(c) <= Depth(d)
      /\ PathTo[c][Depth(b)] = b /\ PathTo[d][Depth(c)] = c
  BY PathFacts DEF IsUnder
<1>2. Depth(c) \in 1 .. Depth(d) /\ Depth(b) \in 1 .. Depth(c)
  BY <1>1
<1>3. PathTo[PathTo[d][Depth(c)]][Depth(b)] = PathTo[d][Depth(b)]
  BY <1>2, OnPath
<1> QED
  BY <1>1, <1>3 DEF IsUnder

(* A directory is under its parent, one deeper.                            *)
LEMMA UnderParent ==
  ASSUME NEW d \in Dirs \ {Top}
  PROVE  /\ Parent[d] \in Dirs /\ IsUnder(d, Parent[d]) /\ Depth(d) = Depth(Parent[d]) + 1
<1>1. /\ Parent[d] \in Dirs /\ Depth(d) = Depth(Parent[d]) + 1
      /\ \A i \in 1 .. Depth(Parent[d]) : PathTo[d][i] = PathTo[Parent[d]][i]
  BY ChildFacts
<1>2. Depth(Parent[d]) \in Nat \ {0} /\ PathTo[Parent[d]][Depth(Parent[d])] = Parent[d]
  BY <1>1, PathFacts
<1> QED
  BY <1>1, <1>2 DEF IsUnder

-----------------------------------------------------------------------------
(* What the ignore files say of an entry: MatchState::visit.               *)

(* The states of MatchState after each directory.                          *)
LEMMA VisitedSteps ==
  ASSUME NEW dirs, Len(dirs) \in Nat, NEW e, NEW isDir
  PROVE  \E g : /\ g[0] = Unmatched
                /\ \A i \in 1 .. Len(dirs) : g[i] = Visit(g[i - 1], dirs[i], e, isDir)
                /\ Visited(dirs, e, isDir) = g[Len(dirs)]
<1> DEFINE Step(g, i) == Visit(g[i - 1], dirs[i], e, isDir)
           F(n, g) == [i \in 0 .. n |-> IF i = 0 THEN Unmatched ELSE Step(g, i)]
           B == {n \in 0 .. Len(dirs) : ~ \E g : g = F(n, g)}
<1>1. B = {}
  <2> SUFFICES ASSUME B # {} PROVE FALSE
    OBVIOUS
  <2>1. PICK n \in B : \A m \in B : n <= m
    <3>1. B \in SUBSET Nat
      OBVIOUS
    <3> HIDE DEF B
    <3> QED
      BY <3>1, LeastNatural
  <2>2. n # 0
    <3> SUFFICES ASSUME n = 0 PROVE FALSE
      OBVIOUS
    <3> DEFINE g == [i \in 0 .. 0 |-> Unmatched]
    <3>1. g = [i \in 0 .. 0 |-> IF i = 0 THEN Unmatched ELSE Step(g, i)]
      OBVIOUS
    <3> QED
      BY <3>1
  <2>3. n - 1 \in 0 .. Len(dirs) /\ n - 1 \notin B /\ n \in 1 .. Len(dirs)
    BY <2>1, <2>2
  <2>4. PICK g : g = F(n - 1, g)
    BY <2>3
  <2> DEFINE h == [i \in 0 .. n |-> IF i = n THEN Step(g, n) ELSE g[i]]
  <2>5. ASSUME NEW i \in 0 .. n
        PROVE  h[i] = IF i = 0 THEN Unmatched ELSE Step(h, i)
    <3>1. CASE i = n
      <4>1. n - 1 \in 0 .. n /\ n - 1 # n
        BY <2>3
      <4>2. h[n - 1] = g[n - 1] /\ h[n] = Step(g, n)
        BY <4>1, <2>3
      <4> HIDE DEF h
      <4> QED
        BY <2>2, <3>1, <4>2
    <3>2. CASE i # n
      <4>1. i \in 0 .. n - 1 /\ (i # 0 => i - 1 \in 0 .. n /\ i - 1 # n)
        BY <2>3, <3>2
      <4>2. g[i] = IF i = 0 THEN Unmatched ELSE Step(g, i)
        BY <2>4, <4>1
      <4>3. h[i] = g[i] /\ (i # 0 => h[i - 1] = g[i - 1])
        BY <3>2, <4>1
      <4> HIDE DEF h
      <4> QED
        BY <4>2, <4>3
    <3> QED
      BY <3>1, <3>2
  <2>6. h = F(n, h)
    <3>1. h = [i \in 0 .. n |-> h[i]]
      OBVIOUS
    <3> HIDE DEF h
    <3>2. h = [i \in 0 .. n |-> IF i = 0 THEN Unmatched ELSE Step(h, i)]
      BY <2>5, <3>1
    <3> QED
      BY <3>2
  <2> HIDE DEF h, F
  <2> QED
    BY <2>6
<1>2. PICK g : g = F(Len(dirs), g) /\ Visited(dirs, e, isDir) = g[Len(dirs)]
  <2> DEFINE g == CHOOSE g : g = F(Len(dirs), g)
  <2>1. Visited(dirs, e, isDir) = g[Len(dirs)]
    BY DEF Visited
  <2>2. g = F(Len(dirs), g)
    <3>1. \E f : f = F(Len(dirs), f)
      BY <1>1
    <3> HIDE DEF F
    <3> QED
      BY <3>1
  <2> HIDE DEF g
  <2> QED
    BY <2>1, <2>2
<1>3. g[0] = Unmatched /\ \A i \in 1 .. Len(dirs) : g[i] = Step(g, i)
  BY <1>2
<1> QED
  BY <1>2, <1>3

(* What the patterns `says` of the directories up to the n-th, none of     *)
(* them above a repository, make of an entry.                              *)
Below(dirs, i) == \A k \in 1 .. i - 1 : ~ dirs[k].git

Tell(says, dirs, n, verdict) ==
  \/ /\ verdict # "none"
     /\ \E i \in 1 .. n : /\ says[i] = verdict /\ Below(dirs, i)
                          /\ \A k \in 1 .. i - 1 : says[k] = "none"
  \/ verdict = "none" /\ \A i \in 1 .. n : Below(dirs, i) => says[i] = "none"

(* Tell, from one directory to the next.                                   *)
LEMMA TellNothing ==
  ASSUME NEW says, NEW dirs
  PROVE  Tell(says, dirs, 0, "none")
BY DEF Tell

LEMMA TellNext ==
  ASSUME NEW says, NEW dirs, NEW n \in Nat, NEW verdict, Tell(says, dirs, n, verdict)
  PROVE  Tell(says, dirs, n + 1,
              IF \E k \in 1 .. n : dirs[k].git THEN verdict ELSE Or(verdict, says[n + 1]))
<1>1. Below(dirs, n + 1) <=> ~ \E k \in 1 .. n : dirs[k].git
  BY DEF Below
<1>2. CASE verdict # "none"
  <2>1. PICK i \in 1 .. n : /\ says[i] = verdict /\ Below(dirs, i)
                            /\ \A k \in 1 .. i - 1 : says[k] = "none"
    BY <1>2 DEF Tell
  <2>2. i \in 1 .. n + 1
    OBVIOUS
  <2> QED
    BY <1>2, <2>1, <2>2 DEF Tell, Or
<1>3. CASE verdict = "none"
  <2>1. \A i \in 1 .. n : Below(dirs, i) => says[i] = "none"
    BY <1>3 DEF Tell
  <2>2. CASE ~ Below(dirs, n + 1)
    <3>1. \A i \in 1 .. n + 1 : Below(dirs, i) => says[i] = "none"
      BY <2>1, <2>2
    <3> QED
      BY <1>1, <1>3, <2>2, <3>1 DEF Tell
  <2>3. CASE Below(dirs, n + 1) /\ says[n + 1] = "none"
    <3>1. \A i \in 1 .. n + 1 : Below(dirs, i) => says[i] = "none"
      BY <2>1, <2>3
    <3> QED
      BY <1>1, <1>3, <2>3, <3>1 DEF Tell, Or
  <2>4. CASE Below(dirs, n + 1) /\ says[n + 1] # "none"
    <3>1. \A i \in 1 .. n : Below(dirs, i)
      BY <2>4 DEF Below
    <3>2. \A k \in 1 .. (n + 1) - 1 : says[k] = "none"
      BY <2>1, <3>1
    <3>3. n + 1 \in 1 .. n + 1
      OBVIOUS
    <3> QED
      BY <1>1, <1>3, <2>4, <3>2, <3>3 DEF Tell, Or
  <2> QED
    BY <2>2, <2>3, <2>4
<1> QED
  BY <1>2, <1>3

(* What MatchState::visit makes of an entry, going from the closest        *)
(* directory up: of each kind of pattern the first that says anything, up  *)
(* to the first repository.                                                *)
LEMMA VisitedTells ==
  ASSUME NEW dirs, Len(dirs) \in Nat, NEW e, NEW isDir,
         \A i \in 1 .. Len(dirs) : dirs[i].git \in BOOLEAN
  PROVE  LET state == Visited(dirs, e, isDir)
         IN  /\ Tell([i \in 1 .. Len(dirs) |-> Says(dirs[i].gitignore, e, isDir)], dirs,
                     Len(dirs), state.gitignore)
             /\ Tell([i \in 1 .. Len(dirs) |-> Says(dirs[i].exclude, e, isDir)], dirs,
                     Len(dirs), state.exclude)
<1> DEFINE gits == [i \in 1 .. Len(dirs) |-> Says(dirs[i].gitignore, e, isDir)]
           excludes == [i \in 1 .. Len(dirs) |-> Says(dirs[i].exclude, e, isDir)]
<1>1. PICK g : /\ g[0] = Unmatched
               /\ \A i \in 1 .. Len(dirs) : g[i] = Visit(g[i - 1], dirs[i], e, isDir)
               /\ Visited(dirs, e, isDir) = g[Len(dirs)]
  BY VisitedSteps
<1> DEFINE Good(n) == /\ g[n].sawGit <=> \E k \in 1 .. n : dirs[k].git
                      /\ Tell(gits, dirs, n, g[n].gitignore)
                      /\ Tell(excludes, dirs, n, g[n].exclude)
           B == {n \in 0 .. Len(dirs) : ~ Good(n)}
<1>2. Good(0)
  <2>1. g[0].gitignore = "none" /\ g[0].exclude = "none" /\ g[0].sawGit = FALSE
    BY <1>1 DEF Unmatched
  <2> HIDE DEF gits, excludes
  <2>2. Tell(gits, dirs, 0, g[0].gitignore) /\ Tell(excludes, dirs, 0, g[0].exclude)
    BY <2>1, TellNothing
  <2>3. ~ g[0].sawGit /\ ~ \E k \in 1 .. 0 : dirs[k].git
    BY <2>1
  <2> QED
    BY <2>2, <2>3
<1>3. ASSUME NEW n \in 1 .. Len(dirs), Good(n - 1)
      PROVE  Good(n)
  <2> DEFINE old == g[n - 1]
             m == n - 1
  <2>1. m \in Nat /\ m + 1 = n
    OBVIOUS
  <2>2. g[n] = Visit(old, dirs[n], e, isDir)
    BY <1>1
  <2>3. /\ g[n].gitignore = IF old.sawGit THEN old.gitignore ELSE Or(old.gitignore, gits[n])
        /\ g[n].exclude = IF old.sawGit THEN old.exclude ELSE Or(old.exclude, excludes[n])
        /\ g[n].sawGit = (old.sawGit \/ dirs[n].git)
    BY <2>2 DEF Visit
  <2>4. /\ old.sawGit <=> \E k \in 1 .. m : dirs[k].git
        /\ Tell(gits, dirs, m, old.gitignore) /\ Tell(excludes, dirs, m, old.exclude)
    BY <1>3
  <2> HIDE DEF gits, excludes, m, old
  <2>5. Tell(gits, dirs, n, g[n].gitignore) /\ Tell(excludes, dirs, n, g[n].exclude)
    BY <2>1, <2>3, <2>4, TellNext
  <2>6. g[n].sawGit <=> \E k \in 1 .. n : dirs[k].git
    <3>1. 1 .. n = (1 .. m) \cup {n}
      BY <2>1
    <3>2. g[n].sawGit <=> (old.sawGit \/ dirs[n].git)
      BY <2>3
    <3> QED
      BY <2>4, <3>1, <3>2
  <2> QED
    BY <2>5, <2>6
<1> HIDE DEF Good
<1>4. B = {}
  <2> SUFFICES ASSUME B # {} PROVE FALSE
    OBVIOUS
  <2>1. PICK n \in B : \A m \in B : n <= m
    <3>1. B \in SUBSET Nat
      OBVIOUS
    <3> HIDE DEF B
    <3> QED
      BY <3>1, LeastNatural
  <2>2. n \in 1 .. Len(dirs) /\ n - 1 \in 0 .. Len(dirs) /\ n - 1 \notin B
    BY <1>2, <2>1
  <2> QED
    BY <1>3, <2>2
<1>5. Good(Len(dirs))
  BY <1>4
<1> QED
  BY <1>1, <1>5 DEF Good

(* Of sequences.                                                           *)
LEMMA ConcatFacts ==
  ASSUME NEW S, NEW p \in Seq(S), NEW q \in Seq(S)
  PROVE  /\ p \o q \in Seq(S) /\ Len(p \o q) = Len(p) + Len(q)
         /\ \A i \in 1 .. Len(p) : (p \o q)[i] = p[i]
         /\ \A i \in 1 .. Len(q) : (p \o q)[Len(p) + i] = q[i]
OBVIOUS

LEMMA AsFunction ==
  ASSUME NEW S, NEW p \in Seq(S)
  PROVE  Len(p) \in Nat /\ p = [i \in 1 .. Len(p) |-> p[i]]
OBVIOUS

LEMMA AsSequence ==
  ASSUME NEW S, NEW n \in Nat, NEW f, f = [i \in 1 .. n |-> f[i]], \A i \in 1 .. n : f[i] \in S
  PROVE  f \in Seq(S) /\ Len(f) = n
<1>1. f \in [1 .. n -> S]
  OBVIOUS
<1> QED
  BY <1>1

(* The directories around an entry, the closest first.                     *)
Nth(e, i) == PathTo[Parent[e]][Depth(Parent[e]) + 1 - i]

(* They are numbered from the parent of the entry to Top, in the order of  *)
(* IsUnder.                                                                *)
LEMMA AroundFacts ==
  ASSUME NEW e \in Entries, NEW w \in Dirs, IsUnder(Parent[e], w)
  PROVE  LET D == Depth(Parent[e])
             k == Depth(w)
         IN  /\ D \in Nat \ {0} /\ k \in 1 .. D
             /\ Around(e) = {Nth(e, i) : i \in 1 .. D}
             /\ \A i \in 1 .. D : Nth(e, i) \in Dirs
             /\ \A i, j \in 1 .. D : /\ IsUnder(Nth(e, i), Nth(e, j)) <=> i <= j
                                     /\ Nth(e, i) = Nth(e, j) => i = j
             /\ \A i \in 1 .. D : IsUnder(Nth(e, i), w) <=> i <= D + 1 - k
<1> DEFINE P == Parent[e]
           D == Depth(P)
           k == Depth(w)
<1>1. P \in Dirs
  BY TreeAssumption
<1>2. D \in Nat \ {0} /\ k \in Nat \ {0} /\ k <= D /\ PathTo[P][k] = w
  BY <1>1, PathFacts DEF IsUnder
<1>3. \A i \in 1 .. D : D + 1 - i \in 1 .. D
  BY <1>2
<1> HIDE DEF P, D, k
<1>4. ASSUME NEW i \in 1 .. D
      PROVE  /\ Nth(e, i) \in Dirs /\ Depth(Nth(e, i)) = D + 1 - i
             /\ \A j \in 1 .. D + 1 - i : PathTo[Nth(e, i)][j] = PathTo[P][j]
  BY <1>1, <1>3, OnPath DEF Nth, P, D
<1>5. Around(e) = {Nth(e, i) : i \in 1 .. D}
  <2>1. ASSUME NEW d \in Around(e)
        PROVE  \E i \in 1 .. D : d = Nth(e, i)
    <3>1. d \in Dirs /\ IsUnder(P, d)
      BY DEF Around, P
    <3>2. PICK j \in 1 .. D : d = PathTo[P][j]
      BY <1>1, <3>1, UnderIsOnPath DEF D
    <3>3. D + 1 - j \in 1 .. D /\ D + 1 - (D + 1 - j) = j
      BY <1>2
    <3> QED
      BY <3>2, <3>3 DEF Nth, P, D
  <2>2. ASSUME NEW i \in 1 .. D
        PROVE  Nth(e, i) \in Around(e)
    BY <1>1, <1>3, <1>4, UnderIsOnPath DEF Around, Nth, P, D
  <2> QED
    BY <2>1, <2>2
<1>6. ASSUME NEW i \in 1 .. D, NEW j \in 1 .. D
      PROVE  /\ IsUnder(Nth(e, i), Nth(e, j)) <=> i <= j
             /\ Nth(e, i) = Nth(e, j) => i = j
  <2>1. /\ Depth(Nth(e, i)) = D + 1 - i /\ Depth(Nth(e, j)) = D + 1 - j
        /\ i <= j => PathTo[Nth(e, i)][D + 1 - j] = PathTo[P][D + 1 - j]
    BY <1>2, <1>4
  <2>2. Nth(e, j) = PathTo[P][D + 1 - j]
    BY DEF Nth, P, D
  <2> QED
    BY <1>2, <2>1, <2>2 DEF IsUnder
<1>7. ASSUME NEW i \in 1 .. D
      PROVE  IsUnder(Nth(e, i), w) <=> i <= D + 1 - k
  <2>1. D + 1 - k \in 1 .. D /\ D + 1 - (D + 1 - k) = k
    BY <1>2
  <2>2. w = Nth(e, D + 1 - k)
    BY <1>2, <2>1 DEF Nth, P, D
  <2> QED
    BY <1>6, <2>1, <2>2
<1>8. k \in 1 .. D
  BY <1>2
<1> QED
  BY <1>2, <1>4, <1>5, <1>6, <1>7, <1>8 DEF D, P, k

RulesOf(rules, dirs) == [i \in 1 .. Len(dirs) |-> rules[dirs[i]]]

(* The rules of the k-th walked directories on, deepest last, and of those *)
(* above, in terms of the D directories around the entry.                  *)
LaidOut(chain, above, rules, e, D, k) ==
  /\ Len(chain) = D + 1 - k /\ Len(above) = k - 1
  /\ \A i \in 1 .. D + 1 - k : chain[i] = rules[Nth(e, D + 2 - k - i)]
  /\ Closest(chain) \o above = [i \in 1 .. D |-> rules[Nth(e, i)]]
  /\ \A i \in 1 .. D : (chain \o above)[i] = rules[Nth(e, IF i <= D + 1 - k THEN D + 2 - k - i ELSE i)]

(* ChainTo and Above, put end to end, are the directories around an entry. *)
LEMMA ChainFacts ==
  ASSUME NEW e \in Entries, NEW w \in Dirs, IsUnder(Parent[e], w), NEW rules
  PROVE  LaidOut(RulesOf(rules, ChainTo(w, Parent[e])), RulesOf(rules, Above(w)), rules, e,
                 Depth(Parent[e]), Depth(w))
<1> DEFINE P == Parent[e]
           D == Depth(P)
           k == Depth(w)
           chain == RulesOf(rules, ChainTo(w, P))
           above == RulesOf(rules, Above(w))
<1>1. P \in Dirs /\ PathTo[P] \in Seq(Dirs) /\ D = Len(PathTo[P])
  BY TreeAssumption, PathFacts DEF Depth
<1>2. D \in Nat \ {0} /\ k \in 1 .. D /\ PathTo[P][k] = w
  BY <1>1, AroundFacts DEF IsUnder
<1>3. /\ Len(ChainTo(w, P)) = D + 1 - k
      /\ \A i \in 1 .. D + 1 - k : ChainTo(w, P)[i] = PathTo[P][k + i - 1]
  <2> HIDE DEF P
  <2>1. ChainTo(w, P) = SubSeq(PathTo[P], k, D)
    BY DEF ChainTo
  <2> HIDE DEF D, k
  <2> QED
    BY <1>1, <1>2, <2>1
<1>4. /\ Len(Above(w)) = k - 1
      /\ \A i \in 1 .. k - 1 : Above(w)[i] = PathTo[P][k - i]
  <2>1. \A j \in 1 .. k : PathTo[w][j] = PathTo[P][j]
    <3> HIDE DEF P, k
    <3> QED
      BY <1>1, <1>2, OnPath DEF Depth, D
  <2> HIDE DEF P
  <2>2. Above(w) = [i \in 1 .. k - 1 |-> PathTo[w][k - i]]
    BY DEF Above
  <2> HIDE DEF k
  <2> QED
    BY <1>2, <2>1, <2>2
<1>5. /\ Len(chain) = D + 1 - k
      /\ \A i \in 1 .. D + 1 - k : chain[i] = rules[Nth(e, D + 2 - k - i)]
  <2>1. \A i \in 1 .. D + 1 - k : D + 1 - (D + 2 - k - i) = k + i - 1
    BY <1>2
  <2>2. \A i \in 1 .. D + 1 - k : Nth(e, D + 2 - k - i) = PathTo[P][k + i - 1]
    BY <2>1 DEF Nth
  <2> HIDE DEF P, D, k
  <2> QED
    BY <1>2, <1>3, <2>2 DEF RulesOf
<1>6. /\ Len(above) = k - 1
      /\ \A i \in 1 .. k - 1 : above[i] = rules[Nth(e, D + 1 - k + i)]
  <2>1. \A i \in 1 .. k - 1 : D + 1 - (D + 1 - k + i) = k - i
    BY <1>2
  <2>2. \A i \in 1 .. k - 1 : Nth(e, D + 1 - k + i) = PathTo[P][k - i]
    BY <2>1 DEF Nth
  <2> HIDE DEF P, D, k
  <2> QED
    BY <1>2, <1>4, <2>2 DEF RulesOf
<1> DEFINE S == {rules[Nth(e, i)] : i \in 1 .. D}
<1>7. chain \in Seq(S) /\ above \in Seq(S)
  <2>1. chain = [i \in 1 .. D + 1 - k |-> chain[i]] /\ above = [i \in 1 .. k - 1 |-> above[i]]
    <3> HIDE DEF D, k, P
    <3> QED
      BY <1>3, <1>4 DEF RulesOf
  <2>2. \A i \in 1 .. D + 1 - k : D + 2 - k - i \in 1 .. D
    BY <1>2
  <2>3. \A i \in 1 .. k - 1 : D + 1 - k + i \in 1 .. D
    BY <1>2
  <2> HIDE DEF chain, above, D, k, P
  <2>4. \A i \in 1 .. D + 1 - k : chain[i] \in S
    BY <1>5, <2>2
  <2>5. \A i \in 1 .. k - 1 : above[i] \in S
    BY <1>6, <2>3
  <2>6. D + 1 - k \in Nat /\ k - 1 \in Nat
    BY <1>2
  <2> HIDE DEF S
  <2>7. chain \in Seq(S)
    BY <2>1, <2>4, <2>6, AsSequence
  <2>8. above \in Seq(S)
    BY <2>1, <2>5, <2>6, AsSequence
  <2> QED
    BY <2>7, <2>8
<1> DEFINE near == Closest(chain)
<1>8. near \in Seq(S) /\ Len(near) = D + 1 - k /\ \A i \in 1 .. D + 1 - k : near[i] = rules[Nth(e, i)]
  <2> HIDE DEF chain, D, k, P
  <2>1. near = [i \in 1 .. D + 1 - k |-> chain[D + 2 - k - i]]
    <3>1. near = [i \in 1 .. Len(chain) |-> chain[Len(chain) + 1 - i]]
      BY DEF Closest
    <3>2. \A i \in 1 .. D + 1 - k : Len(chain) + 1 - i = D + 2 - k - i
      BY <1>2, <1>5
    <3> HIDE DEF near
    <3> QED
      BY <1>5, <3>1, <3>2
  <2>2. \A i \in 1 .. D + 1 - k : /\ D + 2 - k - i \in 1 .. D + 1 - k
                                  /\ D + 2 - k - (D + 2 - k - i) = i /\ i \in 1 .. D
    BY <1>2
  <2>3. \A i \in 1 .. D + 1 - k : chain[D + 2 - k - i] = rules[Nth(e, i)]
    BY <1>5, <2>2
  <2>4. \A i \in 1 .. D + 1 - k : near[i] = rules[Nth(e, i)] /\ near[i] \in S
    BY <2>1, <2>2, <2>3
  <2>5. D + 1 - k \in Nat /\ near = [i \in 1 .. D + 1 - k |-> near[i]]
    BY <1>2, <2>1
  <2> HIDE DEF S, near
  <2> QED
    BY <2>4, <2>5, AsSequence
<1> HIDE DEF chain, above, near, S, D, k, P
<1>9. near \o above = [i \in 1 .. D |-> rules[Nth(e, i)]]
  <2> DEFINE all == near \o above
  <2>1. /\ all \in Seq(S) /\ Len(all) = Len(near) + Len(above)
        /\ \A i \in 1 .. Len(near) : all[i] = near[i]
        /\ \A i \in 1 .. Len(above) : all[Len(near) + i] = above[i]
    <3>1. near \in Seq(S) /\ above \in Seq(S)
      BY <1>7, <1>8
    <3> QED
      BY <3>1, ConcatFacts
  <2> HIDE DEF all
  <2>2. Len(all) = D
    <3>1. (D + 1 - k) + (k - 1) = D
      BY <1>2
    <3> QED
      BY <1>6, <1>8, <2>1, <3>1
  <2>3. ASSUME NEW i \in 1 .. D
        PROVE  all[i] = rules[Nth(e, i)]
    <3>1. CASE i <= D + 1 - k
      BY <1>2, <1>8, <2>1, <3>1
    <3>2. CASE i > D + 1 - k
      <4>1. i - (D + 1 - k) \in 1 .. k - 1 /\ D + 1 - k + (i - (D + 1 - k)) = i
        BY <1>2, <3>2
      <4> QED
        BY <1>6, <1>8, <2>1, <4>1
    <3> QED
      BY <1>2, <3>1, <3>2
  <2>4. all = [i \in 1 .. D |-> all[i]]
    BY <2>1, <2>2, AsFunction
  <2>5. all = [i \in 1 .. D |-> rules[Nth(e, i)]]
    BY <2>3, <2>4
  <2> QED
    BY <2>5 DEF all
<1>10. ASSUME NEW i \in 1 .. D
       PROVE  (chain \o above)[i] = rules[Nth(e, IF i <= D + 1 - k THEN D + 2 - k - i ELSE i)]
  <2> DEFINE all == chain \o above
  <2>1. /\ \A j \in 1 .. Len(chain) : all[j] = chain[j]
        /\ \A j \in 1 .. Len(above) : all[Len(chain) + j] = above[j]
    BY <1>7, ConcatFacts
  <2> HIDE DEF all
  <2>2. CASE i <= D + 1 - k
    <3>1. i \in 1 .. D + 1 - k
      BY <1>2, <1>5, <1>6, <2>2
    <3>2. all[i] = rules[Nth(e, D + 2 - k - i)]
      BY <1>5, <2>1, <3>1
    <3> QED
      BY <2>2, <3>2 DEF all
  <2>3. CASE ~ (i <= D + 1 - k)
    <3>1. i - (D + 1 - k) \in 1 .. k - 1 /\ D + 1 - k + (i - (D + 1 - k)) = i
      BY <1>2, <1>5, <1>6, <2>3
    <3>2. all[i] = rules[Nth(e, i)]
      BY <1>5, <1>6, <2>1, <3>1
    <3> QED
      BY <2>3, <3>2 DEF all
  <2> QED
    BY <2>2, <2>3
<1>11. Len(chain) + Len(above) = D
  BY <1>2, <1>5, <1>6
<1>12. LaidOut(chain, above, rules, e, D, k)
  <2>1. near = Closest(chain)
    BY DEF near
  <2> HIDE DEF chain, above, D, k
  <2>2. \A i \in 1 .. D :
          (chain \o above)[i] = rules[Nth(e, IF i <= D + 1 - k THEN D + 2 - k - i ELSE i)]
    BY <1>10
  <2> QED
    BY <1>5, <1>6, <1>9, <2>2, <2>1, Zenon DEF LaidOut
<1> QED
  BY <1>12 DEF chain, above, D, k, P

-----------------------------------------------------------------------------
(* gitignore_skips is what git does.                                       *)

(* The closest of the first n directories around an entry that says        *)
(* anything of it.                                                         *)
FirstSays(says, n, verdict) ==
  \E i \in 1 .. n : says[i] = verdict /\ \A k \in 1 .. i - 1 : says[k] = "none"

(* The closest directory that rules is the first that says anything.       *)
LEMMA ClosestIsFirst ==
  ASSUME NEW e \in Entries, NEW n \in 0 .. Depth(Parent[e]), NEW verdict, NEW says,
         \A i \in 1 .. n : says[i] = verdict[Nth(e, i)]
  PROVE  ClosestIgnores(verdict, {Nth(e, i) : i \in 1 .. n}) <=> FirstSays(says, n, "ignore")
<1> DEFINE ruling == {Nth(e, i) : i \in 1 .. n}
           D == Depth(Parent[e])
<1>1. /\ D \in Nat \ {0}
      /\ \A i, j \in 1 .. D : /\ IsUnder(Nth(e, i), Nth(e, j)) <=> i <= j
                              /\ Nth(e, i) = Nth(e, j) => i = j
  <2>1. Parent[e] \in Dirs
    BY TreeAssumption
  <2> QED
    BY <2>1, UnderSelf, AroundFacts
<1>2. \A i \in 1 .. n : i \in 1 .. D
  BY <1>1
<1> HIDE DEF D
<1>3. ASSUME NEW i \in 1 .. n
      PROVE  (\A c \in ruling \ {Nth(e, i)} : IsUnder(c, Nth(e, i)) => verdict[c] = "none")
               <=> \A k \in 1 .. i - 1 : says[k] = "none"
  <2>1. ASSUME \A c \in ruling \ {Nth(e, i)} : IsUnder(c, Nth(e, i)) => verdict[c] = "none",
               NEW k \in 1 .. i - 1
        PROVE  says[k] = "none"
    <3>1. k \in 1 .. n /\ k # i /\ k <= i
      OBVIOUS
    <3>2. Nth(e, k) \in ruling \ {Nth(e, i)} /\ IsUnder(Nth(e, k), Nth(e, i))
      BY <1>1, <1>2, <3>1
    <3> QED
      BY <2>1, <3>1, <3>2
  <2>2. ASSUME \A k \in 1 .. i - 1 : says[k] = "none",
               NEW c \in ruling \ {Nth(e, i)}, IsUnder(c, Nth(e, i))
        PROVE  verdict[c] = "none"
    <3>1. PICK k \in 1 .. n : c = Nth(e, k)
      OBVIOUS
    <3>2. k # i /\ k <= i
      BY <1>1, <1>2, <2>2, <3>1
    <3>3. k \in 1 .. i - 1
      BY <3>2
    <3> QED
      BY <2>2, <3>1, <3>3
  <2> QED
    BY <2>1, <2>2
<1> QED
  BY <1>3 DEF ClosestIgnores, FirstSays

(* Where the first repository is the n-th directory.                       *)
LEMMA TellIsFirst ==
  ASSUME NEW says, NEW dirs, NEW D \in Nat, NEW n \in 1 .. D, NEW v, Tell(says, dirs, D, v),
         \A i \in 1 .. D : Below(dirs, i) <=> i <= n
  PROVE  /\ v = "ignore" <=> FirstSays(says, n, "ignore")
         /\ v = "none" <=> \A i \in 1 .. n : says[i] = "none"
<1>1. CASE v = "none"
  <2>1. \A i \in 1 .. n : says[i] = "none"
    BY <1>1 DEF Tell
  <2>2. ~ FirstSays(says, n, "ignore")
    BY <2>1 DEF FirstSays
  <2> QED
    BY <1>1, <2>1, <2>2
<1>2. CASE v # "none"
  <2>1. PICK i \in 1 .. D : /\ says[i] = v /\ Below(dirs, i)
                            /\ \A k \in 1 .. i - 1 : says[k] = "none"
    BY <1>2 DEF Tell
  <2>2. i \in 1 .. n /\ ~ \A j \in 1 .. n : says[j] = "none"
    BY <1>2, <2>1
  <2>3. ASSUME FirstSays(says, n, "ignore")
        PROVE  v = "ignore"
    <3>1. PICK j \in 1 .. n : says[j] = "ignore" /\ \A k \in 1 .. j - 1 : says[k] = "none"
      BY <2>3 DEF FirstSays
    <3>2. ~ (j < i)
      <4> SUFFICES ASSUME j < i PROVE FALSE
        OBVIOUS
      <4>1. j \in 1 .. i - 1
        BY <3>1
      <4> QED
        BY <2>1, <3>1, <4>1
    <3>3. ~ (i < j)
      <4> SUFFICES ASSUME i < j PROVE FALSE
        OBVIOUS
      <4>1. i \in 1 .. j - 1
        BY <2>2
      <4> QED
        BY <1>2, <2>1, <3>1, <4>1
    <3> QED
      BY <2>1, <2>2, <3>1, <3>2, <3>3
  <2>4. v = "ignore" => FirstSays(says, n, "ignore")
    BY <2>1, <2>2 DEF FirstSays
  <2> QED
    BY <1>2, <2>2, <2>3, <2>4
<1> QED
  BY <1>1, <1>2

(* Without a repository gitignore_skips goes through the chain backwards.  *)
LEMMA PlainlyIsFirst ==
  ASSUME NEW chain, NEW n \in Nat, Len(chain) = n, NEW e, NEW isDir, NEW gits,
         \A i \in 1 .. n : Says(chain[i].gitignore, e, isDir) = gits[n + 1 - i]
  PROVE  PlainlySkips(chain, e, isDir) <=> FirstSays(gits, n, "ignore")
<1> DEFINE says(i) == Says(chain[i].gitignore, e, isDir)
<1>1. \A i \in 1 .. n : says(i) = gits[n + 1 - i]
  OBVIOUS
<1>2. PlainlySkips(chain, e, isDir)
        <=> \E i \in 1 .. n : says(i) = "ignore" /\ \A j \in i + 1 .. n : says(j) = "none"
  BY DEF PlainlySkips
<1> HIDE DEF says
<1>3. \A i \in 1 .. n : /\ n + 1 - i \in 1 .. n /\ n + 1 - (n + 1 - i) = i
                        /\ \A j \in i + 1 .. n : n + 1 - j \in 1 .. (n + 1 - i) - 1 /\ j \in 1 .. n
                        /\ \A a \in 1 .. i - 1 : n + 1 - a \in (n + 1 - i) + 1 .. n /\ a \in 1 .. n
  OBVIOUS
<1>4. \A a \in 1 .. n : gits[a] = says(n + 1 - a)
  BY <1>1, <1>3
<1>5. ASSUME NEW i \in 1 .. n, says(i) = "ignore", \A j \in i + 1 .. n : says(j) = "none"
      PROVE  FirstSays(gits, n, "ignore")
  <2> DEFINE b == n + 1 - i
  <2>1. b \in 1 .. n /\ gits[b] = "ignore"
    BY <1>1, <1>3, <1>5
  <2>2. ASSUME NEW a \in 1 .. b - 1
        PROVE  gits[a] = "none"
    <3>1. n + 1 - a \in i + 1 .. n /\ a \in 1 .. n
      BY <1>3, <2>1
    <3> QED
      BY <1>4, <1>5, <3>1
  <2> HIDE DEF b
  <2> QED
    BY <2>1, <2>2 DEF FirstSays
<1>6. ASSUME FirstSays(gits, n, "ignore")
      PROVE  \E i \in 1 .. n : says(i) = "ignore" /\ \A j \in i + 1 .. n : says(j) = "none"
  <2>1. PICK b \in 1 .. n : gits[b] = "ignore" /\ \A a \in 1 .. b - 1 : gits[a] = "none"
    BY <1>6 DEF FirstSays
  <2>2. n + 1 - b \in 1 .. n /\ says(n + 1 - b) = "ignore"
    BY <1>3, <1>4, <2>1
  <2>3. ASSUME NEW j \in (n + 1 - b) + 1 .. n
        PROVE  says(j) = "none"
    <3>1. n + 1 - j \in 1 .. b - 1 /\ j \in 1 .. n
      BY <2>2
    <3> QED
      BY <1>1, <2>1, <3>1
  <2> QED
    BY <2>2, <2>3
<1> QED
  BY <1>2, <1>5, <1>6

(* What the directories that rule an entry say of it.                      *)
OfGitignore(rules, w, e, isDir) ==
  [d \in Ruling(rules, w, e) |-> Says(rules[d].gitignore, e, isDir)]
OfExclude(rules, w, e, isDir) ==
  [d \in Ruling(rules, w, e) |-> Says(rules[d].exclude, e, isDir)]

(* IsIgnored, by the names above.                                          *)
LEMMA IgnoredMeans ==
  ASSUME NEW rules, NEW w, NEW e, NEW isDir
  PROVE  IsIgnored(rules, w, e, isDir)
           <=> \/ ClosestIgnores(OfGitignore(rules, w, e, isDir), Ruling(rules, w, e))
               \/ /\ Repositories(rules, e) # {}
                  /\ \A d \in Ruling(rules, w, e) : OfGitignore(rules, w, e, isDir)[d] = "none"
                  /\ ClosestIgnores(OfExclude(rules, w, e, isDir), Ruling(rules, w, e))
BY Zenon DEF IsIgnored, OfGitignore, OfExclude

(* gitignore_skips decides as git does.                                    *)
LEMMA SkipsAgree ==
  ASSUME NEW e \in Entries, NEW w \in Dirs, IsUnder(Parent[e], w), NEW rules, NEW isDir,
         \A d \in Around(e) : rules[d].git \in BOOLEAN
  PROVE  GitignoreSkips(RulesOf(rules, ChainTo(w, Parent[e])), RulesOf(rules, Above(w)), e, isDir)
           <=> IsIgnored(rules, w, e, isDir)
<1> DEFINE D == Depth(Parent[e])
           k == Depth(w)
           chain == RulesOf(rules, ChainTo(w, Parent[e]))
           above == RulesOf(rules, Above(w))
           r(i) == rules[Nth(e, i)]
           gits == [i \in 1 .. D |-> Says(r(i).gitignore, e, isDir)]
           excludes == [i \in 1 .. D |-> Says(r(i).exclude, e, isDir)]
           ruling == Ruling(rules, w, e)
           ofGit == OfGitignore(rules, w, e, isDir)
           ofExclude == OfExclude(rules, w, e, isDir)
<1>1. /\ D \in Nat \ {0} /\ k \in 1 .. D
      /\ Around(e) = {Nth(e, i) : i \in 1 .. D}
      /\ \A i \in 1 .. D : Nth(e, i) \in Dirs
      /\ \A i, j \in 1 .. D : IsUnder(Nth(e, i), Nth(e, j)) <=> i <= j
      /\ \A i \in 1 .. D : IsUnder(Nth(e, i), w) <=> i <= D + 1 - k
  BY AroundFacts
<1>2. LaidOut(chain, above, rules, e, D, k)
  BY ChainFacts
<1>3. \A i \in 1 .. D : r(i).git \in BOOLEAN
  BY <1>1
<1>4. /\ IsIgnored(rules, w, e, isDir)
            <=> \/ ClosestIgnores(ofGit, ruling)
                \/ /\ Repositories(rules, e) # {} /\ \A d \in ruling : ofGit[d] = "none"
                   /\ ClosestIgnores(ofExclude, ruling)
  BY IgnoredMeans
<1>5. ofGit = [d \in ruling |-> Says(rules[d].gitignore, e, isDir)]
  BY DEF OfGitignore
<1>6. ofExclude = [d \in ruling |-> Says(rules[d].exclude, e, isDir)]
  BY DEF OfExclude
<1> HIDE DEF D, k, chain, above
<1>7. /\ Len(chain) = D + 1 - k /\ Len(above) = k - 1
      /\ \A i \in 1 .. D + 1 - k : chain[i] = r(D + 2 - k - i)
      /\ Closest(chain) \o above = [i \in 1 .. D |-> r(i)]
      /\ \A i \in 1 .. D : (chain \o above)[i] = r(IF i <= D + 1 - k THEN D + 2 - k - i ELSE i)
  BY <1>2 DEF LaidOut
<1>8. (\A i \in 1 .. Len(chain) + Len(above) : ~ (chain \o above)[i].git)
         <=> \A i \in 1 .. D : ~ r(i).git
  <2>1. Len(chain) + Len(above) = D
    BY <1>1, <1>7
  <2>2. ASSUME \A i \in 1 .. D : ~ r(i).git, NEW i \in 1 .. D
        PROVE  ~ (chain \o above)[i].git
    <3>1. CASE i <= D + 1 - k
      <4>1. D + 2 - k - i \in 1 .. D
        BY <1>1, <3>1
      <4> QED
        BY <1>7, <2>1, <2>2, <3>1, <4>1
    <3>2. CASE ~ (i <= D + 1 - k)
      BY <1>7, <2>1, <2>2, <3>2
    <3> QED
      BY <3>1, <3>2
  <2>3. ASSUME \A i \in 1 .. D : ~ (chain \o above)[i].git, NEW i \in 1 .. D
        PROVE  ~ r(i).git
    <3>1. CASE i <= D + 1 - k
      <4>1. /\ D + 2 - k - i \in 1 .. D /\ D + 2 - k - i <= D + 1 - k
            /\ D + 2 - k - (D + 2 - k - i) = i
        BY <1>1, <3>1
      <4>2. (chain \o above)[D + 2 - k - i] = r(i)
        BY <1>7, <2>1, <4>1
      <4> QED
        BY <2>3, <4>1, <4>2
    <3>2. CASE ~ (i <= D + 1 - k)
      BY <1>7, <2>1, <2>3, <3>2
    <3> QED
      BY <3>1, <3>2
  <2> QED
    BY <2>1, <2>2, <2>3
<1>9. CASE \A i \in 1 .. D : ~ r(i).git
  <2>1. Repositories(rules, e) = {}
    BY <1>1, <1>9 DEF Repositories
  <2>2. ruling = {Nth(e, i) : i \in 1 .. D + 1 - k}
    <3>1. ruling = {d \in Around(e) : IsUnder(d, w)}
      BY <2>1 DEF Ruling
    <3>2. \A i \in 1 .. D + 1 - k : i \in 1 .. D /\ i <= D + 1 - k
      BY <1>1
    <3>3. ASSUME NEW d \in ruling
          PROVE  d \in {Nth(e, i) : i \in 1 .. D + 1 - k}
      <4>1. PICK i \in 1 .. D : d = Nth(e, i)
        BY <1>1, <3>1
      <4>2. i \in 1 .. D + 1 - k
        BY <1>1, <3>1, <4>1
      <4> QED
        BY <4>1, <4>2
    <3>4. ASSUME NEW i \in 1 .. D + 1 - k
          PROVE  Nth(e, i) \in ruling
      BY <1>1, <3>1, <3>2
    <3> HIDE DEF ruling
    <3> QED
      BY <3>3, <3>4
  <2>3. D + 1 - k \in 0 .. D
    BY <1>1
  <2>4. ClosestIgnores(ofGit, ruling) <=> FirstSays(gits, D + 1 - k, "ignore")
    <3>1. \A i \in 1 .. D + 1 - k : gits[i] = ofGit[Nth(e, i)]
      <4>1. \A i \in 1 .. D + 1 - k : i \in 1 .. D /\ Nth(e, i) \in ruling
        BY <1>1, <2>2
      <4>2. \A i \in 1 .. D : gits[i] = Says(rules[Nth(e, i)].gitignore, e, isDir)
        OBVIOUS
      <4> HIDE DEF ruling
      <4>3. \A d \in ruling : ofGit[d] = Says(rules[d].gitignore, e, isDir)
        BY <1>5
      <4> HIDE DEF gits, ofGit
      <4> QED
        BY <4>1, <4>2, <4>3
    <3> HIDE DEF gits, ofGit, ruling
    <3> QED
      BY <2>2, <2>3, <3>1, ClosestIsFirst DEF D
  <2>5. PlainlySkips(chain, e, isDir) <=> FirstSays(gits, D + 1 - k, "ignore")
    <3> DEFINE n == D + 1 - k
    <3>1. \A i \in 1 .. n : i \in 1 .. D /\ D + 2 - k - i \in 1 .. n /\ D + 2 - k - (D + 2 - k - i) = i
      BY <1>1
    <3>2. \A i \in 1 .. n : Says(chain[i].gitignore, e, isDir) = gits[D + 2 - k - i]
      BY <1>7, <3>1
    <3>3. n \in Nat /\ D + 2 - k = n + 1 /\ Len(chain) = n
      BY <1>1, <1>7
    <3> HIDE DEF gits, n
    <3>4. \A i \in 1 .. n : Says(chain[i].gitignore, e, isDir) = gits[n + 1 - i]
      <4>1. \A i \in 1 .. n : D + 2 - k - i = n + 1 - i
        BY <1>1, <3>3
      <4> QED
        BY <3>2, <4>1
    <3>5. PlainlySkips(chain, e, isDir) <=> FirstSays(gits, n, "ignore")
      <4> HIDE DEF chain
      <4>1. n \in Nat /\ Len(chain) = n
        BY <3>3
      <4> QED
        BY <3>4, <4>1, PlainlyIsFirst
    <3> QED
      BY <3>5 DEF n
  <2>6. GitignoreSkips(chain, above, e, isDir) <=> PlainlySkips(chain, e, isDir)
    BY <1>8, <1>9 DEF GitignoreSkips
  <2> HIDE DEF gits, excludes, ofGit, ofExclude, ruling
  <2> QED
    BY <1>4, <2>1, <2>4, <2>5, <2>6 DEF chain, above
<1>10. CASE ~ \A i \in 1 .. D : ~ r(i).git
  <2>1. PICK n \in 1 .. D : r(n).git /\ \A i \in 1 .. n - 1 : ~ r(i).git
    <3> DEFINE S == {i \in 1 .. D : r(i).git}
    <3>1. S \in SUBSET Nat /\ S # {}
      BY <1>1, <1>10
    <3>2. PICK n \in S : \A m \in S : n <= m
      <4> HIDE DEF S
      <4> QED
        BY <3>1, LeastNatural
    <3>3. \A i \in 1 .. n - 1 : i \in 1 .. D /\ ~ (n <= i)
      BY <1>1
    <3> QED
      BY <3>2, <3>3
  <2>2. Repositories(rules, e) # {}
    BY <1>1, <2>1 DEF Repositories
  <2>3. ruling = {Nth(e, i) : i \in 1 .. n}
    <3>1. ruling = {d \in Around(e) : \A g \in Repositories(rules, e) : IsUnder(d, g)}
      BY <2>2 DEF Ruling
    <3>2. ASSUME NEW d \in ruling
          PROVE  d \in {Nth(e, i) : i \in 1 .. n}
      <4>1. PICK i \in 1 .. D : d = Nth(e, i)
        BY <1>1, <3>1
      <4>2. Nth(e, n) \in Repositories(rules, e)
        BY <1>1, <2>1 DEF Repositories
      <4>3. i <= n
        BY <1>1, <3>1, <4>1, <4>2
      <4> QED
        BY <4>1, <4>3
    <3>3. ASSUME NEW i \in 1 .. n, NEW g \in Repositories(rules, e)
          PROVE  Nth(e, i) \in Around(e) /\ IsUnder(Nth(e, i), g)
      <4>1. PICK j \in 1 .. D : g = Nth(e, j) /\ r(j).git
        BY <1>1 DEF Repositories
      <4>2. ~ (j \in 1 .. n - 1)
        BY <2>1, <4>1
      <4>3. i \in 1 .. D /\ i <= j
        BY <1>1, <4>2
      <4> QED
        BY <1>1, <4>1, <4>3
    <3> HIDE DEF ruling
    <3> QED
      BY <2>2, <3>1, <3>2, <3>3
  <2> DEFINE dirs == [i \in 1 .. D |-> r(i)]
             state == Visited(dirs, e, isDir)
  <2>4. Len(dirs) = D /\ \A i \in 1 .. D : dirs[i] = r(i)
    <3>1. Len([i \in 1 .. D |-> rules[Nth(e, i)]]) = D
      BY <1>1
    <3> QED
      BY <3>1
  <2>5. \A i \in 1 .. D : Below(dirs, i) <=> i <= n
    <3> HIDE DEF dirs
    <3> TAKE i \in 1 .. D
    <3>1. n \in Nat /\ D \in Nat /\ \A j \in 1 .. i - 1 : j \in 1 .. D /\ dirs[j] = r(j)
      BY <1>1, <2>4
    <3>2. CASE i <= n
      <4>1. \A j \in 1 .. i - 1 : j \in 1 .. n - 1
        BY <3>1, <3>2
      <4> QED
        BY <2>1, <3>1, <3>2, <4>1 DEF Below
    <3>3. CASE ~ (i <= n)
      <4>1. n \in 1 .. i - 1
        BY <3>1, <3>3
      <4> QED
        BY <2>1, <3>1, <3>3, <4>1 DEF Below
    <3> QED
      BY <3>2, <3>3
  <2>6. gits = [i \in 1 .. Len(dirs) |-> Says(dirs[i].gitignore, e, isDir)]
        /\ excludes = [i \in 1 .. Len(dirs) |-> Says(dirs[i].exclude, e, isDir)]
    BY <2>4
  <2>7. Tell(gits, dirs, D, state.gitignore) /\ Tell(excludes, dirs, D, state.exclude)
    <3> HIDE DEF gits, excludes
    <3> QED
      BY <1>1, <1>3, <2>4, <2>6, VisitedTells
  <2>8. GitignoreSkips(chain, above, e, isDir) <=> Or(state.gitignore, state.exclude) = "ignore"
    BY <1>7, <1>8, <1>10 DEF GitignoreSkips
  <2>9. \A i \in 1 .. n : i \in 1 .. D /\ Nth(e, i) \in ruling
    <3> HIDE DEF ruling
    <3> QED
      BY <1>1, <2>3
  <2>10. \A i \in 1 .. n : gits[i] = ofGit[Nth(e, i)] /\ excludes[i] = ofExclude[Nth(e, i)]
    <3>1. \A i \in 1 .. D : /\ gits[i] = Says(rules[Nth(e, i)].gitignore, e, isDir)
                            /\ excludes[i] = Says(rules[Nth(e, i)].exclude, e, isDir)
      OBVIOUS
    <3> HIDE DEF ruling
    <3>2. \A d \in ruling : /\ ofGit[d] = Says(rules[d].gitignore, e, isDir)
                            /\ ofExclude[d] = Says(rules[d].exclude, e, isDir)
      BY <1>5, <1>6
    <3> HIDE DEF gits, excludes, ofGit, ofExclude
    <3> QED
      BY <2>9, <3>1, <3>2
  <2> HIDE DEF gits, excludes, ofGit, ofExclude, ruling, dirs, state
  <2>11. /\ state.gitignore = "ignore" <=> FirstSays(gits, n, "ignore")
         /\ state.gitignore = "none" <=> \A i \in 1 .. n : gits[i] = "none"
         /\ state.exclude = "ignore" <=> FirstSays(excludes, n, "ignore")
    BY <1>1, <2>5, <2>7, TellIsFirst
  <2>12. /\ ClosestIgnores(ofGit, ruling) <=> FirstSays(gits, n, "ignore")
         /\ ClosestIgnores(ofExclude, ruling) <=> FirstSays(excludes, n, "ignore")
    <3>1. n \in 0 .. D
      OBVIOUS
    <3> QED
      BY <2>3, <2>10, <3>1, ClosestIsFirst DEF D
  <2>13. (\A d \in ruling : ofGit[d] = "none") <=> \A i \in 1 .. n : gits[i] = "none"
    BY <2>3, <2>10
  <2>14. Or(state.gitignore, state.exclude) = "ignore"
           <=> \/ state.gitignore = "ignore"
               \/ state.gitignore = "none" /\ state.exclude = "ignore"
    BY DEF Or
  <2> QED
    BY <1>4, <2>2, <2>8, <2>11, <2>12, <2>13, <2>14 DEF chain, above
<1> QED
  BY <1>9, <1>10

-----------------------------------------------------------------------------
(* The stack of the filter (GitignoreFilter::skips).                       *)

(* A sequence of directories that leads down from w.                       *)
LeadsDown(w, s) ==
  s # << >> =>
    /\ IsUnder(s[Len(s)].dir, w) /\ Len(s) = Depth(s[Len(s)].dir) + 1 - Depth(w)
    /\ \A i \in 1 .. Len(s) : s[i].dir = PathTo[s[Len(s)].dir][Depth(w) - 1 + i]

AllRules == UNION {Readings[d] : d \in Dirs}

(* The elements of a sequence, and of its first k.                         *)
LEMMA PrefixFacts ==
  ASSUME NEW S, NEW s \in Seq(S), NEW k \in 0 .. Len(s)
  PROVE  /\ SubSeq(s, 1, k) \in Seq(S) /\ Len(SubSeq(s, 1, k)) = k
         /\ \A i \in 1 .. k : SubSeq(s, 1, k)[i] = s[i]
         /\ SubSeq(s, 1, k) = << >> <=> k = 0
OBVIOUS

(* Such a sequence begins with w, and goes one directory deeper each time. *)
LEMMA DownFacts ==
  ASSUME NEW w \in Dirs, NEW s, Len(s) \in Nat \ {0}, s # << >>, LeadsDown(w, s),
         s[Len(s)].dir \in Dirs
  PROVE  /\ s[1].dir = w
         /\ \A i \in 1 .. Len(s) :
              /\ s[i].dir \in Dirs /\ Depth(s[i].dir) = Depth(w) - 1 + i /\ IsUnder(s[i].dir, w)
              /\ \A j \in 1 .. i : /\ PathTo[s[i].dir][Depth(w) - 1 + j] = s[j].dir
                                   /\ IsUnder(s[i].dir, s[j].dir)
<1> DEFINE d == s[Len(s)].dir
           n == Len(s)
           k == Depth(w)
<1>1. /\ k \in Nat \ {0} /\ Depth(d) \in Nat /\ n \in Nat \ {0} /\ n = Depth(d) + 1 - k
      /\ \A i \in 1 .. n : s[i].dir = PathTo[d][k - 1 + i]
      /\ PathTo[d][k] = w
  <2>1. k \in Nat \ {0} /\ Depth(d) \in Nat
    BY PathFacts
  <2>2. IsUnder(d, w) /\ n = Depth(d) + 1 - k /\ \A i \in 1 .. n : s[i].dir = PathTo[d][k - 1 + i]
    BY DEF LeadsDown
  <2> QED
    BY <2>1, <2>2 DEF IsUnder
<1>2. d \in Dirs /\ w \in Dirs
  OBVIOUS
<1> HIDE DEF d, n, k
<1>3. \A i \in 1 .. n : /\ k - 1 + i \in 1 .. Depth(d)
                        /\ \A j \in 1 .. i : k - 1 + j \in 1 .. k - 1 + i /\ j \in 1 .. n
  BY <1>1
<1>4. ASSUME NEW i \in 1 .. n
      PROVE  /\ s[i].dir \in Dirs /\ Depth(s[i].dir) = k - 1 + i
             /\ \A j \in 1 .. i : PathTo[s[i].dir][k - 1 + j] = s[j].dir
  <2>1. s[i].dir = PathTo[d][k - 1 + i] /\ k - 1 + i \in 1 .. Depth(d)
    BY <1>1, <1>3
  <2>2. /\ s[i].dir \in Dirs /\ Depth(s[i].dir) = k - 1 + i
        /\ \A j \in 1 .. k - 1 + i : PathTo[s[i].dir][j] = PathTo[d][j]
    BY <1>2, <2>1, OnPath
  <2>3. \A j \in 1 .. i : PathTo[s[i].dir][k - 1 + j] = PathTo[d][k - 1 + j] /\ s[j].dir = PathTo[d][k - 1 + j]
    BY <1>1, <1>3, <2>2
  <2> QED
    BY <2>2, <2>3
<1>5. ASSUME NEW i \in 1 .. n, NEW j \in 1 .. i
      PROVE  IsUnder(s[i].dir, s[j].dir)
  <2>1. j \in 1 .. n
    BY <1>3
  <2>2. Depth(s[j].dir) = k - 1 + j /\ Depth(s[i].dir) = k - 1 + i
        /\ PathTo[s[i].dir][k - 1 + j] = s[j].dir
    BY <1>4, <2>1
  <2> QED
    BY <1>1, <2>2 DEF IsUnder
<1>6. s[1].dir = w /\ 1 \in 1 .. n
  BY <1>1
<1>7. ASSUME NEW i \in 1 .. n
      PROVE  IsUnder(s[i].dir, w)
  BY <1>5, <1>6
<1> QED
  BY <1>4, <1>5, <1>6, <1>7 DEF n, k

(* It leads down without its end, and with one more directory.             *)
LEMMA DownPrefix ==
  ASSUME NEW w \in Dirs, NEW S, NEW s \in Seq(S), LeadsDown(w, s), NEW k \in 0 .. Len(s),
         \A i \in 1 .. Len(s) : s[i].dir \in Dirs
  PROVE  LeadsDown(w, SubSeq(s, 1, k))
<1>1. CASE k = 0
  BY <1>1 DEF LeadsDown
<1>2. CASE k # 0
  <2>1. Len(s) \in Nat \ {0} /\ s # << >> /\ s[Len(s)].dir \in Dirs /\ k \in 1 .. Len(s)
    BY <1>2
  <2>2. \A i \in 1 .. Len(s) :
          /\ s[i].dir \in Dirs /\ Depth(s[i].dir) = Depth(w) - 1 + i /\ IsUnder(s[i].dir, w)
          /\ \A j \in 1 .. i : PathTo[s[i].dir][Depth(w) - 1 + j] = s[j].dir
    BY <2>1, DownFacts
  <2>3. Len(SubSeq(s, 1, k)) = k /\ \A i \in 1 .. k : SubSeq(s, 1, k)[i] = s[i]
    BY PrefixFacts
  <2>4. Depth(w) \in Nat
    BY PathFacts
  <2> DEFINE p == SubSeq(s, 1, k)
  <2>5. p[Len(p)] = s[k] /\ Len(p) = k /\ \A i \in 1 .. k : p[i] = s[i]
    BY <2>1, <2>3
  <2> HIDE DEF p
  <2>6. k = Depth(s[k].dir) + 1 - Depth(w)
    BY <2>1, <2>2, <2>4
  <2>7. LeadsDown(w, p)
    BY <2>1, <2>2, <2>5, <2>6 DEF LeadsDown
  <2> QED
    BY <2>7 DEF p
<1> QED
  BY <1>1, <1>2

LEMMA DownNext ==
  ASSUME NEW w \in Dirs, NEW S, NEW s \in Seq(S), s # << >>, LeadsDown(w, s),
         s[Len(s)].dir \in Dirs, NEW r \in S, r.dir \in Dirs \ {Top},
         Parent[r.dir] = s[Len(s)].dir
  PROVE  LeadsDown(w, Append(s, r)) /\ IsUnder(r.dir, w)
<1> DEFINE n == Len(s)
           p == Append(s, r)
           k == Depth(w)
           e == r.dir
<1>1. n \in Nat \ {0} /\ Len(p) = n + 1 /\ p[n + 1] = r /\ \A i \in 1 .. n : p[i] = s[i]
  OBVIOUS
<1>2. /\ IsUnder(s[n].dir, w) /\ n = Depth(s[n].dir) + 1 - k
      /\ \A i \in 1 .. n : s[i].dir = PathTo[s[n].dir][k - 1 + i]
  BY DEF LeadsDown
<1>3. /\ Depth(e) = Depth(s[n].dir) + 1 /\ IsUnder(e, s[n].dir)
      /\ \A i \in 1 .. Depth(s[n].dir) : PathTo[e][i] = PathTo[s[n].dir][i]
  BY ChildFacts, UnderParent
<1>4. k \in Nat \ {0} /\ Depth(s[n].dir) \in Nat /\ e \in Dirs /\ PathTo[e][Depth(e)] = e
  BY PathFacts
<1>5. IsUnder(e, w)
  BY <1>2, <1>3, <1>4, UnderTransitive
<1> HIDE DEF n, p, k, e
<1>6. n + 1 = Depth(e) + 1 - k /\ k - 1 + (n + 1) = Depth(e)
  BY <1>2, <1>3, <1>4
<1>7. ASSUME NEW i \in 1 .. n + 1
      PROVE  p[i].dir = PathTo[e][k - 1 + i]
  <2>1. CASE i = n + 1
    <3>1. k - 1 + i = Depth(e)
      BY <1>6, <2>1
    <3>2. p[i].dir = e
      BY <1>1, <2>1 DEF e
    <3> QED
      BY <1>4, <3>1, <3>2
  <2>2. CASE i # n + 1
    <3>1. i \in 1 .. n /\ k - 1 + i \in 1 .. Depth(s[n].dir)
      BY <1>1, <1>2, <1>4, <2>2
    <3> QED
      BY <1>1, <1>2, <1>3, <3>1
  <2> QED
    BY <2>1, <2>2
<1>8. p[Len(p)].dir = e
  BY <1>1 DEF e
<1>9. LeadsDown(w, p)
  <2>1. \A i \in 1 .. Len(p) : p[i].dir = PathTo[p[Len(p)].dir][k - 1 + i]
    BY <1>1, <1>7, <1>8
  <2>2. IsUnder(p[Len(p)].dir, w) /\ Len(p) = Depth(p[Len(p)].dir) + 1 - k
    BY <1>1, <1>5, <1>6, <1>8
  <2> QED
    BY <2>1, <2>2 DEF LeadsDown, k
<1> QED
  BY <1>5, <1>9 DEF p, e

(* GitignoreFilter::skips keeps the longest part of its stack the parent   *)
(* is under, and that has the root of the walk.                            *)
LEMMA KeptFacts ==
  ASSUME NEW w \in Dirs, NEW P \in Dirs, IsUnder(P, w), NEW S, NEW stack \in Seq(S),
         LeadsDown(w, stack), \A i \in 1 .. Len(stack) : stack[i].dir \in Dirs
  PROVE  \E k \in 0 .. Len(stack) : /\ Kept(stack, P) = SubSeq(stack, 1, k)
                                    /\ k = 0 => stack = << >>
                                    /\ k # 0 => IsUnder(P, stack[k].dir)
<1> DEFINE N == Len(stack)
<1>1. \E k \in 0 .. N : Keeps(stack, P, k)
  <2> DEFINE A == {m \in 0 .. N : N - m = 0 \/ IsUnder(P, stack[N - m].dir)}
  <2>1. N \in Nat /\ A \in SUBSET Nat /\ N \in A
    OBVIOUS
  <2>2. PICK m \in A : \A other \in A : m <= other
    <3> HIDE DEF A
    <3> QED
      BY <2>1, LeastNatural
  <2>3. N - m \in 0 .. N /\ (N - m = 0 \/ IsUnder(P, stack[N - m].dir))
    BY <2>1
  <2>4. ASSUME NEW j \in N - m + 1 .. N
        PROVE  ~ IsUnder(P, stack[j].dir)
    <3>1. /\ N - j \in 0 .. N /\ N - (N - j) = j /\ ~ (m <= N - j)
      BY <2>1, <2>3
    <3>2. N - j \notin A
      BY <2>2, <3>1
    <3> QED
      BY <3>1, <3>2
  <2> QED
    BY <2>3, <2>4 DEF Keeps
<1> DEFINE k == CHOOSE k \in 0 .. N : Keeps(stack, P, k)
<1>2. k \in 0 .. N /\ Keeps(stack, P, k)
  BY <1>1
<1>3. Kept(stack, P) = SubSeq(stack, 1, k)
  BY DEF Kept
<1> HIDE DEF k
<1>4. ASSUME k = 0, stack # << >>
      PROVE  FALSE
  <2>1. N \in Nat \ {0} /\ stack[N].dir \in Dirs
    BY <1>4
  <2>2. stack[1].dir = w
    BY <1>4, <2>1, DownFacts
  <2>3. 1 \in k + 1 .. N
    BY <1>4, <2>1
  <2> QED
    BY <1>2, <2>2, <2>3 DEF Keeps
<1> QED
  BY <1>2, <1>3, <1>4 DEF Keeps

(* It then holds the rules of the directories the walk is in.              *)
LEMMA SyncedFacts ==
  ASSUME NEW w \in Dirs, NEW P \in Dirs, IsUnder(P, w), NEW S, walk[w].stack \in Seq(S),
         LeadsDown(w, walk[w].stack),
         \A i \in 1 .. Len(walk[w].stack) :
            walk[w].stack[i].dir \in Dirs /\ walk[w].stack[i] = Held(walk[w].stack[i].dir)
  PROVE  Synced(w, P) = [i \in 1 .. Depth(P) + 1 - Depth(w) |-> Held(PathTo[P][Depth(w) - 1 + i])]
<1> DEFINE stack == walk[w].stack
           D == Depth(P)
           K == Depth(w)
           T == {Held(d) : d \in Dirs}
           kept == Kept(stack, P)
           rooted == IF kept = << >> THEN <<Held(w)>> ELSE kept
           m == Len(rooted)
           top == rooted[m].dir
           below == SubSeq(PathTo[P], Depth(top) + 1, D)
           rest == [i \in 1 .. Len(below) |-> Held(below[i])]
<1>1. /\ K \in 1 .. D /\ D \in Nat \ {0} /\ PathTo[P][K] = w
      /\ PathTo[P] \in Seq(Dirs) /\ Len(PathTo[P]) = D
  BY PathFacts DEF IsUnder, Depth
<1>2. \A d \in Dirs : Held(d).dir = d /\ Held(d) \in T
  BY DEF Held
<1>3. /\ rooted \in Seq(T) /\ m \in 1 .. D + 1 - K
      /\ \A i \in 1 .. m : rooted[i] = Held(PathTo[P][K - 1 + i])
  <2>1. PICK k \in 0 .. Len(stack) : /\ kept = SubSeq(stack, 1, k)
                                     /\ k = 0 => stack = << >>
                                     /\ k # 0 => IsUnder(P, stack[k].dir)
    BY KeptFacts
  <2>2. CASE k = 0
    <3>1. rooted = <<Held(w)>>
      BY <2>1, <2>2
    <3>2. m = 1 /\ rooted \in Seq(T) /\ rooted[1] = Held(w)
      <4>1. Held(w) \in T
        BY <1>2
      <4> HIDE DEF T, rooted
      <4> QED
        BY <3>1, <4>1
    <3> HIDE DEF rooted, m, K, D, T
    <3>3. \A i \in 1 .. m : i = 1 /\ K - 1 + i = K
      BY <1>1, <3>2
    <3> QED
      BY <1>1, <3>2, <3>3
  <2>3. CASE k # 0
    <3> DEFINE t == stack[k].dir
    <3>1. /\ Len(stack) \in Nat \ {0} /\ stack # << >> /\ stack[Len(stack)].dir \in Dirs
          /\ k \in 1 .. Len(stack)
      BY <2>3
    <3>2. /\ t \in Dirs /\ Depth(t) = K - 1 + k
          /\ \A i \in 1 .. k : PathTo[t][K - 1 + i] = stack[i].dir
      BY <3>1, DownFacts
    <3>3. IsUnder(P, t)
      BY <2>1, <2>3
    <3> HIDE DEF t
    <3>4. Depth(t) <= D /\ PathTo[P][Depth(t)] = t
      BY <3>3 DEF IsUnder
    <3> HIDE DEF K, D
    <3>5. Depth(t) \in 1 .. D
      BY <1>1, <3>1, <3>2, <3>4
    <3>6. \A j \in 1 .. Depth(t) : PathTo[t][j] = PathTo[P][j]
      BY <3>4, <3>5, OnPath DEF D
    <3>7. \A i \in 1 .. k : K - 1 + i \in 1 .. Depth(t)
      BY <1>1, <3>1, <3>2
    <3>8. \A i \in 1 .. k : stack[i].dir = PathTo[P][K - 1 + i]
      BY <3>2, <3>6, <3>7
    <3>9. Len(kept) = k /\ \A i \in 1 .. k : kept[i] = stack[i] /\ kept # << >>
      BY <2>1, <3>1, PrefixFacts
    <3>10. kept \in Seq(T)
      <4>1. \A i \in 1 .. k : kept[i] \in T
        BY <1>2, <3>1, <3>9
      <4>2. kept \in Seq(S)
        BY <2>1, PrefixFacts
      <4> HIDE DEF kept, T
      <4>3. kept = [i \in 1 .. Len(kept) |-> kept[i]] /\ Len(kept) \in Nat
        BY <4>2, AsFunction
      <4> QED
        BY <3>9, <4>1, <4>3, AsSequence
    <3>11. rooted = kept
      BY <3>1, <3>9
    <3> HIDE DEF rooted, kept, stack
    <3>12. k <= D + 1 - K
      BY <1>1, <3>1, <3>2, <3>5
    <3>13. \A i \in 1 .. k : i \in 1 .. Len(stack)
      BY <3>1
    <3>14. \A i \in 1 .. k : rooted[i] = Held(PathTo[P][K - 1 + i])
      BY <3>8, <3>9, <3>11, <3>13 DEF stack
    <3> QED
      BY <3>1, <3>9, <3>10, <3>11, <3>12, <3>14
  <2> QED
    BY <2>2, <2>3
<1>4. Synced(w, P) = rooted \o rest
  BY DEF Synced
<1> HIDE DEF rooted, kept, m, K, D
<1>5. top = PathTo[P][K - 1 + m] /\ Depth(top) = K - 1 + m
  <2>1. K - 1 + m \in 1 .. D /\ m \in 1 .. m
    BY <1>1, <1>3
  <2>2. PathTo[P][K - 1 + m] \in Dirs /\ Depth(PathTo[P][K - 1 + m]) = K - 1 + m
    BY <2>1, OnPath DEF D
  <2>3. rooted[m] = Held(PathTo[P][K - 1 + m])
    BY <1>3, <2>1
  <2> QED
    BY <1>2, <2>2, <2>3
<1> HIDE DEF top
<1>6. Len(below) = D + 1 - K - m /\ \A i \in 1 .. D + 1 - K - m : below[i] = PathTo[P][K - 1 + m + i]
  <2>1. below = SubSeq(PathTo[P], K + m, D)
    <3>1. Depth(top) + 1 = K + m
      BY <1>1, <1>3, <1>5
    <3> QED
      BY <3>1
  <2> HIDE DEF below
  <2>2. K + m \in 1 .. D + 1
    BY <1>1, <1>3
  <2>3. Len(below) = D - (K + m) + 1 /\ \A i \in 1 .. D - (K + m) + 1 : below[i] = PathTo[P][K + m + i - 1]
    BY <1>1, <2>1, <2>2
  <2>4. /\ D - (K + m) + 1 = D + 1 - K - m
        /\ \A i \in 1 .. D - (K + m) + 1 : K + m + i - 1 = K - 1 + m + i
    BY <1>1, <1>3
  <2> QED
    BY <2>3, <2>4
<1> HIDE DEF below
<1>7. /\ rest \in Seq(T) /\ Len(rest) = D + 1 - K - m
      /\ \A i \in 1 .. D + 1 - K - m : rest[i] = Held(PathTo[P][K - 1 + m + i])
  <2>1. D + 1 - K - m \in Nat
    BY <1>1, <1>3
  <2>2. \A i \in 1 .. D + 1 - K - m : K - 1 + m + i \in 1 .. D
    BY <1>1, <1>3
  <2>3. \A i \in 1 .. D + 1 - K - m : PathTo[P][K - 1 + m + i] \in Dirs
    BY <2>2, OnPath DEF D
  <2>4. rest = [i \in 1 .. D + 1 - K - m |-> rest[i]]
    BY <1>6
  <2>5. \A i \in 1 .. D + 1 - K - m : rest[i] = Held(PathTo[P][K - 1 + m + i])
    BY <1>6
  <2>6. \A i \in 1 .. D + 1 - K - m : rest[i] \in T
    BY <1>2, <2>3, <2>5
  <2> HIDE DEF rest, T
  <2> QED
    BY <2>1, <2>4, <2>5, <2>6, AsSequence
<1> HIDE DEF rest, T
<1> DEFINE all == rooted \o rest
           n == D + 1 - K
<1>8. /\ all \in Seq(T) /\ Len(all) = m + (D + 1 - K - m)
      /\ \A i \in 1 .. m : all[i] = rooted[i]
      /\ \A i \in 1 .. D + 1 - K - m : all[m + i] = rest[i]
  <2>1. /\ all \in Seq(T) /\ Len(all) = Len(rooted) + Len(rest)
        /\ \A i \in 1 .. Len(rooted) : all[i] = rooted[i]
        /\ \A i \in 1 .. Len(rest) : all[Len(rooted) + i] = rest[i]
    <3>1. rooted \in Seq(T) /\ rest \in Seq(T)
      BY <1>3, <1>7
    <3> QED
      BY ONLY <3>1, ConcatFacts
  <2>2. Len(rooted) = m
    BY DEF m
  <2> HIDE DEF all
  <2> QED
    BY <1>7, <2>1, <2>2
<1> HIDE DEF all
<1>9. m + (D + 1 - K - m) = n /\ n \in Nat /\ m \in 1 .. n
  BY <1>1, <1>3
<1>10. ASSUME NEW i \in 1 .. n
       PROVE  all[i] = Held(PathTo[P][K - 1 + i])
  <2>1. CASE i <= m
    <3>1. i \in 1 .. m
      BY <1>9, <2>1
    <3> QED
      BY <1>3, <1>8, <3>1
  <2>2. CASE ~ (i <= m)
    <3>1. i - m \in 1 .. D + 1 - K - m /\ m + (i - m) = i /\ K - 1 + m + (i - m) = K - 1 + i
      BY <1>1, <1>9, <2>2
    <3> QED
      BY <1>7, <1>8, <3>1
  <2> QED
    BY <2>1, <2>2
<1>11. all = [i \in 1 .. n |-> all[i]]
  BY <1>8, <1>9, AsFunction
<1>12. all = [i \in 1 .. n |-> Held(PathTo[P][K - 1 + i])]
  BY <1>10, <1>11
<1> QED
  BY <1>4, <1>12 DEF all, n, D, K

-----------------------------------------------------------------------------
(* What a walk keeps to.                                                   *)

(* What becomes of an entry follows from the directories around it.        *)
LEMMA IgnoredLocal ==
  ASSUME NEW e, NEW w, NEW isDir, NEW rules, NEW other, \A d \in Around(e) : other[d] = rules[d]
  PROVE  IsIgnored(other, w, e, isDir) <=> IsIgnored(rules, w, e, isDir)
<1>1. Repositories(other, e) = Repositories(rules, e)
  BY DEF Repositories
<1>2. Ruling(other, w, e) = Ruling(rules, w, e)
  BY <1>1 DEF Ruling
<1>3. \A d \in Ruling(rules, w, e) : other[d] = rules[d]
  BY DEF Ruling
<1>4. OfGitignore(other, w, e, isDir) = OfGitignore(rules, w, e, isDir)
  BY <1>2, <1>3 DEF OfGitignore
<1>5. OfExclude(other, w, e, isDir) = OfExclude(rules, w, e, isDir)
  BY <1>2, <1>3 DEF OfExclude
<1> QED
  BY <1>1, <1>2, <1>4, <1>5, IgnoredMeans

(* In a repository it is the same for every walk.                          *)
LEMMA IgnoredAlike ==
  ASSUME NEW e, NEW w, NEW m, NEW isDir, NEW rules, Repositories(rules, e) # {}
  PROVE  IsIgnored(rules, m, e, isDir) <=> IsIgnored(rules, w, e, isDir)
<1>1. Ruling(rules, m, e) = Ruling(rules, w, e)
  BY DEF Ruling
<1>2. OfGitignore(rules, m, e, isDir) = OfGitignore(rules, w, e, isDir)
  BY <1>1 DEF OfGitignore
<1>3. OfExclude(rules, m, e, isDir) = OfExclude(rules, w, e, isDir)
  BY <1>1 DEF OfExclude
<1> QED
  BY <1>1, <1>2, <1>3, IgnoredMeans

Outcomes == {"unseen", "pruned", "skipped", "named", "kept"}

Opened == [dir : Dirs, left : Seq(Entries)]
Pushed == [dir : Dirs, rules : AllRules]

WalkStates ==
  [at : {"idle", "walking", "parsing", "done"}, need : Seq(Dirs), reading : AllRules \cup {Unread},
   ancestors : Seq(AllRules), open : Seq(Opened),
   stack : Seq(Pushed), seen : [Entries -> Outcomes]]

WalksTyped ==
  /\ AreIgnoreFiles(disk) /\ IsListing(listing)
  /\ memo \in [Dirs -> AllRules \cup {Unread}]
  /\ \A d \in Dirs : memo[d] \in Readings[d] \cup {Unread}
  /\ walk \in [Walks -> WalkStates]

(* The directories above w whose rules the walk has not asked for.         *)
Unasked(w) == SubSeq(Above(w), Len(walk[w].ancestors) + 1, Len(Above(w)))
Entered(w) == walk[w].open[Len(walk[w].open)].dir

(* What a walk asks for: the directory it has entered, and those above.    *)
AsksInOrder(w) ==
  /\ Len(walk[w].ancestors) <= Len(Above(w))
  /\ \/ walk[w].need = Unasked(w)
     \/ walk[w].open # << >> /\ walk[w].need = <<Entered(w)>> \o Unasked(w)
  /\ walk[w].at = "parsing" \/ walk[w].reading # Unread => walk[w].need # << >>
  /\ walk[w].reading # Unread => walk[w].reading \in Readings[Wanted(w)]
  /\ walk[w].at = "done" => walk[w].need = << >> /\ walk[w].open = << >>

(* What it has asked for is in the cache, and stays.                       *)
HasRead(w) ==
  /\ \A i \in 1 .. Len(walk[w].ancestors) :
        memo[Above(w)[i]] # Unread /\ walk[w].ancestors[i] = memo[Above(w)[i]]
  /\ \A i \in 1 .. Len(walk[w].stack) :
        memo[walk[w].stack[i].dir] # Unread /\ walk[w].stack[i] = Held(walk[w].stack[i].dir)
  /\ \A i \in 1 .. Len(walk[w].open) :
        \/ memo[walk[w].open[i].dir] # Unread
        \/ i = Len(walk[w].open) /\ walk[w].need = <<Entered(w)>> \o Unasked(w)

Descends(w) ==
  /\ LeadsDown(w, walk[w].open) /\ LeadsDown(w, walk[w].stack)
  /\ \A i \in 1 .. Len(walk[w].open) : \A j \in 1 .. Len(walk[w].open[i].left) :
        Parent[walk[w].open[i].left[j]] = walk[w].open[i].dir

(* What it made of an entry, it made of rules that stay.                   *)
HasJudged(w) ==
  \A e \in Entries : walk[w].seen[e] \notin {"unseen", "pruned"} =>
     /\ IsUnder(Parent[e], w) /\ \A d \in Around(e) : memo[d] # Unread
     /\ walk[w].seen[e] = Fate(w, e)

WalkInv(w) ==
  \/ walk[w] = NotBegun
  \/ walk[w].at # "idle" /\ AsksInOrder(w) /\ HasRead(w) /\ Descends(w) /\ HasJudged(w)

WalksInv == WalksTyped /\ \A w \in Walks : WalkInv(w)

(* Whoever has read an ignore file, it is not read again.                  *)
MemoGrows == \A d \in Dirs : memo[d] # Unread => memo'[d] = memo[d]

(* The directories above a walk, from the parent of its root up.           *)
LEMMA AboveFacts ==
  ASSUME NEW w \in Dirs
  PROVE  /\ Above(w) \in Seq(Dirs) /\ Len(Above(w)) = Depth(w) - 1
         /\ \A i \in 1 .. Len(Above(w)) : /\ Above(w)[i] \in Dirs /\ ~ IsUnder(Above(w)[i], w)
                                          /\ Above(w)[i] = PathTo[w][Depth(w) - i]
<1>1. Depth(w) \in Nat \ {0} /\ Depth(w) - 1 \in Nat
  BY PathFacts
<1> DEFINE n == Depth(w) - 1
           A == Above(w)
<1>2. A = [i \in 1 .. n |-> PathTo[w][Depth(w) - i]]
  BY DEF Above
<1>3. \A i \in 1 .. n : /\ PathTo[w][Depth(w) - i] \in Dirs
                        /\ Depth(PathTo[w][Depth(w) - i]) = Depth(w) - i
  <2>1. \A i \in 1 .. n : Depth(w) - i \in 1 .. Depth(w)
    BY <1>1
  <2> QED
    BY <2>1, OnPath
<1> HIDE DEF A
<1>4. \A i \in 1 .. n : A[i] = PathTo[w][Depth(w) - i] /\ A[i] \in Dirs
  BY <1>2, <1>3
<1>5. A = [i \in 1 .. n |-> A[i]]
  BY <1>2
<1>6. A \in Seq(Dirs) /\ Len(A) = n
  BY <1>1, <1>4, <1>5, AsSequence
<1>7. \A i \in 1 .. n : ~ IsUnder(A[i], w)
  <2> TAKE i \in 1 .. n
  <2>1. Depth(A[i]) < Depth(w)
    BY <1>1, <1>3, <1>4
  <2>2. Depth(A[i]) \in Nat
    BY <1>4, PathFacts
  <2> QED
    BY <1>1, <2>1, <2>2 DEF IsUnder
<1> QED
  BY <1>4, <1>6, <1>7 DEF A, n

(* What the record of a walk holds.                                        *)
LEMMA StateFacts ==
  ASSUME NEW s \in WalkStates
  PROVE  /\ s.at \in {"idle", "walking", "parsing", "done"} /\ s.need \in Seq(Dirs)
         /\ s.reading \in AllRules \cup {Unread} /\ s.ancestors \in Seq(AllRules)
         /\ Len(s.ancestors) \in Nat
         /\ s.open \in Seq(Opened) /\ Len(s.open) \in Nat
         /\ \A i \in 1 .. Len(s.open) : s.open[i].dir \in Dirs /\ s.open[i].left \in Seq(Entries)
         /\ s.stack \in Seq(Pushed) /\ \A i \in 1 .. Len(s.stack) : s.stack[i].dir \in Dirs
         /\ s.seen \in [Entries -> Outcomes]
<1>1. /\ s.at \in {"idle", "walking", "parsing", "done"} /\ s.need \in Seq(Dirs)
      /\ s.reading \in AllRules \cup {Unread} /\ s.ancestors \in Seq(AllRules)
      /\ s.open \in Seq(Opened) /\ s.stack \in Seq(Pushed) /\ s.seen \in [Entries -> Outcomes]
  BY DEF WalkStates
<1>2. Len(s.ancestors) \in Nat /\ Len(s.open) \in Nat
  BY <1>1
<1>3. \A i \in 1 .. Len(s.open) : s.open[i] \in Opened
  BY <1>1
<1>4. \A i \in 1 .. Len(s.stack) : s.stack[i] \in Pushed
  BY <1>1
<1>5. \A r \in Opened : r.dir \in Dirs /\ r.left \in Seq(Entries)
  BY DEF Opened
<1>6. \A r \in Pushed : r.dir \in Dirs
  BY DEF Pushed
<1> QED
  BY <1>1, <1>2, <1>3, <1>4, <1>5, <1>6

(* What a walk has judged stands as long as what was read stays read.      *)
LEMMA JudgedRests ==
  ASSUME NEW w, HasJudged(w), walk'[w].seen = walk[w].seen, MemoGrows
  PROVE  HasJudged(w)'
<1> SUFFICES ASSUME NEW e \in Entries, walk[w].seen[e] \notin {"unseen", "pruned"}
             PROVE  /\ IsUnder(Parent[e], w) /\ \A d \in Around(e) : memo'[d] # Unread
                    /\ walk[w].seen[e] = Fate(w, e)'
  BY DEF HasJudged
<1>1. /\ IsUnder(Parent[e], w) /\ \A d \in Around(e) : memo[d] # Unread
      /\ walk[w].seen[e] = Fate(w, e)
  BY DEF HasJudged
<1>2. \A d \in Around(e) : memo'[d] = memo[d]
  BY <1>1 DEF MemoGrows, Around
<1>3. \A isDir \in BOOLEAN : IsIgnored(memo', w, e, isDir) <=> IsIgnored(memo, w, e, isDir)
  BY <1>2, IgnoredLocal
<1>4. Fate(w, e)' = Fate(w, e)
  BY <1>3 DEF Fate
<1> QED
  BY <1>1, <1>2, <1>4

(* A walk that another leaves alone keeps what it has.                     *)
LEMMA WalkRests ==
  ASSUME WalksTyped, NEW w \in Walks, WalkInv(w), walk'[w] = walk[w], MemoGrows
  PROVE  WalkInv(w)'
<1>1. w \in Dirs /\ walk[w] \in WalkStates
  BY WalksAssumption DEF WalksTyped
<1>2. CASE walk[w] = NotBegun
  BY <1>2 DEF WalkInv, NotBegun
<1>3. CASE walk[w].at # "idle" /\ AsksInOrder(w) /\ HasRead(w) /\ Descends(w) /\ HasJudged(w)
  <2>1. AsksInOrder(w)'
    BY <1>3 DEF AsksInOrder, Unasked, Entered, Wanted
  <2>2. Descends(w)'
    BY <1>3 DEF Descends
  <2>3. HasRead(w)'
    <3>1. /\ Len(walk[w].ancestors) \in Nat /\ Len(walk[w].ancestors) <= Len(Above(w))
          /\ \A i \in 1 .. Len(walk[w].ancestors) : Above(w)[i] \in Dirs
      <4>1. walk[w].ancestors \in Seq(AllRules)
        BY <1>1 DEF WalkStates
      <4>2. Len(walk[w].ancestors) \in Nat /\ Len(walk[w].ancestors) <= Len(Above(w))
        BY <1>3, <4>1 DEF AsksInOrder
      <4>3. Len(Above(w)) \in Nat
        BY <1>1, AboveFacts
      <4> QED
        BY <1>1, <4>2, <4>3, AboveFacts
    <3>2. \A i \in 1 .. Len(walk[w].ancestors) :
             memo'[Above(w)[i]] # Unread /\ walk[w].ancestors[i] = memo'[Above(w)[i]]
      BY <1>3, <3>1 DEF HasRead, MemoGrows
    <3>3. \A i \in 1 .. Len(walk[w].stack) : walk[w].stack[i].dir \in Dirs
      BY <1>1, StateFacts
    <3>4. \A i \in 1 .. Len(walk[w].stack) :
             /\ memo'[walk[w].stack[i].dir] # Unread
             /\ walk[w].stack[i] = [dir |-> walk[w].stack[i].dir, rules |-> memo'[walk[w].stack[i].dir]]
      BY <1>3, <3>3 DEF HasRead, MemoGrows, Held
    <3>5. \A i \in 1 .. Len(walk[w].open) : walk[w].open[i].dir \in Dirs
      BY <1>1, StateFacts
    <3>6. \A i \in 1 .. Len(walk[w].open) :
             \/ memo'[walk[w].open[i].dir] # Unread
             \/ i = Len(walk[w].open) /\ walk[w].need = <<Entered(w)>> \o Unasked(w)
      BY <1>3, <3>5 DEF HasRead, MemoGrows
    <3> QED
      BY <3>2, <3>4, <3>6 DEF HasRead, Held, Entered, Unasked
  <2>4. HasJudged(w)'
    BY <1>3, JudgedRests
  <2> QED
    BY <1>3, <2>1, <2>2, <2>3, <2>4 DEF WalkInv
<1> QED
  BY <1>2, <1>3 DEF WalkInv

-----------------------------------------------------------------------------
(* Each step of a walk keeps to it.                                        *)

(* Of sequences, and of the record a walk begins with.                     *)
LEMMA WholeSequence ==
  ASSUME NEW S, NEW s \in Seq(S)
  PROVE  SubSeq(s, 1, Len(s)) = s
OBVIOUS

LEMMA ConsFacts ==
  ASSUME NEW S, NEW x \in S, NEW s \in Seq(S)
  PROVE  /\ <<x>> \o s \in Seq(S) /\ <<x>> \o s # << >>
         /\ Head(<<x>> \o s) = x /\ Tail(<<x>> \o s) = s
<1> DEFINE p == <<x>> \o s
<1>1. p \in Seq(S) /\ Len(p) = 1 + Len(s) /\ p[1] = x /\ \A i \in 1 .. Len(s) : p[1 + i] = s[i]
  <2>1. <<x>> \in Seq(S) /\ Len(<<x>>) = 1 /\ <<x>>[1] = x
    OBVIOUS
  <2> QED
    OBVIOUS
<1> HIDE DEF p
<1>2. Len(s) \in Nat /\ p # << >> /\ Head(p) = x
  BY <1>1
<1>3. Tail(p) \in Seq(S) /\ Len(Tail(p)) = Len(s) /\ \A i \in 1 .. Len(s) : Tail(p)[i] = p[1 + i]
  BY <1>1, <1>2
<1>4. Tail(p) = s
  BY <1>1, <1>3
<1> QED
  BY <1>1, <1>2, <1>4 DEF p

BegunFrom(r, need, open) == [r EXCEPT !.at = "walking", !.need = need, !.open = open]

LEMMA BegunFacts ==
  ASSUME NEW r \in WalkStates, NEW need \in Seq(Dirs), NEW open \in Seq(Opened),
         NEW s, s = BegunFrom(r, need, open)
  PROVE  /\ s \in WalkStates /\ s.at = "walking" /\ s.need = need /\ s.open = open
         /\ s.reading = r.reading /\ s.ancestors = r.ancestors /\ s.stack = r.stack
         /\ s.seen = r.seen
BY DEF WalkStates, BegunFrom

(* A step of one walk leaves the others as they are.                       *)
LEMMA OneWalkMoves ==
  ASSUME WalksInv, NEW w \in Walks, WalksTyped', MemoGrows, WalkInv(w)',
         \A v \in Walks \ {w} : walk'[v] = walk[v]
  PROVE  WalksInv'
<1>1. \A v \in Walks \ {w} : WalkInv(v)'
  BY WalkRests DEF WalksInv
<1> QED
  BY <1>1 DEF WalksInv

(* The new state of a walk.                                                *)
LEMMA WalksStayTyped ==
  ASSUME WalksTyped, NEW w \in Walks, NEW s \in WalkStates, walk' = [walk EXCEPT ![w] = s],
         UNCHANGED <<disk, listing>>,
         memo' = memo \/ \E d \in Dirs : \E rules \in Readings[d] : memo' = [memo EXCEPT ![d] = rules]
  PROVE  WalksTyped' /\ walk'[w] = s /\ \A v \in Walks \ {w} : walk'[v] = walk[v]
<1>1. walk' \in [Walks -> WalkStates] /\ walk'[w] = s /\ \A v \in Walks \ {w} : walk'[v] = walk[v]
  BY DEF WalksTyped
<1>2. AreIgnoreFiles(disk)' /\ IsListing(listing)'
  BY DEF WalksTyped, AreIgnoreFiles, IsListing
<1>3. memo' \in [Dirs -> AllRules \cup {Unread}] /\ \A d \in Dirs : memo'[d] \in Readings[d] \cup {Unread}
  <2>1. CASE memo' = memo
    BY <2>1 DEF WalksTyped
  <2>2. ASSUME NEW d \in Dirs, NEW rules \in Readings[d], memo' = [memo EXCEPT ![d] = rules]
        PROVE  /\ memo' \in [Dirs -> AllRules \cup {Unread}]
               /\ \A c \in Dirs : memo'[c] \in Readings[c] \cup {Unread}
    <3>1. rules \in AllRules
      BY DEF AllRules
    <3> QED
      BY <2>2, <3>1 DEF WalksTyped
  <2> QED
    BY <2>1, <2>2
<1> QED
  BY <1>1, <1>2, <1>3 DEF WalksTyped

(* collect_files begins.                                                   *)
LEMMA BeginKeeps ==
  ASSUME WalksInv, NEW w \in Walks, Begin(w)
  PROVE  WalksInv'
<1> DEFINE open == <<[dir |-> w, left |-> listing[w]]>>
           need == <<w>> \o Above(w)
           s == BegunFrom(walk[w], need, open)
<1>1. w \in Dirs /\ WalksTyped /\ walk[w] = NotBegun /\ walk[w] \in WalkStates
  BY WalksAssumption DEF WalksInv, WalksTyped, WalkInv, Begin
<1>2. walk' = [walk EXCEPT ![w] = s] /\ UNCHANGED <<disk, listing, edits, memo>>
  BY DEF Begin, AncestorsOf, BegunFrom
<1>3. Above(w) \in Seq(Dirs)
  BY <1>1, AboveFacts
<1>4. listing[w] \in Seq(Entries) /\ \A i \in 1 .. Len(listing[w]) : Parent[listing[w][i]] = w
  BY <1>1 DEF WalksTyped, IsListing
<1>5. need \in Seq(Dirs) /\ open \in Seq(Opened)
  <2>1. need \in Seq(Dirs)
    BY <1>1, <1>3, ConsFacts
  <2>2. open \in Seq(Opened)
    BY <1>1, <1>4 DEF Opened
  <2> QED
    BY <2>1, <2>2
<1>6. /\ s \in WalkStates /\ s.at = "walking" /\ s.need = need /\ s.reading = Unread
      /\ s.ancestors = << >> /\ s.open = open /\ s.stack = << >>
      /\ s.seen = [e \in Entries |-> "unseen"]
  <2> HIDE DEF need, open, s
  <2>1. /\ s \in WalkStates /\ s.at = "walking" /\ s.need = need /\ s.open = open
        /\ s.reading = walk[w].reading /\ s.ancestors = walk[w].ancestors
        /\ s.stack = walk[w].stack /\ s.seen = walk[w].seen
    <3>1. s = BegunFrom(walk[w], need, open)
      BY DEF s
    <3> QED
      BY <1>1, <1>5, <3>1, BegunFacts
  <2>2. /\ walk[w].reading = Unread /\ walk[w].ancestors = << >> /\ walk[w].stack = << >>
        /\ walk[w].seen = [e \in Entries |-> "unseen"]
    BY <1>1 DEF NotBegun
  <2> QED
    BY <2>1, <2>2
<1> HIDE DEF s
<1>7. WalksTyped' /\ walk'[w] = s /\ \A v \in Walks \ {w} : walk'[v] = walk[v]
  BY <1>1, <1>6, <1>2, WalksStayTyped
<1>8. Len(s.open) = 1 /\ s.open[1].dir = w /\ s.open[1].left = listing[w] /\ s.open # << >>
  BY <1>6
<1>9. (Entered(w) = w /\ Unasked(w) = Above(w))'
  <2>1. SubSeq(Above(w), 1, Len(Above(w))) = Above(w)
    BY <1>3, WholeSequence
  <2>2. Len(<< >>) + 1 = 1
    OBVIOUS
  <2> QED
    BY <1>6, <1>7, <1>8, <2>1, <2>2 DEF Entered, Unasked
<1>10. AsksInOrder(w)'
  <2>1. Len(s.ancestors) <= Len(Above(w))
    BY <1>6, <1>3
  <2>2. (walk[w].open # << >> /\ walk[w].need = <<Entered(w)>> \o Unasked(w))'
    BY <1>6, <1>7, <1>8, <1>9
  <2>3. s.reading = Unread /\ s.need # << >> /\ s.at = "walking"
    BY <1>1, <1>6, <1>3, ConsFacts
  <2>4. ( /\ Len(walk[w].ancestors) <= Len(Above(w)) /\ walk[w].reading = Unread
          /\ walk[w].need # << >> /\ walk[w].at = "walking")'
    BY <1>7, <2>1, <2>3
  <2> QED
    BY <2>2, <2>4, Zenon DEF AsksInOrder
<1>11. HasRead(w)'
  <2>1. (walk[w].need = <<Entered(w)>> \o Unasked(w))'
    BY <1>6, <1>7, <1>9
  <2>2. (Len(walk[w].ancestors) = 0 /\ Len(walk[w].stack) = 0 /\ Len(walk[w].open) = 1)'
    BY <1>6, <1>7, <1>8
  <2>3. (\A i \in 1 .. 0 : FALSE) /\ (\A i \in 1 .. 1 : i = 1)
    OBVIOUS
  <2> QED
    BY <2>1, <2>2, <2>3, Zenon DEF HasRead
<1>12. Descends(w)'
  <2>1. LeadsDown(w, s.open)
    <3>1. IsUnder(w, w) /\ Depth(w) \in Nat /\ PathTo[w][Depth(w)] = w
      BY <1>1, UnderSelf, PathFacts
    <3>2. \A i \in 1 .. 1 : i = 1 /\ Depth(w) - 1 + i = Depth(w)
      BY <3>1
    <3> QED
      BY <1>8, <3>1, <3>2 DEF LeadsDown
  <2>2. LeadsDown(w, s.stack)
    BY <1>6 DEF LeadsDown
  <2> QED
    BY <1>4, <1>7, <1>8, <2>1, <2>2 DEF Descends
<1>13. HasJudged(w)'
  BY <1>6, <1>7 DEF HasJudged
<1>14. WalkInv(w)'
  BY <1>6, <1>7, <1>10, <1>11, <1>12, <1>13 DEF WalkInv
<1>15. MemoGrows
  BY <1>2 DEF MemoGrows
<1> QED
  BY <1>7, <1>14, <1>15, OneWalkMoves

(* Of a walk that asks for a directory.                                    *)
LEMMA AskedFacts ==
  ASSUME WalksInv, NEW w \in Walks, walk[w].at # "idle", walk[w].need # << >>
  PROVE  /\ Wanted(w) \in Dirs
         /\ \/ /\ IsUnder(Wanted(w), w) /\ Wanted(w) = Entered(w) /\ walk[w].open # << >>
               /\ walk[w].need = <<Entered(w)>> \o Unasked(w) /\ Tail(walk[w].need) = Unasked(w)
            \/ /\ ~ IsUnder(Wanted(w), w) /\ walk[w].need = Unasked(w)
               /\ Len(walk[w].ancestors) < Len(Above(w))
               /\ Wanted(w) = Above(w)[Len(walk[w].ancestors) + 1]
               /\ Tail(walk[w].need) = SubSeq(Above(w), Len(walk[w].ancestors) + 2, Len(Above(w)))
         /\ walk[w].open # << >> /\ walk[w].need = <<Entered(w)>> \o Unasked(w) =>
               Wanted(w) = Entered(w)
<1>1. walk[w] \in WalkStates /\ AsksInOrder(w) /\ Descends(w) /\ w \in Dirs
  BY WalksAssumption DEF WalksInv, WalksTyped, WalkInv, NotBegun
<1> DEFINE n == Len(walk[w].ancestors)
           A == Above(w)
<1>2. n \in Nat /\ n <= Len(A) /\ A \in Seq(Dirs) /\ walk[w].need \in Seq(Dirs)
      /\ \A i \in 1 .. Len(A) : A[i] \in Dirs /\ ~ IsUnder(A[i], w)
  BY <1>1, AboveFacts, StateFacts DEF AsksInOrder
<1>3. Unasked(w) \in Seq(Dirs) /\ Unasked(w) = SubSeq(A, n + 1, Len(A))
  BY <1>2 DEF Unasked
<1>4. Wanted(w) \in Dirs
  <2> HIDE DEF n, A
  <2> QED
    BY <1>2 DEF Wanted
<1>5. CASE walk[w].open # << >> /\ walk[w].need = <<Entered(w)>> \o Unasked(w)
  <2>1. Entered(w) \in Dirs /\ IsUnder(Entered(w), w)
    <3>1. walk[w].open \in Seq(Opened) /\ \A i \in 1 .. Len(walk[w].open) : walk[w].open[i].dir \in Dirs
      BY <1>1, StateFacts
    <3>2. Len(walk[w].open) \in 1 .. Len(walk[w].open)
      BY <1>5, <3>1
    <3> QED
      BY <1>1, <1>5, <3>1, <3>2 DEF Descends, LeadsDown, Entered
  <2>2. Wanted(w) = Entered(w) /\ Tail(walk[w].need) = Unasked(w)
    <3>1. /\ Head(<<Entered(w)>> \o Unasked(w)) = Entered(w)
          /\ Tail(<<Entered(w)>> \o Unasked(w)) = Unasked(w)
      BY <1>3, <2>1, ConsFacts
    <3> QED
      BY <1>5, <3>1 DEF Wanted
  <2> QED
    BY <1>4, <1>5, <2>1, <2>2
<1>6. CASE /\ walk[w].need = Unasked(w)
           /\ ~ (walk[w].open # << >> /\ walk[w].need = <<Entered(w)>> \o Unasked(w))
  <2>1. n < Len(A) /\ Wanted(w) = A[n + 1] /\ Tail(walk[w].need) = SubSeq(A, n + 2, Len(A))
    <3>1. walk[w].need = SubSeq(A, n + 1, Len(A)) /\ walk[w].need # << >>
      BY <1>3, <1>6
    <3> HIDE DEF n, A
    <3> QED
      BY <1>2, <3>1 DEF Wanted
  <2>2. n + 1 \in 1 .. Len(A)
    BY <1>2, <2>1
  <2> QED
    BY <1>2, <1>4, <1>6, <2>1, <2>2
<1> QED
  BY <1>1, <1>5, <1>6 DEF AsksInOrder

(* What a walk that has begun has.                                         *)
LEMMA WalkHas ==
  ASSUME WalksInv, NEW w \in Walks, walk[w].at # "idle"
  PROVE  /\ w \in Dirs /\ WalksTyped /\ walk[w] \in WalkStates
         /\ AsksInOrder(w) /\ HasRead(w) /\ Descends(w) /\ HasJudged(w)
BY WalksAssumption DEF WalksInv, WalksTyped, WalkInv, NotBegun

(* Of a sequence that grows.                                               *)
LEMMA AppendFacts ==
  ASSUME NEW S, NEW s \in Seq(S), NEW x \in S
  PROVE  /\ Append(s, x) \in Seq(S) /\ Len(Append(s, x)) = Len(s) + 1
         /\ Append(s, x)[Len(s) + 1] = x /\ Append(s, x) # << >>
         /\ \A i \in 1 .. Len(s) : Append(s, x)[i] = s[i]
OBVIOUS

(* The cache answers, with what it goes by from now on.                    *)
LEMMA AnswerKeeps ==
  ASSUME WalksInv, NEW w \in Walks, walk[w].at # "idle", walk[w].need # << >>,
         NEW s \in WalkStates, s.at = "walking", s.need = Tail(walk[w].need), s.reading = Unread,
         s.ancestors = IF IsUnder(Wanted(w), w) THEN walk[w].ancestors
                       ELSE Append(walk[w].ancestors, memo'[Wanted(w)]),
         s.open = walk[w].open, s.stack = walk[w].stack, s.seen = walk[w].seen,
         walk' = [walk EXCEPT ![w] = s], UNCHANGED <<disk, listing>>,
         memo' = memo \/ \E d \in Dirs : \E rules \in Readings[d] : memo' = [memo EXCEPT ![d] = rules],
         MemoGrows, memo'[Wanted(w)] # Unread
  PROVE  WalksInv'
<1> DEFINE n == Len(walk[w].ancestors)
           A == Above(w)
<1>1. /\ w \in Dirs /\ WalksTyped /\ walk[w] \in WalkStates
      /\ AsksInOrder(w) /\ HasRead(w) /\ Descends(w) /\ HasJudged(w)
  BY WalkHas
<1>2. WalksTyped' /\ walk'[w] = s /\ \A v \in Walks \ {w} : walk'[v] = walk[v]
  BY <1>1, WalksStayTyped
<1>3. /\ n \in Nat /\ walk[w].ancestors \in Seq(AllRules) /\ Len(walk[w].open) \in Nat
      /\ \A i \in 1 .. Len(walk[w].open) : walk[w].open[i].dir \in Dirs
      /\ \A i \in 1 .. Len(walk[w].stack) : walk[w].stack[i].dir \in Dirs
  BY <1>1, StateFacts
<1>4. A \in Seq(Dirs) /\ Len(A) \in Nat /\ \A i \in 1 .. Len(A) : A[i] \in Dirs
  BY <1>1, AboveFacts
<1>5. n <= Len(A)
  BY <1>1 DEF AsksInOrder
<1>6. /\ \A i \in 1 .. n : memo'[A[i]] # Unread /\ walk[w].ancestors[i] = memo'[A[i]]
      /\ \A i \in 1 .. Len(walk[w].stack) :
            /\ memo'[walk[w].stack[i].dir] # Unread
            /\ walk[w].stack[i] = [dir |-> walk[w].stack[i].dir, rules |-> memo'[walk[w].stack[i].dir]]
  <2>1. \A i \in 1 .. n : A[i] \in Dirs
    BY <1>3, <1>4, <1>5
  <2> HIDE DEF n, A
  <2> QED
    BY <1>1, <1>3, <2>1 DEF HasRead, MemoGrows, Held, n, A
<1>7. /\ Wanted(w) \in Dirs
      /\ \/ IsUnder(Wanted(w), w) /\ Tail(walk[w].need) = Unasked(w)
         \/ /\ ~ IsUnder(Wanted(w), w) /\ n < Len(A) /\ Wanted(w) = A[n + 1]
            /\ Tail(walk[w].need) = SubSeq(A, n + 2, Len(A))
      /\ walk[w].open # << >> /\ walk[w].need = <<Entered(w)>> \o Unasked(w) => Wanted(w) = Entered(w)
  BY AskedFacts
<1>8. /\ Len(s.ancestors) \in Nat /\ Len(s.ancestors) <= Len(A)
      /\ s.need = SubSeq(A, Len(s.ancestors) + 1, Len(A))
      /\ \A i \in 1 .. Len(s.ancestors) : memo'[A[i]] # Unread /\ s.ancestors[i] = memo'[A[i]]
  <2>1. CASE IsUnder(Wanted(w), w)
    <3>1. s.ancestors = walk[w].ancestors /\ s.need = Unasked(w)
      BY <1>7, <2>1
    <3> HIDE DEF A
    <3> QED
      BY <1>3, <1>5, <1>6, <3>1 DEF Unasked, A
  <2>2. CASE ~ IsUnder(Wanted(w), w)
    <3>1. /\ s.ancestors = Append(walk[w].ancestors, memo'[A[n + 1]]) /\ n < Len(A)
          /\ s.need = SubSeq(A, n + 2, Len(A)) /\ memo'[A[n + 1]] # Unread
      BY <1>7, <2>2
    <3> DEFINE r == memo'[A[n + 1]]
    <3>2. /\ Len(s.ancestors) = n + 1 /\ s.ancestors[n + 1] = r
          /\ \A i \in 1 .. n : s.ancestors[i] = walk[w].ancestors[i]
      <4>1. s.ancestors = Append(walk[w].ancestors, r)
        BY <3>1
      <4>2. r \in AllRules
        BY <1>2, <1>7, <2>2 DEF WalksTyped
      <4> HIDE DEF r, n
      <4>3. LET q == walk[w].ancestors
            IN  /\ Len(Append(q, r)) = Len(q) + 1 /\ Append(q, r)[Len(q) + 1] = r
                /\ \A i \in 1 .. Len(q) : Append(q, r)[i] = q[i]
        BY <1>3, <4>2, AppendFacts
      <4> QED
        BY <4>1, <4>3, Zenon DEF n
    <3> HIDE DEF A, n
    <3>3. \A i \in 1 .. n + 1 : i \in 1 .. n \/ i = n + 1
      BY <1>3
    <3>4. n + 1 + 1 = n + 2 /\ n + 1 \in Nat /\ n + 1 <= Len(A)
      BY <1>3, <1>4, <3>1
    <3> QED
      BY <1>6, <3>1, <3>2, <3>3, <3>4
  <2> QED
    BY <2>1, <2>2
<1>9. \A i \in 1 .. Len(walk[w].open) : memo'[walk[w].open[i].dir] # Unread
  <2> TAKE i \in 1 .. Len(walk[w].open)
  <2>1. walk[w].open[i].dir \in Dirs
    BY <1>3
  <2>2. CASE memo[walk[w].open[i].dir] # Unread
    BY <2>1, <2>2 DEF MemoGrows
  <2>3. CASE i = Len(walk[w].open) /\ walk[w].need = <<Entered(w)>> \o Unasked(w)
    <3>1. walk[w].open # << >>
      BY <2>3
    <3>2. Wanted(w) = walk[w].open[i].dir
      BY <1>7, <2>3, <3>1 DEF Entered
    <3> QED
      BY <3>2
  <2> QED
    BY <1>1, <2>2, <2>3 DEF HasRead
<1>10. AsksInOrder(w)'
  <2>1. (walk[w].need = Unasked(w))'
    BY <1>2, <1>8 DEF Unasked
  <2> QED
    BY <1>2, <1>8, <2>1 DEF AsksInOrder
<1>11. HasRead(w)'
  <2>1. (\A i \in 1 .. Len(walk[w].ancestors) :
           memo[Above(w)[i]] # Unread /\ walk[w].ancestors[i] = memo[Above(w)[i]])'
    BY <1>2, <1>8
  <2>2. (\A i \in 1 .. Len(walk[w].stack) :
           memo[walk[w].stack[i].dir] # Unread /\ walk[w].stack[i] = Held(walk[w].stack[i].dir))'
    BY <1>2, <1>6 DEF Held
  <2>3. (\A i \in 1 .. Len(walk[w].open) : memo[walk[w].open[i].dir] # Unread)'
    BY <1>2, <1>9
  <2> QED
    BY <2>1, <2>2, <2>3, Zenon DEF HasRead
<1>12. Descends(w)'
  BY <1>1, <1>2 DEF Descends
<1>13. HasJudged(w)'
  BY <1>1, <1>2, JudgedRests
<1> QED
  BY <1>2, <1>10, <1>11, <1>12, <1>13, OneWalkMoves DEF WalkInv

(* Of what the cache answers.                                              *)
GivenFrom(r, under, rules) ==
  [r EXCEPT !.need = Tail(@), !.reading = Unread,
            !.ancestors = IF under THEN @ ELSE Append(@, rules)]

LEMMA GivenFacts ==
  ASSUME NEW r \in WalkStates, NEW under \in BOOLEAN, NEW rules \in AllRules, r.need # << >>,
         NEW s, s = GivenFrom(r, under, rules)
  PROVE  /\ s \in WalkStates /\ s.at = r.at /\ s.need = Tail(r.need) /\ s.reading = Unread
         /\ s.ancestors = (IF under THEN r.ancestors ELSE Append(r.ancestors, rules))
         /\ s.open = r.open /\ s.stack = r.stack /\ s.seen = r.seen
<1>1. Tail(r.need) \in Seq(Dirs) /\ Append(r.ancestors, rules) \in Seq(AllRules)
  BY StateFacts
<1> QED
  BY <1>1 DEF WalkStates, GivenFrom

(* Of the record of a walk that goes elsewhere.                            *)
LEMMA AtFacts ==
  ASSUME NEW r \in WalkStates, NEW at \in {"walking", "parsing"}, NEW s, s = [r EXCEPT !.at = at]
  PROVE  /\ s \in WalkStates /\ s.at = at /\ s.need = r.need /\ s.reading = r.reading
         /\ s.ancestors = r.ancestors /\ s.open = r.open /\ s.stack = r.stack /\ s.seen = r.seen
BY DEF WalkStates

(* SourcesCache::dir finds what was read.                                  *)
LEMMA LookupKeeps ==
  ASSUME WalksInv, NEW w \in Walks, Lookup(w)
  PROVE  WalksInv'
<1> DEFINE rules == memo[Wanted(w)]
           under == IsUnder(Wanted(w), w)
           s == GivenFrom(walk[w], under, rules)
<1>1. walk[w].at = "walking" /\ walk[w].need # << >> /\ walk[w].reading = Unread /\ rules # Unread
  BY DEF Lookup, Reads
<1>2. walk[w] \in WalkStates /\ WalksTyped /\ Wanted(w) \in Dirs
  BY <1>1, WalkHas, AskedFacts
<1>3. rules \in AllRules
  BY <1>1, <1>2 DEF WalksTyped
<1>4. walk' = [walk EXCEPT ![w] = s] /\ UNCHANGED <<disk, listing, memo>>
  BY DEF Lookup, Given, GivenFrom
<1>5. under \in BOOLEAN
  BY DEF IsUnder
<1> HIDE DEF rules, under, s
<1>6. /\ s \in WalkStates /\ s.at = walk[w].at /\ s.need = Tail(walk[w].need) /\ s.reading = Unread
      /\ s.ancestors = (IF under THEN walk[w].ancestors ELSE Append(walk[w].ancestors, rules))
      /\ s.open = walk[w].open /\ s.stack = walk[w].stack /\ s.seen = walk[w].seen
  <2>1. s = GivenFrom(walk[w], under, rules)
    BY DEF s
  <2> QED
    BY <1>1, <1>2, <1>3, <1>5, <2>1, GivenFacts
<1>7. MemoGrows /\ memo'[Wanted(w)] = rules /\ (under <=> IsUnder(Wanted(w), w))
  BY <1>4 DEF MemoGrows, rules, under
<1>8. s.ancestors = IF IsUnder(Wanted(w), w) THEN walk[w].ancestors
                    ELSE Append(walk[w].ancestors, memo'[Wanted(w)])
  BY <1>6, <1>7
<1> QED
  BY <1>1, <1>4, <1>6, <1>7, <1>8, AnswerKeeps

(* SourcesCache::dir: the first of two racing walks decides for both.      *)
LEMMA InsertKeeps ==
  ASSUME WalksInv, NEW w \in Walks, Insert(w)
  PROVE  WalksInv'
<1> DEFINE d == Wanted(w)
           rules == memo'[d]
           under == IsUnder(d, w)
           g == GivenFrom(walk[w], under, rules)
           s == [g EXCEPT !.at = "walking"]
<1>1. /\ walk[w].at = "parsing" /\ walk[w].reading # Unread
      /\ memo' = [memo EXCEPT ![d] = IF memo[d] = Unread THEN walk[w].reading ELSE memo[d]]
      /\ UNCHANGED <<disk, listing>>
  BY DEF Insert
<1>2. /\ walk[w] \in WalkStates /\ WalksTyped /\ walk[w].need # << >>
      /\ walk[w].reading \in Readings[d]
  BY <1>1, WalkHas DEF AsksInOrder
<1>3. d \in Dirs
  BY <1>1, <1>2, AskedFacts
<1>4. MemoGrows
  BY <1>1, <1>2, <1>3 DEF MemoGrows, WalksTyped
<1>5. rules \in Readings[d] /\ rules # Unread /\ rules \in AllRules
  <2>1. rules = IF memo[d] = Unread THEN walk[w].reading ELSE memo[d]
    BY <1>1, <1>2, <1>3 DEF WalksTyped
  <2>2. rules \in Readings[d] /\ rules # Unread
    BY <1>1, <1>2, <1>3, <2>1 DEF WalksTyped
  <2> QED
    BY <1>3, <2>2 DEF AllRules
<1>6. memo' = [memo EXCEPT ![d] = rules]
  BY <1>1, <1>2, <1>3 DEF WalksTyped
<1>7. walk' = [walk EXCEPT ![w] = s]
  BY DEF Insert, Given, GivenFrom
<1>8. under \in BOOLEAN
  BY DEF IsUnder
<1> HIDE DEF d, rules, under, g, s
<1>9. /\ g \in WalkStates /\ g.need = Tail(walk[w].need) /\ g.reading = Unread
      /\ g.ancestors = (IF under THEN walk[w].ancestors ELSE Append(walk[w].ancestors, rules))
      /\ g.open = walk[w].open /\ g.stack = walk[w].stack /\ g.seen = walk[w].seen
  <2>1. g = GivenFrom(walk[w], under, rules)
    BY DEF g
  <2> QED
    BY <1>2, <1>5, <1>8, <2>1, GivenFacts
<1>10. /\ s \in WalkStates /\ s.at = "walking" /\ s.need = g.need /\ s.reading = g.reading
       /\ s.ancestors = g.ancestors /\ s.open = g.open /\ s.stack = g.stack /\ s.seen = g.seen
  BY <1>9, AtFacts DEF s
<1>11. s.ancestors = IF IsUnder(Wanted(w), w) THEN walk[w].ancestors
                     ELSE Append(walk[w].ancestors, memo'[Wanted(w)])
  BY <1>9, <1>10 DEF rules, under, d
<1>12. memo'[Wanted(w)] # Unread
  BY <1>5 DEF rules, d
<1> QED
  BY <1>1, <1>2, <1>3, <1>4, <1>5, <1>6, <1>7, <1>9, <1>10, <1>11, <1>12, AnswerKeeps

(* A step that only changes where the walk is, or what it has parsed.      *)
LEMMA AskingKeeps ==
  ASSUME WalksInv, NEW w \in Walks, walk[w].at # "idle", walk[w].need # << >>,
         NEW s \in WalkStates, s.at \in {"walking", "parsing"},
         s.reading # Unread => s.reading \in Readings[Wanted(w)],
         s.need = walk[w].need, s.ancestors = walk[w].ancestors, s.open = walk[w].open,
         s.stack = walk[w].stack, s.seen = walk[w].seen,
         walk' = [walk EXCEPT ![w] = s], UNCHANGED <<disk, listing, memo>>
  PROVE  WalksInv'
<1>1. /\ WalksTyped /\ AsksInOrder(w) /\ HasRead(w) /\ Descends(w) /\ HasJudged(w)
  BY WalkHas
<1>2. WalksTyped' /\ walk'[w] = s /\ \A v \in Walks \ {w} : walk'[v] = walk[v]
  BY <1>1, WalksStayTyped
<1>3. MemoGrows
  BY DEF MemoGrows
<1>4. Entered(w)' = Entered(w) /\ Unasked(w)' = Unasked(w) /\ Wanted(w)' = Wanted(w)
  BY <1>2 DEF Entered, Unasked, Wanted
<1>5. AsksInOrder(w)'
  <2>1. /\ Len(walk[w].ancestors) <= Len(Above(w))
        /\ \/ walk[w].need = Unasked(w)
           \/ walk[w].open # << >> /\ walk[w].need = <<Entered(w)>> \o Unasked(w)
    BY <1>1 DEF AsksInOrder
  <2> QED
    BY <1>2, <1>4, <2>1 DEF AsksInOrder
<1>6. HasRead(w)'
  BY <1>1, <1>2, <1>4, SMTT(30) DEF HasRead, Held
<1>7. Descends(w)'
  BY <1>1, <1>2 DEF Descends
<1>8. HasJudged(w)'
  BY <1>1, <1>2, <1>3, JudgedRests
<1> QED
  BY <1>2, <1>3, <1>5, <1>6, <1>7, <1>8, OneWalkMoves DEF WalkInv

(* SourcesCache::dir does not find it,                                     *)
LEMMA MissKeeps ==
  ASSUME WalksInv, NEW w \in Walks, Miss(w)
  PROVE  WalksInv'
<1> DEFINE s == [walk[w] EXCEPT !.at = "parsing"]
<1>1. walk[w].at = "walking" /\ walk[w].need # << >> /\ UNCHANGED <<disk, listing, memo>>
      /\ walk' = [walk EXCEPT ![w] = s]
  BY DEF Miss, Reads
<1>2. walk[w] \in WalkStates /\ AsksInOrder(w)
  BY <1>1, WalkHas
<1>3. /\ s \in WalkStates /\ s.at = "parsing" /\ s.need = walk[w].need /\ s.reading = walk[w].reading
      /\ s.ancestors = walk[w].ancestors /\ s.open = walk[w].open /\ s.stack = walk[w].stack
      /\ s.seen = walk[w].seen
  BY <1>2, AtFacts
<1> HIDE DEF s
<1>4. s.reading # Unread => s.reading \in Readings[Wanted(w)]
  BY <1>2, <1>3 DEF AsksInOrder
<1> QED
  BY <1>1, <1>3, <1>4, AskingKeeps

(* Of the record of a walk that has parsed an ignore file.                 *)
LEMMA ParsedFacts ==
  ASSUME NEW r \in WalkStates, NEW rules \in AllRules, NEW s, s = [r EXCEPT !.reading = rules]
  PROVE  /\ s \in WalkStates /\ s.at = r.at /\ s.need = r.need /\ s.reading = rules
         /\ s.ancestors = r.ancestors /\ s.open = r.open /\ s.stack = r.stack /\ s.seen = r.seen
BY DEF WalkStates

(* and the walk parses it, outside the lock.                               *)
LEMMA ParseKeeps ==
  ASSUME WalksInv, NEW w \in Walks, Parse(w)
  PROVE  WalksInv'
<1> DEFINE rules == disk[Wanted(w)]
           s == [walk[w] EXCEPT !.reading = rules]
<1>1. walk[w].at = "parsing" /\ UNCHANGED <<disk, listing, memo>> /\ walk' = [walk EXCEPT ![w] = s]
  BY DEF Parse
<1>2. walk[w] \in WalkStates /\ walk[w].need # << >> /\ WalksTyped
  BY <1>1, WalkHas DEF AsksInOrder
<1>3. Wanted(w) \in Dirs
  BY <1>1, <1>2, AskedFacts
<1>4. rules \in Readings[Wanted(w)] /\ rules \in AllRules
  BY <1>2, <1>3 DEF WalksTyped, AreIgnoreFiles, AllRules
<1> HIDE DEF rules
<1>5. /\ s \in WalkStates /\ s.at = walk[w].at /\ s.need = walk[w].need /\ s.reading = rules
      /\ s.ancestors = walk[w].ancestors /\ s.open = walk[w].open /\ s.stack = walk[w].stack
      /\ s.seen = walk[w].seen
  BY <1>2, <1>4, ParsedFacts
<1> HIDE DEF s
<1> QED
  BY <1>1, <1>2, <1>4, <1>5, AskingKeeps

(* Of the end of a sequence.                                               *)
LEMMA SuffixLength ==
  ASSUME NEW S, NEW s \in Seq(S), NEW n \in Nat, n <= Len(s)
  PROVE  Len(SubSeq(s, n + 1, Len(s))) = Len(s) - n
OBVIOUS

(* A walk that asks for nothing has read everything.                       *)
LEMMA NothingAsked ==
  ASSUME WalksInv, NEW w \in Walks, walk[w].at # "idle", walk[w].need = << >>
  PROVE  /\ Len(walk[w].ancestors) = Len(Above(w)) /\ Unasked(w) = << >>
         /\ \A i \in 1 .. Len(walk[w].open) : memo[walk[w].open[i].dir] # Unread
<1>1. w \in Dirs /\ walk[w] \in WalkStates /\ AsksInOrder(w) /\ HasRead(w)
  BY WalkHas
<1> DEFINE n == Len(walk[w].ancestors)
           A == Above(w)
<1>2. A \in Seq(Dirs) /\ n \in Nat /\ n <= Len(A)
  BY <1>1, AboveFacts, StateFacts DEF AsksInOrder
<1>3. Unasked(w) \in Seq(Dirs) /\ Unasked(w) = SubSeq(A, n + 1, Len(A))
  BY <1>2 DEF Unasked
<1>4. ~ (walk[w].open # << >> /\ walk[w].need = <<Entered(w)>> \o Unasked(w))
  <2> SUFFICES ASSUME walk[w].open # << >>
               PROVE  <<Entered(w)>> \o Unasked(w) # << >>
    OBVIOUS
  <2>1. Entered(w) \in Dirs
    <3>1. walk[w].open \in Seq(Opened) /\ \A i \in 1 .. Len(walk[w].open) : walk[w].open[i].dir \in Dirs
      BY <1>1, StateFacts
    <3>2. Len(walk[w].open) \in 1 .. Len(walk[w].open)
      BY <3>1
    <3> QED
      BY <3>1, <3>2 DEF Entered
  <2> QED
    BY <1>3, <2>1, ConsFacts
<1>5. Unasked(w) = << >>
  BY <1>1, <1>4 DEF AsksInOrder
<1>6. n = Len(A)
  <2>1. SubSeq(A, n + 1, Len(A)) = << >>
    BY <1>3, <1>5
  <2> HIDE DEF n, A
  <2>2. Len(<< >>) = Len(A) - n /\ Len(<< >>) = 0 /\ Len(A) \in Nat
    <3>1. Len(SubSeq(A, n + 1, Len(A))) = Len(A) - n
      BY <1>2, SuffixLength
    <3>2. Len(A) \in Nat
      BY <1>2
    <3> QED
      BY <2>1, <3>1, <3>2
  <2> QED
    BY <1>2, <2>2
<1>7. \A i \in 1 .. Len(walk[w].open) : memo[walk[w].open[i].dir] # Unread
  <2> TAKE i \in 1 .. Len(walk[w].open)
  <2>1. walk[w].open # << >>
    OBVIOUS
  <2> QED
    BY <1>1, <1>4, <2>1 DEF HasRead
<1> QED
  BY <1>5, <1>6, <1>7

LeftFrom(r, open, at) == [r EXCEPT !.open = open, !.at = at]

(* Of the record of a walk that leaves a directory.                        *)
LEMMA LeftFacts ==
  ASSUME NEW r \in WalkStates, NEW open \in Seq(Opened), NEW at \in {"walking", "done"},
         NEW s, s = LeftFrom(r, open, at)
  PROVE  /\ s \in WalkStates /\ s.at = at /\ s.need = r.need /\ s.reading = r.reading
         /\ s.ancestors = r.ancestors /\ s.open = open /\ s.stack = r.stack /\ s.seen = r.seen
BY DEF WalkStates, LeftFrom

(* A directory without entries left is left.                               *)
LEMMA LeaveKeeps ==
  ASSUME WalksInv, NEW w \in Walks, Leave(w)
  PROVE  WalksInv'
<1> DEFINE open == walk[w].open
           n == Len(open)
           rest == SubSeq(open, 1, n - 1)
           at == IF n = 1 THEN "done" ELSE walk[w].at
           s == LeftFrom(walk[w], rest, at)
<1>1. /\ walk[w].at = "walking" /\ walk[w].need = << >> /\ open # << >>
      /\ UNCHANGED <<disk, listing, memo>>
  BY DEF Leave
<1>2. /\ w \in Dirs /\ WalksTyped /\ walk[w] \in WalkStates
      /\ AsksInOrder(w) /\ HasRead(w) /\ Descends(w) /\ HasJudged(w)
  BY <1>1, WalkHas
<1>3. walk' = [walk EXCEPT ![w] = s]
  BY <1>2 DEF Leave, WalksTyped, LeftFrom
<1>4. /\ open \in Seq(Opened) /\ n \in Nat \ {0} /\ \A i \in 1 .. n : open[i].dir \in Dirs
      /\ at \in {"walking", "done"}
  BY <1>1, <1>2, StateFacts
<1>5. /\ rest \in Seq(Opened) /\ Len(rest) = n - 1 /\ (rest = << >> <=> n = 1)
      /\ \A i \in 1 .. n - 1 : rest[i] = open[i] /\ i \in 1 .. n
  <2>1. n - 1 \in 0 .. n
    BY <1>4
  <2>2. /\ rest \in Seq(Opened) /\ Len(rest) = n - 1 /\ (rest = << >> <=> n - 1 = 0)
        /\ \A i \in 1 .. n - 1 : rest[i] = open[i]
    BY <1>4, <2>1, PrefixFacts
  <2> HIDE DEF n, rest
  <2> QED
    BY <1>4, <2>2
<1>6. LeadsDown(w, rest)
  <2>1. n - 1 \in 0 .. n
    BY <1>4
  <2>2. LeadsDown(w, open)
    BY <1>2 DEF Descends
  <2> HIDE DEF open, n
  <2>3. n = Len(open)
    BY DEF n
  <2> QED
    BY <1>2, <1>4, <2>1, <2>2, <2>3, DownPrefix DEF rest
<1> HIDE DEF rest, at
<1>7. /\ s \in WalkStates /\ s.at = at /\ s.need = walk[w].need /\ s.reading = walk[w].reading
      /\ s.ancestors = walk[w].ancestors /\ s.open = rest /\ s.stack = walk[w].stack
      /\ s.seen = walk[w].seen
  <2>1. s = LeftFrom(walk[w], rest, at)
    OBVIOUS
  <2> HIDE DEF s
  <2> QED
    <3>1. walk[w] \in WalkStates /\ rest \in Seq(Opened) /\ at \in {"walking", "done"}
      BY <1>2, <1>4, <1>5 DEF at
    <3> QED
      BY ONLY <2>1, <3>1, LeftFacts
<1> HIDE DEF s
<1>8. WalksTyped' /\ walk'[w] = s /\ \A v \in Walks \ {w} : walk'[v] = walk[v]
  BY <1>2, <1>3, <1>1, <1>7, WalksStayTyped
<1>9. MemoGrows
  BY <1>1 DEF MemoGrows
<1>10. walk[w].reading = Unread /\ Unasked(w) = << >> /\ Unasked(w)' = << >>
  BY <1>1, <1>2, <1>7, <1>8, NothingAsked DEF AsksInOrder, Unasked
<1>11. AsksInOrder(w)'
  <2>1. at # "parsing" /\ (at = "done" => rest = << >>)
    BY <1>1, <1>5 DEF at
  <2>2. Len(walk[w].ancestors) <= Len(Above(w))
    BY <1>2 DEF AsksInOrder
  <2>3. (/\ Len(walk[w].ancestors) <= Len(Above(w)) /\ walk[w].need = Unasked(w)
         /\ walk[w].reading = Unread /\ walk[w].at # "parsing"
         /\ walk[w].at = "done" => walk[w].need = << >> /\ walk[w].open = << >>)'
    BY <1>1, <1>7, <1>8, <1>10, <2>1, <2>2
  <2> QED
    BY <2>3, Zenon DEF AsksInOrder
<1>12. HasRead(w)'
  <2>1. \A i \in 1 .. n : memo[open[i].dir] # Unread
    BY <1>1, NothingAsked
  <2>2. (\A i \in 1 .. Len(walk[w].open) : memo[walk[w].open[i].dir] # Unread)'
    <3>1. \A i \in 1 .. Len(rest) : memo[rest[i].dir] # Unread
      <4> HIDE DEF open, n
      <4> QED
        BY <1>5, <2>1
    <3>2. walk'[w].open = rest /\ memo' = memo
      BY <1>1, <1>7, <1>8
    <3> QED
      BY <3>1, <3>2
  <2>3. (/\ \A i \in 1 .. Len(walk[w].ancestors) :
              memo[Above(w)[i]] # Unread /\ walk[w].ancestors[i] = memo[Above(w)[i]]
         /\ \A i \in 1 .. Len(walk[w].stack) :
              memo[walk[w].stack[i].dir] # Unread /\ walk[w].stack[i] = Held(walk[w].stack[i].dir))'
    BY <1>1, <1>2, <1>7, <1>8 DEF HasRead, Held
  <2> QED
    BY <2>2, <2>3 DEF HasRead
<1>13. Descends(w)'
  <2>1. \A i \in 1 .. n - 1 : \A j \in 1 .. Len(rest[i].left) : Parent[rest[i].left[j]] = rest[i].dir
    BY <1>2, <1>5 DEF Descends
  <2> QED
    BY <1>2, <1>5, <1>6, <1>7, <1>8, <2>1 DEF Descends
<1>14. HasJudged(w)'
  BY <1>2, <1>7, <1>8, <1>9, JudgedRests
<1>15. at # "idle"
  BY <1>1 DEF at
<1> QED
  BY <1>7, <1>8, <1>9, <1>11, <1>12, <1>13, <1>14, <1>15, OneWalkMoves DEF WalkInv

(* LeadsDown is about the directories alone.                               *)
LEMMA DownSame ==
  ASSUME NEW w, NEW s, NEW t, Len(s) = Len(t), t # << >> => s # << >>, Len(t) \in Nat,
         t # << >> => Len(t) \in 1 .. Len(t),
         \A i \in 1 .. Len(t) : s[i].dir = t[i].dir, LeadsDown(w, s)
  PROVE  LeadsDown(w, t)
BY DEF LeadsDown

(* The entry is taken off the innermost directory.                         *)
TakenFrom(r, e, as) == [r EXCEPT !.open[Len(r.open)].left = Tail(@), !.seen[e] = as]
Noted(seen, e, as) == [seen EXCEPT ![e] = as]
Shortened(open) == [open EXCEPT ![Len(open)].left = Tail(@)]

(* Of the directories a walk is in, without the entry it takes.            *)
LEMMA ShortenedFacts ==
  ASSUME NEW open \in Seq(Opened), open # << >>, open[Len(open)].left # << >>
  PROVE  LET n == Len(open)
             new == Shortened(open)
         IN  /\ new \in Seq(Opened) /\ Len(new) = n /\ new # << >>
             /\ \A i \in 1 .. n : new[i].dir = open[i].dir
             /\ \A i \in 1 .. n : i # n => new[i] = open[i]
             /\ new[n].left = Tail(open[n].left)
<1> DEFINE n == Len(open)
           new == Shortened(open)
           last == [open[n] EXCEPT !.left = Tail(@)]
<1>1. n \in Nat \ {0} /\ open = [i \in 1 .. n |-> open[i]] /\ \A i \in 1 .. n : open[i] \in Opened
  BY AsFunction
<1>2. open[n] \in Opened /\ open[n].left \in Seq(Entries) /\ Tail(open[n].left) \in Seq(Entries)
  BY <1>1 DEF Opened
<1>3. last \in Opened /\ last.dir = open[n].dir /\ last.left = Tail(open[n].left)
  BY <1>2 DEF Opened
<1>4. new = [i \in 1 .. n |-> IF i = n THEN last ELSE open[i]]
  <2> HIDE DEF last
  <2>1. new = [open EXCEPT ![n] = last]
    BY DEF Shortened, last
  <2> HIDE DEF n, new
  <2> QED
    BY <1>1, <2>1
<1> HIDE DEF n, new, last
<1>5. \A i \in 1 .. n : new[i] = IF i = n THEN last ELSE open[i]
  BY <1>4
<1>6. new = [i \in 1 .. n |-> new[i]] /\ \A i \in 1 .. n : new[i] \in Opened
  BY <1>1, <1>3, <1>4, <1>5
<1>7. new \in Seq(Opened) /\ Len(new) = n
  BY <1>1, <1>6, AsSequence
<1> QED
  BY <1>1, <1>3, <1>5, <1>7 DEF n, new

(* Of the record of a walk that has taken an entry.                        *)
LEMMA TakenFacts ==
  ASSUME NEW r \in WalkStates, Shortened(r.open) \in Seq(Opened), NEW e \in Entries,
         NEW as \in Outcomes
  PROVE  LET s == TakenFrom(r, e, as)
         IN  /\ s \in WalkStates /\ s.at = r.at /\ s.need = r.need /\ s.reading = r.reading
             /\ s.ancestors = r.ancestors /\ s.open = Shortened(r.open) /\ s.stack = r.stack
             /\ s.seen = Noted(r.seen, e, as)
<1>1. r.seen \in [Entries -> Outcomes] /\ Noted(r.seen, e, as) \in [Entries -> Outcomes]
  BY StateFacts DEF Noted
<1> QED
  BY <1>1 DEF WalkStates, TakenFrom, Shortened, Noted

(* Where a walk is that meets an entry.                                    *)
LEMMA MeetingFacts ==
  ASSUME WalksInv, NEW w \in Walks, NEW e \in Entries, AtEntry(w, e)
  PROVE  /\ w \in Dirs /\ Parent[e] \in Dirs /\ IsUnder(Parent[e], w) /\ Entered(w) = Parent[e]
         /\ walk[w].at = "walking" /\ walk[w].need = << >> /\ walk[w].reading = Unread
         /\ walk[w].open # << >> /\ walk[w].open[Len(walk[w].open)].left # << >>
         /\ \A d \in Around(e) : memo[d] # Unread
         /\ walk[w].ancestors = RulesOf(memo, Above(w))
<1> DEFINE open == walk[w].open
           n == Len(open)
           P == Parent[e]
           D == Depth(P)
           K == Depth(w)
           A == Above(w)
<1>1. /\ walk[w].at = "walking" /\ walk[w].need = << >> /\ open # << >>
      /\ open[n].left # << >> /\ e = Head(open[n].left)
  BY DEF AtEntry
<1>2. /\ w \in Dirs /\ WalksTyped /\ walk[w] \in WalkStates
      /\ AsksInOrder(w) /\ HasRead(w) /\ Descends(w)
  BY <1>1, WalkHas
<1>3. /\ open \in Seq(Opened) /\ n \in Nat \ {0} /\ open[n].dir \in Dirs
      /\ open[n].left \in Seq(Entries) /\ walk[w].ancestors \in Seq(AllRules)
  <2>1. /\ open \in Seq(Opened) /\ n \in Nat \ {0} /\ walk[w].ancestors \in Seq(AllRules)
        /\ \A i \in 1 .. n : open[i].dir \in Dirs /\ open[i].left \in Seq(Entries)
    BY <1>1, <1>2, StateFacts
  <2>2. n \in 1 .. n
    BY <2>1
  <2> QED
    BY <2>1, <2>2
<1>4. open[n].dir = P
  <2>1. 1 \in 1 .. Len(open[n].left) /\ e = open[n].left[1]
    <3> DEFINE left == open[n].left
    <3>1. left \in Seq(Entries) /\ left # << >> /\ e = Head(left)
      BY <1>1, <1>3
    <3> HIDE DEF left
    <3>2. 1 \in 1 .. Len(left) /\ e = left[1]
      BY <3>1
    <3> QED
      BY <3>2 DEF left
  <2>2. n \in 1 .. n
    BY <1>3
  <2> QED
    BY <1>2, <2>1, <2>2 DEF Descends
<1>5. /\ IsUnder(P, w) /\ n = D + 1 - K
      /\ \A i \in 1 .. n : open[i].dir = PathTo[P][K - 1 + i]
  BY <1>1, <1>2, <1>4, Zenon DEF Descends, LeadsDown
<1>6. /\ Len(walk[w].ancestors) = Len(A) /\ Unasked(w) = << >>
      /\ \A i \in 1 .. n : memo[open[i].dir] # Unread
  BY <1>1, NothingAsked
<1>7. A \in Seq(Dirs) /\ Len(A) = K - 1 /\ \A i \in 1 .. Len(A) : A[i] = PathTo[w][K - i]
  BY <1>2, AboveFacts
<1>8. walk[w].reading = Unread
  BY <1>1, <1>2 DEF AsksInOrder
<1>9. K \in Nat \ {0} /\ D \in Nat \ {0} /\ P \in Dirs /\ K <= D /\ PathTo[P][K] = w
  BY <1>2, <1>3, <1>4, <1>5, PathFacts DEF IsUnder
<1> HIDE DEF open, n, P, D, K, A
<1>10. ASSUME NEW d \in Around(e)
       PROVE  memo[d] # Unread
  <2>1. PICK i \in 1 .. D : d = PathTo[P][i]
    <3>1. IsUnder(P, d) /\ d \in Dirs
      BY <1>10 DEF Around, P
    <3> QED
      BY <1>9, <3>1, UnderIsOnPath DEF D
  <2>2. CASE K <= i
    <3>1. i - K + 1 \in 1 .. n /\ K - 1 + (i - K + 1) = i
      BY <1>5, <1>9, <2>2
    <3>2. open[i - K + 1].dir = d
      BY <1>5, <2>1, <3>1
    <3> QED
      BY <1>6, <3>1, <3>2
  <2>3. CASE ~ (K <= i)
    <3>1. K - i \in 1 .. Len(A) /\ K - (K - i) = i /\ i \in 1 .. K /\ K \in 1 .. D
      BY <1>7, <1>9, <2>3
    <3>2. PathTo[w][i] = d
      BY <1>9, <2>1, <3>1, OnPath DEF D
    <3>3. A[K - i] = d
      BY <1>7, <3>1, <3>2
    <3> QED
      BY <1>2, <1>6, <3>1, <3>3 DEF HasRead, A
  <2> QED
    BY <2>2, <2>3
<1>11. walk[w].ancestors = RulesOf(memo, A)
  <2> DEFINE a == walk[w].ancestors
  <2>1. a = [i \in 1 .. Len(A) |-> a[i]]
    BY <1>3, <1>6, AsFunction
  <2>2. \A i \in 1 .. Len(A) : a[i] = memo[A[i]]
    BY <1>2, <1>6 DEF HasRead, A
  <2> HIDE DEF a
  <2>3. a = [i \in 1 .. Len(A) |-> memo[A[i]]]
    BY <2>1, <2>2
  <2> QED
    BY <2>3 DEF RulesOf, a
<1> QED
  BY <1>1, <1>2, <1>4, <1>5, <1>8, <1>9, <1>10, <1>11, Zenon DEF open, n, P, A, Entered

(* Of short sequences.                                                     *)
LEMMA AloneFacts ==
  ASSUME NEW S, NEW x \in S
  PROVE  <<x>> \o << >> = <<x>> /\ <<x>> \in Seq(S)
OBVIOUS

LEMMA TailFacts ==
  ASSUME NEW S, NEW s \in Seq(S), s # << >>
  PROVE  /\ Tail(s) \in Seq(S)
         /\ \A j \in 1 .. Len(Tail(s)) : j + 1 \in 1 .. Len(s) /\ Tail(s)[j] = s[j + 1]
OBVIOUS

(* The entry is taken and judged, and entered if it is a directory.        *)
LEMMA TakingKeeps ==
  ASSUME WalksInv, NEW w \in Walks, NEW e \in Entries, AtEntry(w, e), NEW as \in Outcomes,
         as \notin {"unseen", "pruned"} => as = Fate(w, e),
         NEW s \in WalkStates, s.at = "walking", s.reading = Unread,
         s.ancestors = walk[w].ancestors, s.seen = Noted(walk[w].seen, e, as),
         LeadsDown(w, s.stack),
         \A i \in 1 .. Len(s.stack) :
            memo[s.stack[i].dir] # Unread /\ s.stack[i] = Held(s.stack[i].dir),
         \/ s.need = << >> /\ s.open = Shortened(walk[w].open)
         \/ /\ e \in Dirs /\ s.need = <<e>>
            /\ s.open = Append(Shortened(walk[w].open), [dir |-> e, left |-> listing[e]]),
         walk' = [walk EXCEPT ![w] = s], UNCHANGED <<disk, listing, memo>>
  PROVE  WalksInv'
<1> DEFINE open == walk[w].open
           short == Shortened(open)
           n == Len(open)
           entered == [dir |-> e, left |-> listing[e]]
<1>1. /\ w \in Dirs /\ Parent[e] \in Dirs /\ IsUnder(Parent[e], w) /\ Entered(w) = Parent[e]
      /\ walk[w].at = "walking" /\ walk[w].need = << >> /\ open # << >> /\ open[n].left # << >>
      /\ \A d \in Around(e) : memo[d] # Unread
  BY MeetingFacts
<1>2. /\ WalksTyped /\ walk[w] \in WalkStates
      /\ AsksInOrder(w) /\ HasRead(w) /\ Descends(w) /\ HasJudged(w)
  BY <1>1, WalkHas
<1>3. /\ open \in Seq(Opened) /\ n \in Nat \ {0}
      /\ \A i \in 1 .. n : open[i].dir \in Dirs /\ open[i].left \in Seq(Entries)
      /\ walk[w].seen \in [Entries -> Outcomes]
  BY <1>1, <1>2, StateFacts
<1>4. WalksTyped' /\ walk'[w] = s /\ \A v \in Walks \ {w} : walk'[v] = walk[v]
  BY <1>2, WalksStayTyped
<1>5. MemoGrows
  BY DEF MemoGrows
<1>6. /\ Len(walk[w].ancestors) = Len(Above(w)) /\ Unasked(w) = << >>
      /\ \A i \in 1 .. n : memo[open[i].dir] # Unread
  BY <1>1, NothingAsked
<1>7. /\ short \in Seq(Opened) /\ Len(short) = n /\ short # << >>
      /\ \A i \in 1 .. n : short[i].dir = open[i].dir
      /\ \A i \in 1 .. n : i # n => short[i] = open[i]
      /\ short[n].left = Tail(open[n].left)
  BY <1>1, <1>3, ShortenedFacts
<1> HIDE DEF short, open, n
<1>8. LeadsDown(w, short)
  <2>1. LeadsDown(w, open)
    BY <1>2 DEF Descends, open
  <2>2. Len(open) = n /\ n \in 1 .. n
    BY <1>3 DEF n
  <2> QED
    BY <1>1, <1>3, <1>7, <2>1, <2>2, DownSame
<1>9. \A i \in 1 .. n : \A j \in 1 .. Len(short[i].left) : Parent[short[i].left[j]] = short[i].dir
  <2> TAKE i \in 1 .. n
  <2>1. \A j \in 1 .. Len(open[i].left) : Parent[open[i].left[j]] = open[i].dir
    BY <1>2 DEF Descends, open, n
  <2>2. CASE i # n
    BY <1>7, <2>1, <2>2
  <2>3. CASE i = n
    <3>1. \A j \in 1 .. Len(Tail(open[n].left)) :
            j + 1 \in 1 .. Len(open[n].left) /\ Tail(open[n].left)[j] = open[n].left[j + 1]
      <4> DEFINE left == open[n].left
      <4>1. left \in Seq(Entries) /\ left # << >>
        BY <1>1, <1>3, <2>3 DEF open, n
      <4> HIDE DEF left
      <4>2. \A j \in 1 .. Len(Tail(left)) : j + 1 \in 1 .. Len(left) /\ Tail(left)[j] = left[j + 1]
        BY <4>1, TailFacts
      <4> QED
        BY <4>2 DEF left
    <3>2. /\ short[i].left = Tail(open[n].left) /\ short[i].dir = open[n].dir
          /\ \A j \in 1 .. Len(open[n].left) : Parent[open[n].left[j]] = open[n].dir
      BY <1>7, <2>1, <2>3
    <3> QED
      BY ONLY <3>1, <3>2
  <2> QED
    BY <2>2, <2>3
<1>10. \A i \in 1 .. n : memo[short[i].dir] # Unread
  BY <1>6, <1>7
<1>11. short[n].dir = Parent[e]
  BY <1>1, <1>3, <1>7 DEF Entered, open, n
<1>12. Unasked(w)' = << >> /\ Len(walk'[w].ancestors) <= Len(Above(w))
  <2>1. Len(Above(w)) \in Nat
    BY <1>1, AboveFacts
  <2>2. walk'[w].ancestors = walk[w].ancestors
    BY <1>4
  <2>3. Unasked(w)' = Unasked(w)
    BY <2>2 DEF Unasked
  <2> QED
    BY <1>6, <2>1, <2>2, <2>3
<1>13. (AsksInOrder(w) /\ LeadsDown(w, walk[w].open)
        /\ \A i \in 1 .. Len(walk[w].open) :
              /\ \A j \in 1 .. Len(walk[w].open[i].left) :
                    Parent[walk[w].open[i].left[j]] = walk[w].open[i].dir
              /\ \/ memo[walk[w].open[i].dir] # Unread
                 \/ i = Len(walk[w].open) /\ walk[w].need = <<Entered(w)>> \o Unasked(w))'
  <2>1. CASE s.need = << >> /\ s.open = short
    <3>1. AsksInOrder(w)'
      BY <1>4, <1>12, <2>1 DEF AsksInOrder
    <3>2. walk'[w].open = short /\ memo' = memo
      BY <1>4, <2>1
    <3> QED
      BY <1>7, <1>8, <1>9, <1>10, <3>1, <3>2
  <2>2. CASE e \in Dirs /\ s.need = <<e>> /\ s.open = Append(short, entered)
    <3> DEFINE new == Append(short, entered)
    <3>1. e \in Dirs \ {Top}
      BY <2>2, TreeAssumption
    <3>2. entered \in Opened /\ entered.dir = e /\ entered.left = listing[e]
          /\ \A j \in 1 .. Len(listing[e]) : Parent[listing[e][j]] = e
      BY <1>2, <3>1 DEF Opened, WalksTyped, IsListing
    <3> HIDE DEF entered
    <3>3. /\ new \in Seq(Opened) /\ Len(new) = n + 1 /\ new # << >> /\ new[n + 1] = entered
          /\ \A i \in 1 .. n : new[i] = short[i]
      BY <1>7, <3>2, AppendFacts
    <3>4. LeadsDown(w, new)
      <4>1. short[Len(short)].dir = Parent[e] /\ Parent[entered.dir] = Parent[e]
        BY <1>7, <1>11, <3>2
      <4> QED
        BY <1>1, <1>7, <1>8, <3>1, <3>2, <4>1, DownNext
    <3> HIDE DEF new
    <3>5. walk'[w].open = new /\ memo' = memo /\ walk'[w].need = <<e>>
      BY <1>4, <2>2 DEF new
    <3>6. Entered(w)' = e /\ walk'[w].need = <<Entered(w)'>> \o Unasked(w)'
      <4>1. Entered(w)' = e
        BY <3>2, <3>3, <3>5 DEF Entered
      <4>2. <<e>> \o << >> = <<e>>
        BY <2>2, AloneFacts
      <4> QED
        BY <1>12, <3>5, <4>1, <4>2
    <3>7. AsksInOrder(w)'
      <4>1. (/\ Len(walk[w].ancestors) <= Len(Above(w)) /\ walk[w].open # << >>
             /\ walk[w].need = <<Entered(w)>> \o Unasked(w)
             /\ walk[w].reading = Unread /\ walk[w].at = "walking")'
        BY <1>4, <1>12, <3>3, <3>5, <3>6
      <4> QED
        BY <4>1, Zenon DEF AsksInOrder
    <3>8. \A i \in 1 .. n + 1 : i \in 1 .. n \/ i = n + 1
      BY <1>3
    <3>9. ASSUME NEW i \in 1 .. n + 1
          PROVE  /\ \A j \in 1 .. Len(new[i].left) : Parent[new[i].left[j]] = new[i].dir
                 /\ memo[new[i].dir] # Unread \/ i = n + 1
      <4>1. CASE i \in 1 .. n
        <5>1. new[i] = short[i]
          BY <3>3, <4>1
        <5> QED
          BY <1>9, <1>10, <4>1, <5>1
      <4>2. CASE i = n + 1
        <5>1. new[i].dir = e /\ new[i].left = listing[e]
          BY <3>2, <3>3, <4>2
        <5> QED
          BY <3>2, <4>2, <5>1
      <4> QED
        BY <3>8, <4>1, <4>2
    <3>10. ASSUME NEW i \in 1 .. Len(walk'[w].open)
           PROVE  /\ \A j \in 1 .. Len(walk'[w].open[i].left) :
                        Parent[walk'[w].open[i].left[j]] = walk'[w].open[i].dir
                  /\ \/ memo'[walk'[w].open[i].dir] # Unread
                     \/ i = Len(walk'[w].open) /\ walk'[w].need = <<Entered(w)'>> \o Unasked(w)'
      <4>1. i \in 1 .. n + 1 /\ walk'[w].open[i] = new[i] /\ Len(walk'[w].open) = n + 1
        BY <3>3, <3>5
      <4>2. /\ \A j \in 1 .. Len(new[i].left) : Parent[new[i].left[j]] = new[i].dir
            /\ memo[new[i].dir] # Unread \/ i = n + 1
        BY <3>9, <4>1
      <4> QED
        BY ONLY <3>5, <3>6, <4>1, <4>2
    <3>11. LeadsDown(w, walk[w].open)'
      BY <3>4, <3>5
    <3> QED
      BY <3>7, <3>10, <3>11, Zenon
  <2> QED
    BY <2>1, <2>2 DEF short, open
<1>14. HasRead(w)'
  <2>1. (\A i \in 1 .. Len(walk[w].ancestors) :
           memo[Above(w)[i]] # Unread /\ walk[w].ancestors[i] = memo[Above(w)[i]])'
    BY <1>2, <1>4 DEF HasRead
  <2>2. (\A i \in 1 .. Len(walk[w].stack) :
           memo[walk[w].stack[i].dir] # Unread /\ walk[w].stack[i] = Held(walk[w].stack[i].dir))'
    BY <1>4 DEF Held
  <2> QED
    BY <1>13, <2>1, <2>2, Zenon DEF HasRead
<1>15. Descends(w)'
  <2>1. LeadsDown(w, walk[w].stack)'
    BY <1>4
  <2> QED
    BY <1>13, <2>1, Zenon DEF Descends
<1>16. HasJudged(w)'
  <2> SUFFICES ASSUME NEW c \in Entries, s.seen[c] \notin {"unseen", "pruned"}
               PROVE  /\ IsUnder(Parent[c], w) /\ \A d \in Around(c) : memo'[d] # Unread
                      /\ s.seen[c] = Fate(w, c)'
    BY <1>4 DEF HasJudged
  <2>1. Fate(w, c)' = Fate(w, c)
    BY DEF Fate
  <2>2. CASE c = e
    <3>1. s.seen[c] = as
      BY <1>3, <2>2 DEF Noted
    <3> QED
      BY <1>1, <2>1, <2>2, <3>1
  <2>3. CASE c # e
    <3>1. s.seen[c] = walk[w].seen[c]
      BY <1>3, <2>3 DEF Noted
    <3> QED
      BY <1>2, <2>1, <3>1 DEF HasJudged
  <2> QED
    BY <2>2, <2>3
<1> QED
  BY <1>4, <1>5, <1>13, <1>14, <1>15, <1>16, OneWalkMoves DEF WalkInv

(* An entry is excluded (configure_walker).                                *)
LEMMA PruneKeeps ==
  ASSUME WalksInv, NEW w \in Walks, NEW e \in Entries, Prune(w, e)
  PROVE  WalksInv'
<1> DEFINE s == TakenFrom(walk[w], e, "pruned")
<1>1. AtEntry(w, e) /\ UNCHANGED <<disk, listing, memo>> /\ walk' = [walk EXCEPT ![w] = s]
  BY DEF Prune, Taken, TakenFrom
<1>2. /\ walk[w].at = "walking" /\ walk[w].need = << >> /\ walk[w].reading = Unread
      /\ walk[w].open # << >> /\ walk[w].open[Len(walk[w].open)].left # << >>
  BY <1>1, MeetingFacts
<1>3. walk[w] \in WalkStates /\ HasRead(w) /\ Descends(w)
  BY <1>2, WalkHas
<1>4. Shortened(walk[w].open) \in Seq(Opened)
  BY <1>2, <1>3, StateFacts, ShortenedFacts
<1>5. "pruned" \in Outcomes
  BY DEF Outcomes
<1>6. s = TakenFrom(walk[w], e, "pruned")
  OBVIOUS
<1> HIDE DEF s
<1>7. /\ s \in WalkStates /\ s.at = "walking" /\ s.need = << >> /\ s.reading = Unread
      /\ s.ancestors = walk[w].ancestors /\ s.open = Shortened(walk[w].open)
      /\ s.stack = walk[w].stack /\ s.seen = Noted(walk[w].seen, e, "pruned")
  BY <1>2, <1>3, <1>4, <1>5, <1>6, TakenFacts
<1>8. LeadsDown(w, s.stack)
  BY <1>3, <1>7 DEF Descends
<1>9. \A i \in 1 .. Len(s.stack) : memo[s.stack[i].dir] # Unread /\ s.stack[i] = Held(s.stack[i].dir)
  BY <1>3, <1>7 DEF HasRead
<1> QED
  BY <1>1, <1>5, <1>7, <1>8, <1>9, TakingKeeps

(* What the record of a walk becomes that enters a directory, and of one   *)
(* whose filter holds another stack.                                       *)
EnteredFrom(r, d, list) ==
  [r EXCEPT !.need = <<d>>, !.open = Append(@, [dir |-> d, left |-> list])]

HeldFrom(r, stack) == [r EXCEPT !.stack = stack]

(* Of the record of a walk whose filter holds another stack.               *)
LEMMA HeldFacts ==
  ASSUME NEW r \in WalkStates, NEW stack \in Seq(Pushed), NEW s, s = HeldFrom(r, stack)
  PROVE  /\ s \in WalkStates /\ s.at = r.at /\ s.need = r.need /\ s.reading = r.reading
         /\ s.ancestors = r.ancestors /\ s.open = r.open /\ s.stack = stack /\ s.seen = r.seen
BY DEF WalkStates, HeldFrom

(* Of the record of a walk that enters a directory.                        *)
LEMMA EnteredFacts ==
  ASSUME NEW r \in WalkStates, NEW d \in Dirs, NEW list \in Seq(Entries),
         NEW s, s = EnteredFrom(r, d, list)
  PROVE  /\ s \in WalkStates /\ s.at = r.at /\ s.reading = r.reading
         /\ s.ancestors = r.ancestors /\ s.stack = r.stack /\ s.seen = r.seen
         /\ s.need = <<d>> /\ s.open = Append(r.open, [dir |-> d, left |-> list])
<1> DEFINE entered == [dir |-> d, left |-> list]
           new == Append(r.open, entered)
<1>1. <<d>> \in Seq(Dirs)
  OBVIOUS
<1>2. entered \in Opened
  BY DEF Opened
<1>3. new \in Seq(Opened)
  BY <1>2, StateFacts, AppendFacts
<1>4. s = [r EXCEPT !.need = <<d>>, !.open = new]
  BY DEF EnteredFrom
<1> HIDE DEF new
<1> QED
  BY <1>1, <1>3, <1>4 DEF WalkStates, new

(* An entry is met: the filter holds the chain of the cache, and both      *)
(* judge as git does (GitignoreFilter::skips, WalkIgnore::skips).          *)
LEMMA MeetKeeps ==
  ASSUME WalksInv, NEW w \in Walks, NEW e \in Entries, Meet(w, e)
  PROVE  WalksInv'
<1> DEFINE P == Parent[e]
           stack == Synced(w, P)
           skips == FilterSkips(w, stack, e)
           as == IF skips THEN "skipped"
                 ELSE IF Kind[e] = "link" /\ ~ ChainSkips(w, e, TRUE) THEN "named"
                 ELSE "kept"
           enters == as = "kept" /\ Kind[e] = "dir"
           taken == TakenFrom(walk[w], e, as)
           held == HeldFrom(taken, stack)
           s == IF enters THEN EnteredFrom(held, e, listing[e]) ELSE held
<1>1. AtEntry(w, e) /\ UNCHANGED <<disk, listing, memo>> /\ walk' = [walk EXCEPT ![w] = s]
  BY DEF Meet, Taken, TakenFrom, EnteredFrom, HeldFrom
<1>2. /\ w \in Dirs /\ P \in Dirs /\ IsUnder(P, w)
      /\ walk[w].at = "walking" /\ walk[w].need = << >> /\ walk[w].reading = Unread
      /\ walk[w].open # << >> /\ walk[w].open[Len(walk[w].open)].left # << >>
      /\ \A d \in Around(e) : memo[d] # Unread
      /\ walk[w].ancestors = RulesOf(memo, Above(w))
  BY <1>1, MeetingFacts
<1>3. /\ WalksTyped /\ walk[w] \in WalkStates /\ HasRead(w) /\ Descends(w)
      /\ walk[w].stack \in Seq(Pushed) /\ \A i \in 1 .. Len(walk[w].stack) : walk[w].stack[i].dir \in Dirs
  BY <1>2, WalkHas, StateFacts
<1> DEFINE K == Depth(w)
           D == Depth(P)
           N == D + 1 - K
<1>4. stack = [i \in 1 .. N |-> Held(PathTo[P][K - 1 + i])]
  BY <1>2, <1>3, SyncedFacts DEF HasRead, Descends
<1>5. K \in Nat \ {0} /\ D \in Nat \ {0} /\ K <= D /\ PathTo[P][K] = w /\ N \in Nat \ {0}
  BY <1>2, PathFacts DEF IsUnder
<1> HIDE DEF K, D, N
<1>6. \A i \in 1 .. N : PathTo[P][K - 1 + i] \in Around(e)
  <2> TAKE i \in 1 .. N
  <2> DEFINE j == K - 1 + i
             c == PathTo[P][j]
  <2>1. j \in 1 .. D
    BY <1>5 DEF N
  <2>2. c \in Dirs /\ Depth(c) = j
    BY <1>2, <2>1, OnPath DEF D
  <2>3. IsUnder(P, c)
    BY <2>1, <2>2, <1>5 DEF IsUnder, D
  <2> QED
    BY <2>2, <2>3 DEF Around, P
<1>7. \A d \in Around(e) : memo[d] \in AllRules /\ memo[d].git \in BOOLEAN
  BY <1>2, <1>3, ReadingsAssumption DEF WalksTyped, AllRules, Around
<1>8. /\ Len(stack) = N /\ stack \in Seq(Pushed)
      /\ \A i \in 1 .. N : /\ stack[i] = Held(PathTo[P][K - 1 + i])
                           /\ stack[i].dir = PathTo[P][K - 1 + i]
                           /\ stack[i].rules = memo[PathTo[P][K - 1 + i]]
  <2> HIDE DEF stack
  <2>1. \A i \in 1 .. N : stack[i] = Held(PathTo[P][K - 1 + i])
    BY <1>4
  <2>2. \A i \in 1 .. N : stack[i] \in Pushed
    <3> TAKE i \in 1 .. N
    <3> DEFINE c == PathTo[P][K - 1 + i]
    <3>1. c \in Dirs /\ memo[c] \in AllRules /\ stack[i] = Held(c)
      BY <1>6, <1>7, <2>1 DEF Around
    <3> HIDE DEF c
    <3> QED
      BY <3>1 DEF Held, Pushed
  <2>3. stack = [i \in 1 .. N |-> stack[i]]
    BY <1>4
  <2>4. Len(stack) = N /\ stack \in Seq(Pushed)
    BY <1>5, <2>2, <2>3, AsSequence
  <2> QED
    BY <2>1, <2>4 DEF Held
<1> HIDE DEF stack
<1>9. stack[N].dir = P /\ N \in 1 .. N
  <2>1. K - 1 + N = D /\ N \in 1 .. N
    BY <1>5 DEF N
  <2> QED
    BY <1>2, <1>8, <2>1, PathFacts DEF D
<1>10. LeadsDown(w, stack) /\ stack # << >>
  <2>1. stack # << >>
    BY <1>5, <1>8
  <2> QED
    BY <1>2, <1>8, <1>9, <2>1 DEF LeadsDown, N, D, K
<1>11. \A i \in 1 .. Len(stack) : memo[stack[i].dir] # Unread /\ stack[i] = Held(stack[i].dir)
  BY <1>2, <1>6, <1>8
<1>12. RulesOn(stack) = RulesOf(memo, ChainTo(w, P))
  <2> DEFINE chain == ChainTo(w, P)
  <2>1. PathTo[P] \in Seq(Dirs) /\ Len(PathTo[P]) = D
    BY <1>2, PathFacts DEF D, Depth
  <2>2. chain = SubSeq(PathTo[P], K, D)
    BY DEF ChainTo, K, D
  <2> HIDE DEF chain
  <2>3. Len(chain) = N /\ \A i \in 1 .. N : chain[i] = PathTo[P][K - 1 + i]
    BY <1>5, <2>1, <2>2 DEF N
  <2>4. RulesOn(stack) = [i \in 1 .. N |-> memo[PathTo[P][K - 1 + i]]]
    BY <1>8 DEF RulesOn
  <2>5. RulesOf(memo, chain) = [i \in 1 .. N |-> memo[PathTo[P][K - 1 + i]]]
    BY <2>3 DEF RulesOf
  <2> QED
    BY <2>4, <2>5 DEF chain
<1>13. \A isDir : GitignoreSkips(RulesOf(memo, ChainTo(w, P)), walk[w].ancestors, e, isDir)
                    <=> IsIgnored(memo, w, e, isDir)
  BY <1>2, <1>7, SkipsAgree DEF P
<1>14. skips <=> IsIgnored(memo, w, e, Kind[e] = "dir")
  <2>1. IsUnder(P, stack[Len(stack)].dir)
    <3>1. IsUnder(P, P)
      BY <1>2, PathFacts DEF IsUnder
    <3> QED
      BY <1>8, <1>9, <3>1
  <2> QED
    BY <1>12, <1>13, <2>1 DEF FilterSkips, P
<1>15. ChainSkips(w, e, TRUE) <=> IsIgnored(memo, w, e, TRUE)
  BY <1>13 DEF ChainSkips, RulesOf, P
<1>16. as = Fate(w, e) /\ as \in Outcomes
  BY <1>14, <1>15 DEF Fate, Outcomes
<1>17. enters => e \in Dirs /\ listing[e] \in Seq(Entries)
  BY <1>3 DEF Dirs, WalksTyped, IsListing
<1>18. as \in Outcomes
  BY <1>16
<1>19. Shortened(walk[w].open) \in Seq(Opened)
  BY <1>2, <1>3, StateFacts, ShortenedFacts
<1>20. as = "skipped" \/ as = "named" \/ as = "kept"
  OBVIOUS
<1> HIDE DEF taken, as
<1>21. /\ taken \in WalkStates /\ taken.at = "walking" /\ taken.need = << >> /\ taken.reading = Unread
       /\ taken.ancestors = walk[w].ancestors /\ taken.open = Shortened(walk[w].open)
       /\ taken.seen = Noted(walk[w].seen, e, as)
  <2>1. /\ taken \in WalkStates /\ taken.at = walk[w].at /\ taken.need = walk[w].need
        /\ taken.reading = walk[w].reading /\ taken.ancestors = walk[w].ancestors
        /\ taken.open = Shortened(walk[w].open) /\ taken.stack = walk[w].stack
        /\ taken.seen = Noted(walk[w].seen, e, as)
    <3>1. walk[w] \in WalkStates /\ e \in Entries
      BY <1>3
    <3> QED
      BY ONLY <1>18, <1>19, <3>1, TakenFacts DEF taken
  <2> QED
    BY <1>2, <2>1
<1>22. held = HeldFrom(taken, stack)
  OBVIOUS
<1> HIDE DEF held
<1>23. /\ held \in WalkStates /\ held.at = "walking" /\ held.need = << >> /\ held.reading = Unread
       /\ held.ancestors = walk[w].ancestors /\ held.open = Shortened(walk[w].open)
       /\ held.stack = stack /\ held.seen = Noted(walk[w].seen, e, as)
  <2>1. /\ held \in WalkStates /\ held.at = taken.at /\ held.need = taken.need
        /\ held.reading = taken.reading /\ held.ancestors = taken.ancestors
        /\ held.open = taken.open /\ held.stack = stack /\ held.seen = taken.seen
    <3>1. stack \in Seq(Pushed) /\ taken \in WalkStates
      BY <1>8, <1>21
    <3> QED
      BY ONLY <1>22, <3>1, HeldFacts
  <2> QED
    BY <1>21, <2>1
<1>24. /\ s \in WalkStates /\ s.at = "walking" /\ s.reading = Unread
       /\ s.ancestors = walk[w].ancestors /\ s.stack = stack
       /\ s.seen = Noted(walk[w].seen, e, as)
       /\ \/ s.need = << >> /\ s.open = Shortened(walk[w].open)
          \/ /\ e \in Dirs /\ s.need = <<e>>
             /\ s.open = Append(Shortened(walk[w].open), [dir |-> e, left |-> listing[e]])
  <2>1. CASE ~ enters
    BY <1>23, <2>1
  <2>2. CASE enters
    <3>1. e \in Dirs /\ listing[e] \in Seq(Entries) /\ s = EnteredFrom(held, e, listing[e])
      BY <1>17, <2>2
    <3> HIDE DEF s
    <3>2. /\ s \in WalkStates /\ s.at = held.at /\ s.reading = held.reading
          /\ s.ancestors = held.ancestors /\ s.stack = held.stack /\ s.seen = held.seen
          /\ s.need = <<e>> /\ s.open = Append(held.open, [dir |-> e, left |-> listing[e]])
      <4>1. held \in WalkStates
        BY <1>23
      <4> QED
        BY ONLY <3>1, <4>1, EnteredFacts
    <3> QED
      BY <1>23, <3>1, <3>2
  <2> QED
    BY <2>1, <2>2
<1> HIDE DEF s, enters
<1>25. /\ LeadsDown(w, s.stack)
       /\ \A i \in 1 .. Len(s.stack) : memo[s.stack[i].dir] # Unread /\ s.stack[i] = Held(s.stack[i].dir)
  BY <1>10, <1>11, <1>24
<1>26. as \in Outcomes /\ (as \notin {"unseen", "pruned"} => as = Fate(w, e))
  BY <1>16
<1> QED
  BY <1>1, <1>24, <1>25, <1>26, TakingKeeps

-----------------------------------------------------------------------------
(* All walks, and what follows.                                            *)

(* The files of a directory are edited: what was read stays read.          *)
LEMMA EditKeeps ==
  ASSUME WalksInv, NEW d \in Dirs, EditIgnore(d)
  PROVE  WalksInv'
<1>1. UNCHANGED <<listing, memo, walk>> /\ MemoGrows
  BY DEF EditIgnore, MemoGrows
<1>2. PICK rules \in Readings[d] : disk' = [disk EXCEPT ![d] = rules]
  BY DEF EditIgnore
<1>3. AreIgnoreFiles(disk)'
  BY <1>2 DEF WalksInv, WalksTyped, AreIgnoreFiles
<1>4. WalksTyped /\ \A w \in Walks : WalkInv(w)
  BY DEF WalksInv
<1>5. WalksTyped'
  BY <1>1, <1>3, <1>4 DEF WalksTyped, IsListing
<1>6. \A w \in Walks : WalkInv(w)'
  BY <1>1, <1>4, WalkRests
<1> QED
  BY <1>5, <1>6 DEF WalksInv

(* A step of the probe that is none of a walk.                             *)
LEMMA WalksStutter ==
  ASSUME WalksInv, UNCHANGED walkVars
  PROVE  WalksInv'
<1>1. UNCHANGED <<disk, listing, memo, walk>> /\ MemoGrows
  BY DEF walkVars, MemoGrows
<1>2. WalksTyped /\ \A w \in Walks : WalkInv(w)
  BY DEF WalksInv
<1>3. WalksTyped'
  BY <1>1, <1>2 DEF WalksTyped, IsListing, AreIgnoreFiles
<1>4. \A w \in Walks : WalkInv(w)'
  BY <1>1, <1>2, WalkRests
<1> QED
  BY <1>3, <1>4 DEF WalksInv

(* Every step of a walk, and the beginning.                                *)
LEMMA WalkStepKeeps ==
  ASSUME WalksInv, NEW w \in Walks, WalkStep(w)
  PROVE  WalksInv'
BY LookupKeeps, MissKeeps, ParseKeeps, InsertKeeps, LeaveKeeps, PruneKeeps, MeetKeeps DEF WalkStep

LEMMA WalksInit == Init => WalksInv
<1> SUFFICES ASSUME Init PROVE WalksInv
  OBVIOUS
<1>1. AreIgnoreFiles(disk) /\ IsListing(listing)
  BY ProjectsAssumption DEF Init
<1>2. memo = [d \in Dirs |-> Unread] /\ walk = [w \in Walks |-> NotBegun]
  BY DEF Init, NothingRead
<1>3. NotBegun \in WalkStates
  <2>1. << >> \in Seq(Dirs) /\ << >> \in Seq(AllRules) /\ << >> \in Seq(Opened) /\ << >> \in Seq(Pushed)
    OBVIOUS
  <2>2. [e \in Entries |-> "unseen"] \in [Entries -> Outcomes]
    BY DEF Outcomes
  <2> QED
    BY <2>1, <2>2 DEF NotBegun, WalkStates
<1>4. WalksTyped
  BY <1>1, <1>2, <1>3 DEF WalksTyped
<1> QED
  BY <1>2, <1>4 DEF WalksInv, WalkInv

(* Threads begin the walks of the root and of the members.                 *)
LEMMA WalksStep == ProbeInv /\ WalksInv /\ [Next]_probeVars => WalksInv'
<1> SUFFICES ASSUME ProbeInv, WalksInv, [Next]_probeVars PROVE WalksInv'
  OBVIOUS
<1>1. ThreadInv
  BY DEF ProbeInv
<1>2. CASE StartRoot
  <2>1. UNCHANGED walkVars \/ Begin(Root)
    BY <1>2 DEF StartRoot
  <2> QED
    BY <2>1, BeginKeeps, WalksStutter, RootAssumption
<1>3. CASE EndRoot \/ Return \/ Drop \/ UNCHANGED probeVars
  <2>1. UNCHANGED walkVars
    BY <1>3 DEF EndRoot, Return, Drop, probeVars, Done
  <2> QED
    BY <2>1, WalksStutter
<1>4. ASSUME NEW v \in Workers,
             Claim(v) \/ ReadConfig(v) \/ ExtractManifest(v) \/ StartMember(v) \/ EndMember(v)
      PROVE  WalksInv'
  <2>1. v \in 1 .. Spawned
    BY <1>1 DEF Workers, ThreadInv, WorkersInv
  <2>2. UNCHANGED walkVars \/ (StartMember(v) /\ Begin(Mine(v)))
    BY <1>4 DEF Claim, ReadConfig, ExtractManifest, StartMember, EndMember
  <2>3. StartMember(v) => Mine(v) \in Walks
    BY <1>1, <2>1, ProjectFacts DEF StartMember, AtMember, ThreadInv, WorkersInv, Mine
  <2> QED
    BY <2>2, <2>3, BeginKeeps, WalksStutter
<1>5. ASSUME NEW m \in pending, Follow(m) PROVE WalksInv'
  <2>1. UNCHANGED walkVars
    BY <1>5 DEF Follow
  <2> QED
    BY <2>1, WalksStutter
<1>6. CASE Walking
  <2>1. (\E w \in Walks : WalkStep(w)) \/ \E d \in Dirs : EditIgnore(d)
    BY <1>6 DEF Walking
  <2> QED
    BY <2>1, WalkStepKeeps, EditKeeps
<1> QED
  BY <1>2, <1>3, <1>4, <1>5, <1>6 DEF Next, Thread, Done

(* Every walk asks for the rules of the directories around it in order,    *)
(* keeps to one reading of them, and judges an entry by them               *)
(* (SourcesCache::dir, GitignoreFilter::skips, collect_files).             *)
THEOREM WalksInvariant == Spec => []WalksInv
BY WalksInit, WalksStep, ProbeInvariant, PTL DEF Spec

(* Two walks that race to read an ignore file that is edited in between go *)
(* by one reading of it (SourcesCache::dir).                               *)
THEOREM ReadingIsShared == Spec => []OneReading
<1>1. WalksInv => OneReading
  <2> SUFFICES ASSUME WalksInv, NEW w \in Walks
               PROVE  /\ \A i \in 1 .. Len(walk[w].stack) :
                            walk[w].stack[i].rules = memo[walk[w].stack[i].dir]
                      /\ \A i \in 1 .. Len(walk[w].ancestors) :
                            walk[w].ancestors[i] = memo[Above(w)[i]]
    BY DEF OneReading
  <2>1. CASE walk[w] = NotBegun
    BY <2>1 DEF NotBegun
  <2>2. CASE HasRead(w)
    <3>1. ASSUME NEW i \in 1 .. Len(walk[w].stack)
          PROVE  walk[w].stack[i].rules = memo[walk[w].stack[i].dir]
      <4> DEFINE d == walk[w].stack[i].dir
      <4>1. walk[w].stack[i] = Held(d)
        BY <2>2 DEF HasRead
      <4> HIDE DEF d
      <4>2. walk[w].stack[i].rules = memo[d]
        BY <4>1 DEF Held
      <4> QED
        BY <4>2 DEF d
    <3> QED
      BY <2>2, <3>1 DEF HasRead
  <2> QED
    BY <2>1, <2>2 DEF WalksInv, WalkInv
<1> QED
  BY <1>1, WalksInvariant, PTL

(* A walk makes of an entry what git's rules make of it (gitignore_skips,  *)
(* GitignoreFilter::skips).                                                *)
THEOREM GitIsFollowed == Spec => []WalkFollowsGit
<1>1. WalksInv => WalkFollowsGit
  <2> SUFFICES ASSUME WalksInv, NEW w \in Walks, NEW e \in Judged(w)
               PROVE  walk[w].seen[e] = Fate(w, e)
    BY DEF WalkFollowsGit
  <2>1. e \in Entries /\ walk[w].at = "done" /\ walk[w].seen[e] \notin {"unseen", "pruned"}
    BY DEF Judged
  <2> QED
    BY <2>1, WalkHas DEF HasJudged
<1> QED
  BY <1>1, WalksInvariant, PTL

(* The walk of a member and the walk around it agree in a repository       *)
(* (WalkIgnore::skips, GitignoreFilter::skips).                            *)
THEOREM WalksAgreeInRepository == Spec => []WalksAgree
<1>1. WalksInv => WalksAgree
  <2> SUFFICES ASSUME WalksInv, NEW w \in Walks, NEW m \in Walks, Over(w, m),
                      NEW i \in 1 .. Depth(m), InRepository(PathTo[m][i]),
                      NEW e \in Judged(w) \cap Judged(m)
               PROVE  walk[w].seen[e] = walk[m].seen[e]
    BY DEF WalksAgree
  <2>1. /\ e \in Entries
        /\ walk[w].at = "done" /\ walk[w].seen[e] \notin {"unseen", "pruned"}
        /\ walk[m].at = "done" /\ walk[m].seen[e] \notin {"unseen", "pruned"}
    BY DEF Judged
  <2>2. walk[w].seen[e] = Fate(w, e)
    BY <2>1, WalkHas DEF HasJudged
  <2>3. walk[m].seen[e] = Fate(m, e) /\ IsUnder(Parent[e], m) /\ m \in Dirs
    BY <2>1, WalkHas DEF HasJudged
  <2> DEFINE P == Parent[e]
             g == PathTo[m][i]
  <2>4. g \in Around(e)
    <3>1. /\ g \in Dirs /\ Depth(g) = i /\ P \in Dirs /\ Depth(m) \in Nat /\ Depth(P) \in Nat
          /\ Depth(m) <= Depth(P) /\ PathTo[P][Depth(m)] = m
      BY <2>1, <2>3, OnPath, PathFacts, TreeAssumption DEF IsUnder
    <3>2. Depth(m) \in 1 .. Depth(P) /\ i \in 1 .. Depth(P)
      BY <3>1
    <3>3. PathTo[P][i] = g
      BY <3>1, <3>2, OnPath
    <3> QED
      BY <3>1, <3>2, <3>3 DEF Around, IsUnder
  <2>5. Repositories(memo, e) # {}
    BY <2>4 DEF Repositories, InRepository
  <2>6. IsIgnored(memo, m, e, Kind[e] = "dir") <=> IsIgnored(memo, w, e, Kind[e] = "dir")
    BY <2>5, IgnoredAlike
  <2>7. IsIgnored(memo, m, e, TRUE) <=> IsIgnored(memo, w, e, TRUE)
    BY <2>5, IgnoredAlike
  <2> QED
    BY <2>2, <2>3, <2>6, <2>7 DEF Fate
<1> QED
  BY <1>1, WalksInvariant, PTL

=============================================================================
