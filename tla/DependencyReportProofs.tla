----------------------- MODULE DependencyReportProofs -----------------------
(***************************************************************************)
(* Proofs about the dependency report, for every project. While the        *)
(* project is analysed neither it nor its manifests change, so what the    *)
(* rules make of them does not either: what each phase has established is  *)
(* still true when the report is made. After a fix only the manifests are  *)
(* others, and the report on them is compared with the one before.         *)
(***************************************************************************)
EXTENDS DependencyReport, FiniteSetTheorems, TLAPS

-----------------------------------------------------------------------------
(* What the rules make of a project that has not changed. *)
LEMMA DeclarationsStay ==
  ASSUME project' = project, manifests' = manifests
  PROVE  /\ \A o : Refs(o)' = Refs(o)
         /\ \A r : Entry(r)' = Entry(r)
         /\ \A o : DeclaredBy(o)' = DeclaredBy(o)
         /\ \A o, d : Indexed(o, d)' = Indexed(o, d)
         /\ \A o : HasLock(o)' <=> HasLock(o)
<1>1. \A o : Refs(o)' = Refs(o)
  BY DEF Refs
<1>2. \A r : Entry(r)' = Entry(r)
  BY DEF Entry
<1>3. \A o : DeclaredBy(o)' = DeclaredBy(o)
  BY <1>1, <1>2 DEF DeclaredBy
<1>4. \A o, d : Named(o, d)' = Named(o, d)
  BY <1>1, <1>2 DEF Named
<1>5. \A o : HasLock(o)' <=> HasLock(o)
  BY DEF HasLock
<1>6. \A o : LockOf(o)' = LockOf(o)
  BY <1>5 DEF LockOf
<1>7. \A o, d : Indexed(o, d)' = Indexed(o, d)
  BY <1>1, <1>2, <1>4, <1>6 DEF Indexed
<1> QED
  BY <1>1, <1>2, <1>3, <1>5, <1>7

LEMMA RulesStay ==
  ASSUME project' = project, manifests' = manifests
  PROVE  /\ \A u, s : Unused(u, s)' = Unused(u, s)
         /\ \A i, s : MissingFromMember(i, s)' <=> MissingFromMember(i, s)
         /\ \A i, s : Undeclared(i, s)' <=> Undeclared(i, s)
         /\ \A i : Evidence(i)' = Evidence(i)
         /\ \A i, s : MisplacedImport(i, s)' <=> MisplacedImport(i, s)
         /\ \A i, s : Weigh(i, s)' = Weigh(i, s)
<1>1. \A i, u : MemberSatisfies(i, u)' <=> MemberSatisfies(i, u)
  BY DeclarationsStay DEF MemberSatisfies, DirectlyDeclared
<1>2. \A i, s : Governing(i, s)' = Governing(i, s)
  BY DeclarationsStay DEF Governing
<1>3. \A r : BuildPin(r)' <=> BuildPin(r)
  BY DeclarationsStay DEF BuildPin
<1>4. Considered' = Considered
  BY <1>3, DeclarationsStay DEF Considered
<1>5. \A e, s : Suppressed(e, s)' <=> Suppressed(e, s)
  BY DEF Suppressed
<1>6. \A r, t : ReportedBefore(r, t)' <=> ReportedBefore(r, t)
  BY <1>5, DeclarationsStay DEF ReportedBefore
<1>7. \A u, s : Unused(u, s)' = Unused(u, s)
  BY <1>4, <1>5, <1>6, DeclarationsStay DEF Unused
<1>8. \A i, s : NeedsDeclaring(i, s)' <=> NeedsDeclaring(i, s)
  BY <1>1 DEF NeedsDeclaring
<1>9. \A i, s : MissingFromMember(i, s)' <=> MissingFromMember(i, s)
  BY <1>8, DeclarationsStay DEF MissingFromMember, DirectlyDeclared
<1>10. \A i, s : Undeclared(i, s)' <=> Undeclared(i, s)
  BY <1>2, <1>8, <1>9 DEF Undeclared
<1>11. \A i : Evidence(i)' = Evidence(i)
  BY DeclarationsStay, SMTT(30) DEF Evidence
<1>12. \A i, s : MisplacedImport(i, s)' <=> MisplacedImport(i, s)
  BY <1>1, <1>2, DeclarationsStay DEF MisplacedImport
<1>13. \A s : Integrations(s)' = Integrations(s)
  BY <1>1, <1>2, DeclarationsStay DEF Integrations, Imports
<1>14. \A i, s : ByPurpose(i, s)' = ByPurpose(i, s)
  BY <1>13 DEF ByPurpose, OptedIn
<1>15. \A i, s : Weigh(i, s)' = Weigh(i, s)
  BY <1>14 DEF Weigh
<1> QED
  BY <1>7, <1>9, <1>10, <1>11, <1>12, <1>15
-----------------------------------------------------------------------------
(* Types. *)
LEMMA ImportTypes ==
  ASSUME IsWorkspace(project)
  PROVE  /\ DOMAIN project.imports = 1..Len(project.imports)
         /\ Len(project.imports) \in Nat
         /\ \A n \in DOMAIN project.imports : IsImport(project.imports[n])
BY DEF IsWorkspace, IsProject

LEMMA EntryTypes ==
  ASSUME IsManifests(manifests)
  PROVE  /\ \A o \in Owners : \A r \in Refs(o) : Entry(r) \in Entries /\ r[1] = o /\ r[2] \in Nat
         /\ DeclaredBy(Root) \subseteq Dists
<1>1. \A o \in Owners : \A r \in Refs(o) : Entry(r) \in Entries /\ r[1] = o /\ r[2] \in Nat
  BY DEF IsManifests, Refs, Entry
<1> QED
  BY <1>1 DEF DeclaredBy, Owners, Entries

LEMMA WeighTypes ==
  ASSUME NEW i, IsImport(i), NEW s
  PROVE  /\ ByPurpose(i, s) \in Strengths
         /\ Weigh(i, s) \in Weights
<1>1. ByReach(i) \in Strengths
  BY DEF IsImport, ByReach, AtMost, Strengths, HostLoaded, Optional, Deferred, Exposed, TopLevel
<1>2. ByPurpose(i, s) \in Strengths
  BY <1>1 DEF ByPurpose, AtMost, Strengths, HostLoaded, OptIn, Command, TestSupport, TopLevel
<1>3. (IF i.host_loaded THEN HostLoaded ELSE ByPurpose(i, s)) \in Strengths
  BY <1>2 DEF Strengths, HostLoaded, TopLevel
<1> QED
  BY <1>2, <1>3 DEF Weigh, Weights

LEMMA MergeTypes ==
  ASSUME TypeOK, NEW n \in DOMAIN project.imports,
         NEW c \in [known: {FALSE}]
                      \cup [known: {TRUE}, weight: Weights, ignored: BOOLEAN,
                            origin: DOMAIN project.imports]
  PROVE  Merged(c, n) \in [known: {TRUE}, weight: Weights, ignored: BOOLEAN,
                           origin: DOMAIN project.imports]
<1>1. IsImport(project.imports[n])
  BY ImportTypes DEF TypeOK
<1>2. Weight(n) \in [known: {TRUE}, weight: Weights, ignored: BOOLEAN,
                     origin: DOMAIN project.imports]
  BY <1>1, WeighTypes DEF Weight, IsImport
<1>3. \A v, w \in Weights : Absorb(v, w) \in Weights
  BY DEF Absorb, Weights
<1> QED
  BY <1>2, <1>3 DEF Merged
(* The findings are those of the rules, and stay what the rules found      *)
(* until the next analysis.                                                *)
IssuesInv ==
    /\ phase = "weigh" => issues = UnusedIssues(strict) \cup ImportIssues(strict)
    /\ phase = "reported" =>
          issues = UnusedIssues(strict) \cup ImportIssues(strict) \cup MisplacedIssues

(* The finding about an import that needs a declaration and has none. *)
UndeclaredIssue(n) ==
    LET i == project.imports[n]
    IN  Issue(UndeclaredRule(i), i.dist, i.owner, n,
              IF Evidence(i) = "edge" THEN TRUE ELSE Evidence(i) = "none" /\ ~i.conditional)

MissingIssue(n) == Issue(3, project.imports[n].dist, project.imports[n].owner, n, TRUE)

LEMMA ImportIssuesAre ==
  ASSUME NEW s
  PROVE  \A j : j \in ImportIssues(s) <=>
            \E n \in DOMAIN project.imports :
               \/ MissingFromMember(project.imports[n], s) /\ j = MissingIssue(n)
               \/ Undeclared(project.imports[n], s) /\ j = UndeclaredIssue(n)
<1> DEFINE Found(n) ==
      IF MissingFromMember(project.imports[n], s) THEN {MissingIssue(n)}
      ELSE IF ~Undeclared(project.imports[n], s) THEN {}
      ELSE {UndeclaredIssue(n)}
<1>1. ImportIssues(s) = UNION {Found(n) : n \in DOMAIN project.imports}
  BY DEF ImportIssues, MissingIssue, UndeclaredIssue
<1>2. \A j, n : j \in Found(n) <=>
         \/ MissingFromMember(project.imports[n], s) /\ j = MissingIssue(n)
         \/ Undeclared(project.imports[n], s) /\ j = UndeclaredIssue(n)
  BY DEF Undeclared
<1> HIDE DEF Found
<1> QED
  BY <1>1, <1>2

LEMMA IssueFields ==
  /\ \A n : /\ MissingIssue(n).rule = 3 /\ MissingIssue(n).import = n
            /\ MissingIssue(n).owner = project.imports[n].owner
            /\ MissingIssue(n).dist = project.imports[n].dist
            /\ UndeclaredIssue(n).rule = UndeclaredRule(project.imports[n])
            /\ UndeclaredIssue(n).import = n
            /\ UndeclaredIssue(n).owner = project.imports[n].owner
            /\ UndeclaredIssue(n).dist = project.imports[n].dist
            /\ UndeclaredIssue(n).rule \in {3, 4}
  /\ \A s : /\ \A j \in UnusedIssues(s) : j.rule = 2
            /\ \A j \in ImportIssues(s) : j.rule \in {3, 4}
  /\ \A j \in MisplacedIssues : j.rule = 5
<1>1. \A n : /\ MissingIssue(n).rule = 3 /\ MissingIssue(n).import = n
             /\ MissingIssue(n).owner = project.imports[n].owner
             /\ MissingIssue(n).dist = project.imports[n].dist
  BY DEF MissingIssue, Issue
<1>2. \A n : /\ UndeclaredIssue(n).rule = UndeclaredRule(project.imports[n])
             /\ UndeclaredIssue(n).import = n
             /\ UndeclaredIssue(n).owner = project.imports[n].owner
             /\ UndeclaredIssue(n).dist = project.imports[n].dist
  BY DEF UndeclaredIssue, Issue
<1>3. \A i : UndeclaredRule(i) \in {3, 4}
  BY DEF UndeclaredRule
<1>4. ASSUME NEW s, NEW j \in ImportIssues(s)
      PROVE  j.rule \in {3, 4}
  BY <1>1, <1>2, <1>3, ImportIssuesAre
<1>5. \A s : \A j \in UnusedIssues(s) : j.rule = 2
  BY DEF UnusedIssues, Issue
<1>6. \A j \in MisplacedIssues : j.rule = 5
  BY DEF MisplacedIssues, Issue
<1> QED
  BY <1>1, <1>2, <1>3, <1>4, <1>5, <1>6

LEMMA IssueTypes ==
  ASSUME TypeOK
  PROVE  /\ UnusedIssues(strict) \subseteq Issues
         /\ ImportIssues(strict) \subseteq Issues
         /\ MisplacedIssues \subseteq Issues
<1>1. UnusedIssues(strict) \subseteq Issues
  <2>1. \A r \in Unused(used, strict) : r \in Refs(Root)
    BY DEF Unused, Considered
  <2>2. Root \in Owners
    BY DEF Owners
  <2>3. \A r \in Refs(Root) : Entry(r).name \in Dists /\ r[2] \in Nat
    BY <2>2, EntryTypes DEF TypeOK, Entries
  <2>4. ASSUME NEW r \in Unused(used, strict)
        PROVE  Issue(2, Entry(r).name, Root, r[2], ~Entry(r).marked) \in Issues
    BY <2>1, <2>2, <2>3 DEF Issue, Issues
  <2> QED
    BY <2>4 DEF UnusedIssues
<1>2. ImportIssues(strict) \subseteq Issues
  <2>1. \A i : UndeclaredRule(i) \in 2..5
    BY DEF UndeclaredRule
  <2>2. \A n \in DOMAIN project.imports :
           /\ n \in Nat
           /\ project.imports[n].dist \in Dists
           /\ project.imports[n].owner \in Owners
    BY ImportTypes DEF TypeOK, IsImport
  <2>3. \A n \in DOMAIN project.imports : MissingIssue(n) \in Issues
    BY <2>2 DEF MissingIssue, Issue, Issues
  <2>4. ASSUME NEW n \in DOMAIN project.imports
        PROVE  UndeclaredIssue(n) \in Issues
    <3>1. \A e : (IF e = "edge" THEN TRUE
                  ELSE e = "none" /\ ~project.imports[n].conditional) \in BOOLEAN
      OBVIOUS
    <3>2. UndeclaredIssue(n).certain \in BOOLEAN
      BY <3>1 DEF UndeclaredIssue, Issue
    <3> QED
      BY <2>1, <2>2, <3>2 DEF UndeclaredIssue, Issue, Issues
  <2> QED
    BY <2>3, <2>4, ImportIssuesAre
<1>3. MisplacedIssues \subseteq Issues
  <2>1. \A k \in Owners \X Dists :
           Issue(5, k[2], k[1], 0, Settle(weighed[k].weight) = TopLevel) \in Issues
    BY DEF Issue, Issues
  <2> QED
    BY <2>1 DEF MisplacedIssues
<1> QED
  BY <1>1, <1>2, <1>3

(* An edit is one of an entry that is there. *)
LEMMA EditTypes ==
  ASSUME TypeOK, IssuesInv, phase = "reported"
  PROVE  /\ Removals \subseteq Refs(Root)
         /\ \A r \in Moves : \E o \in Owners : r \in Refs(o)
<1>1. ASSUME NEW i \in issues, i.rule = 2
      PROVE  <<Root, i.import>> \in Refs(Root)
  <2>1. i \in UnusedIssues(strict)
    BY <1>1, IssueFields DEF IssuesInv
  <2>2. PICK r \in Unused(used, strict) : i.import = r[2]
    BY <2>1 DEF UnusedIssues, Issue
  <2>3. r \in Refs(Root)
    BY <2>2 DEF Unused, Considered
  <2> QED
    BY <2>2, <2>3 DEF Refs
<1>2. \A i \in issues : GoverningManifest(i) \in Owners
  BY DEF GoverningManifest, TypeOK, Issues, Owners
<1>3. \A r \in Moves : \E o \in Owners : r \in Refs(o)
  BY <1>2 DEF Moves, MovesFor, Named
<1> QED
  BY <1>1, <1>3 DEF Removals
LEMMA EditedTypes ==
  ASSUME TypeOK, IssuesInv, phase = "reported"
  PROVE  IsManifests([o \in Owners |-> Edited(o)])
<1>1. \A e \in Entries : Moved(e) \in Entries
  BY DEF Moved, Entries, GroupBuckets
<1>2. ASSUME NEW o \in Owners, NEW n \in DOMAIN Edited(o)
      PROVE  n \in Nat /\ Edited(o)[n] \in Entries
  <2>1. n \in DOMAIN manifests[o]
    BY <1>2 DEF Edited
  <2>2. n \in Nat /\ Entry(<<o, n>>) \in Entries
    BY <2>1 DEF TypeOK, IsManifests, Entry
  <2> QED
    BY <1>1, <1>2, <2>2 DEF Edited
<1> QED
  BY <1>2 DEF IsManifests

LEMMA PlanTypes ==
  ASSUME TypeOK, IssuesInv, phase = "reported", NEW f \in Plan
  PROVE  f.kind \in {"remove", "move"} /\ f.ref \in Owners \X Nat /\ f.entry \in Entries
<1>1. PICK r \in Removals \cup Moves, k \in {"remove", "move"} :
         f = [kind |-> k, ref |-> r, entry |-> Entry(r)]
  BY DEF Plan
<1>2. PICK o \in Owners : r \in Refs(o)
  BY <1>1, EditTypes DEF Owners
<1>3. r \in Owners \X Nat /\ Entry(r) \in Entries
  BY <1>2, EntryTypes DEF TypeOK, IsManifests, Refs
<1> QED
  BY <1>1, <1>3

LEMMA UsedTypes ==
  ASSUME TypeOK
  PROVE  /\ Evident \subseteq Dists /\ PytestPlugins(Evident) \subseteq Dists
         /\ project.first_party \cap project.local \subseteq Dists
         /\ \A m \in LocalMembers : project.dist[m] \in Dists
         /\ LocalMembers \subseteq Members
         /\ \A m \in Members : project.tree[m] \subseteq Members
         /\ Companions \subseteq Dists
<1>1. \A i \in Imports : i.dist \in Dists
  BY ImportTypes DEF TypeOK, Imports, IsImport
<1>2. DeclaredBy(Root) \subseteq Dists
  BY EntryTypes DEF TypeOK
<1> QED
  BY <1>1, <1>2 DEF Evident, PytestPlugins, LocalMembers, Companions, TypeOK, IsWorkspace

(* The types of the state, from the start of every run. *)
LEMMA TypesKept == TypeOK /\ IssuesInv /\ [Next]_vars => TypeOK'
<1> SUFFICES ASSUME TypeOK, IssuesInv, [Next]_vars
             PROVE  TypeOK'
  OBVIOUS
<1>1. CASE CollectUsed
  BY <1>1, UsedTypes DEF CollectUsed, TypeOK, IsWorkspace
<1>2. CASE MarkMembers
  <2>1. NowUsed \subseteq LocalMembers
    BY DEF NowUsed
  <2> QED
    BY <1>2, <2>1, UsedTypes DEF MarkMembers, TypeOK
<1>3. CASE MembersMarked
  BY <1>3 DEF MembersMarked, TypeOK, marking
<1>4. CASE MarkCompanions
  BY <1>4, UsedTypes DEF MarkCompanions, TypeOK
<1>5. CASE Detect
  <2>1. Unweighed \in [Owners \X Dists -> [known: {FALSE}]]
    BY DEF Unweighed
  <2>2. 1 \in 1..Len(project.imports) + 1
    BY ImportTypes DEF TypeOK
  <2> QED
    BY <1>5, <2>1, <2>2, IssueTypes DEF Detect, TypeOK, marking
<1>6. CASE WeighImport
  <2> DEFINE k == <<project.imports[at].owner, project.imports[at].dist>>
  <2>1. k \in Owners \X Dists /\ at + 1 \in 1..Len(project.imports) + 1
    BY <1>6, ImportTypes DEF WeighImport, TypeOK, IsImport
  <2>2. Merged(weighed[k], at) \in [known: {TRUE}, weight: Weights, ignored: BOOLEAN,
                                   origin: DOMAIN project.imports]
    BY <1>6, <2>1, MergeTypes DEF WeighImport, TypeOK
  <2>3. weighed' \in {weighed, [weighed EXCEPT ![k] = Merged(weighed[k], at)]}
    BY <1>6 DEF WeighImport
  <2>4. weighed' \in [Owners \X Dists ->
                      [known: {FALSE}]
                          \cup [known: {TRUE}, weight: Weights, ignored: BOOLEAN,
                                origin: DOMAIN project.imports]]
    <3> HIDE DEF k
    <3> QED
      BY <2>1, <2>2, <2>3 DEF TypeOK
  <2> QED
    BY <1>6, <2>1, <2>4 DEF WeighImport, TypeOK, marking
<1>7. CASE Report
  BY <1>7, IssueTypes DEF Report, TypeOK, marking
<1>8. CASE Fix
  BY <1>8, EditedTypes, PlanTypes DEF Fix, TypeOK, marking
<1>9. CASE UNCHANGED vars
  BY <1>9 DEF vars, marking, TypeOK
<1> QED
  BY <1>1, <1>2, <1>3, <1>4, <1>5, <1>6, <1>7, <1>8, <1>9 DEF Next, NothingToFix

LEMMA FindingsStay ==
  ASSUME project' = project, manifests' = manifests, strict' = strict, used' = used
  PROVE  /\ UnusedIssues(strict)' = UnusedIssues(strict)
         /\ ImportIssues(strict)' = ImportIssues(strict)
         /\ weighed' = weighed => MisplacedIssues' = MisplacedIssues
<1>1. UnusedIssues(strict)' = UnusedIssues(strict)
  BY RulesStay, DeclarationsStay DEF UnusedIssues
<1>2. ASSUME NEW v
      PROVE  ImportIssues(v)' = ImportIssues(v)
  <2> DEFINE Found(n) ==
        IF MissingFromMember(project.imports[n], v) THEN {MissingIssue(n)}
        ELSE IF ~Undeclared(project.imports[n], v) THEN {}
        ELSE {UndeclaredIssue(n)}
  <2>1. \A i : UndeclaredRule(i)' = UndeclaredRule(i)
    BY RulesStay DEF UndeclaredRule
  <2>2. ASSUME NEW n
        PROVE  MissingIssue(n)' = MissingIssue(n) /\ UndeclaredIssue(n)' = UndeclaredIssue(n)
    <3>1. /\ Evidence(project.imports[n])' = Evidence(project.imports[n])
          /\ UndeclaredRule(project.imports[n])' = UndeclaredRule(project.imports[n])
      BY <2>1, RulesStay
    <3>2. UndeclaredIssue(n)' = UndeclaredIssue(n)
      BY <3>1 DEF UndeclaredIssue, Issue
    <3> QED
      BY <3>2 DEF MissingIssue, Issue
  <2>3. ASSUME NEW n
        PROVE  Found(n)' = Found(n)
    <3>1. /\ MissingFromMember(project.imports[n], v)' <=> MissingFromMember(project.imports[n], v)
          /\ Undeclared(project.imports[n], v)' <=> Undeclared(project.imports[n], v)
      BY RulesStay
    <3> QED
      BY <2>2, <3>1
  <2>4. ImportIssues(v) = UNION {Found(n) : n \in DOMAIN project.imports}
    BY DEF ImportIssues, MissingIssue, UndeclaredIssue
  <2>5. ImportIssues(v)' = UNION {Found(n)' : n \in DOMAIN project.imports}
    BY DEF ImportIssues, MissingIssue, UndeclaredIssue
  <2> HIDE DEF Found
  <2> QED
    BY <2>3, <2>4, <2>5
<1>3. weighed' = weighed => MisplacedIssues' = MisplacedIssues
  BY DEF MisplacedIssues
<1> QED
  BY <1>1, <1>2, <1>3

LEMMA IssuesKept == TypeOK /\ IssuesInv /\ [Next]_vars => IssuesInv'
<1> SUFFICES ASSUME TypeOK, IssuesInv, [Next]_vars
             PROVE  IssuesInv'
  OBVIOUS
<1>1. CASE Detect
  BY <1>1, FindingsStay DEF Detect, IssuesInv, marking
<1>2. CASE WeighImport
  BY <1>2, FindingsStay DEF WeighImport, IssuesInv, marking
<1>3. CASE Report
  BY <1>3, FindingsStay DEF Report, IssuesInv, marking
<1>4. CASE UNCHANGED vars
  BY <1>4, FindingsStay DEF vars, marking, IssuesInv
<1>5. CASE CollectUsed \/ MarkMembers \/ MembersMarked \/ MarkCompanions \/ Fix
  BY <1>5 DEF CollectUsed, MarkMembers, MembersMarked, MarkCompanions, Fix, IssuesInv
<1> QED
  BY <1>1, <1>2, <1>3, <1>4, <1>5 DEF Next, NothingToFix

LEMMA InitTypes == Init => TypeOK /\ IssuesInv
<1> SUFFICES ASSUME Init
             PROVE  TypeOK /\ IssuesInv
  OBVIOUS
<1>1. IsWorkspace(project) /\ IsManifests(manifests)
  BY ProjectsAssumption DEF Init, IsWorkspace, IsProject
<1>2. 1 \in 1..Len(project.imports) + 1
  BY <1>1, ImportTypes
<1>3. weighed \in [Owners \X Dists -> [known: {FALSE}]]
  BY DEF Init, Unweighed
<1> QED
  BY <1>1, <1>2, <1>3 DEF Init, TypeOK, IssuesInv

(* Every project is analysed and fixed within its types: the edits planned *)
(* are of entries that are there (plan_fixes_with_sources).                *)
THEOREM TypeCorrect == Spec => [](TypeOK /\ IssuesInv)
<1>1. TypeOK /\ IssuesInv /\ [Next]_vars => (TypeOK /\ IssuesInv)'
  BY TypesKept, IssuesKept
<1> QED
  BY InitTypes, <1>1, PTL DEF Spec
-----------------------------------------------------------------------------
(* CHK005. The sites of a distribution that have been weighed, and those   *)
(* of them that decide.                                                    *)
Key(n) == <<project.imports[n].owner, project.imports[n].dist>>

AllSites(k) ==
    {n \in DOMAIN project.imports : n < at /\ k = Key(n)
                                     /\ MisplacedImport(project.imports[n], strict)}

HeardSites(k) == {n \in AllSites(k) : ~project.imports[n].ignored}

Deciding(k) == IF HeardSites(k) = {} THEN AllSites(k) ELSE HeardSites(k)

SiteWeight(n) == Weigh(project.imports[n], strict)

(* What is known of a distribution is what its sites so far say of it      *)
(* together.                                                               *)
SitesTogether(k) ==
    LET c == weighed[k]
    IN  /\ c.known <=> AllSites(k) # {}
        /\ c.known =>
              /\ c.ignored <=> HeardSites(k) = {}
              /\ c.origin \in Deciding(k)
              /\ c.weight.strength = SiteWeight(c.origin).strength
              /\ \A n \in Deciding(k) : SiteWeight(n).strength <= c.weight.strength
              /\ c.weight.elsewhere <=> \E n \in Deciding(k) : SiteWeight(n).elsewhere

WeighedInv ==
    phase \in {"weigh", "reported"} => \A k \in Owners \X Dists : SitesTogether(k)

LEMMA SitesStay ==
  ASSUME project' = project, manifests' = manifests, strict' = strict
  PROVE  /\ \A n : Key(n)' = Key(n)
         /\ \A n : SiteWeight(n)' = SiteWeight(n)
         /\ \A n : MisplacedImport(project.imports[n], strict)'
                     <=> MisplacedImport(project.imports[n], strict)
<1>1. \A n : Key(n)' = Key(n)
  BY DEF Key
<1> QED
  BY <1>1, RulesStay DEF SiteWeight

LEMMA TogetherStays ==
  ASSUME project' = project, manifests' = manifests, strict' = strict,
         NEW k, weighed'[k] = weighed[k], AllSites(k)' = AllSites(k)
  PROVE  SitesTogether(k)' <=> SitesTogether(k)
<1>1. HeardSites(k)' = HeardSites(k)
  BY DEF HeardSites
<1>2. Deciding(k)' = Deciding(k)
  BY <1>1 DEF Deciding
<1> QED
  BY <1>1, <1>2, SitesStay DEF SitesTogether

(* One site more. *)
LEMMA SiteJoins ==
  ASSUME TypeOK, WeighedInv, WeighImport,
         NEW n, n = at, NEW k, k = Key(n),
         MisplacedImport(project.imports[n], strict)
  PROVE  SitesTogether(k)'
<1> DEFINE c == weighed[k]
           w == SiteWeight(n)
<1>1. /\ n \in DOMAIN project.imports /\ n \in Nat /\ at' = n + 1
      /\ project' = project /\ manifests' = manifests /\ strict' = strict
      /\ k \in Owners \X Dists
      /\ project.imports[n].ignored \in BOOLEAN
      /\ w \in Weights
  BY ImportTypes, WeighTypes, SMTT(30) DEF WeighImport, TypeOK, IsImport, Key, SiteWeight
<1>2. SitesTogether(k)
  BY <1>1 DEF WeighedInv, WeighImport
<1>3. weighed'[k] = Merged(c, n)
  BY <1>1 DEF WeighImport, Key, TypeOK
<1>4. AllSites(k)' = AllSites(k) \cup {n}
  <2>1. \A m \in DOMAIN project.imports : m < n + 1 <=> m < n \/ m = n
    BY <1>1, ImportTypes DEF TypeOK
  <2> QED
    BY <1>1, <2>1, SitesStay DEF AllSites
<1>5. n \notin AllSites(k)
  BY <1>1 DEF AllSites
<1>6. HeardSites(k)' = IF project.imports[n].ignored THEN HeardSites(k) ELSE HeardSites(k) \cup {n}
  BY <1>1, <1>4 DEF HeardSites
<1>7. Deciding(k)' = IF ~c.known \/ (c.ignored /\ ~project.imports[n].ignored) THEN {n}
                     ELSE IF project.imports[n].ignored /\ ~c.ignored THEN Deciding(k)
                     ELSE Deciding(k) \cup {n}
  <2>1. HeardSites(k) \subseteq AllSites(k)
    BY DEF HeardSites
  <2>2. CASE ~c.known
    BY <1>2, <1>4, <1>6, <2>1, <2>2 DEF SitesTogether, Deciding
  <2>3. CASE c.known /\ c.ignored
    BY <1>2, <1>4, <1>6, <2>1, <2>3 DEF SitesTogether, Deciding
  <2>4. CASE c.known /\ ~c.ignored
    BY <1>2, <1>4, <1>6, <2>1, <2>4 DEF SitesTogether, Deciding
  <2> QED
    BY <2>2, <2>3, <2>4
<1>8. \A m : SiteWeight(m)' = SiteWeight(m)
  BY <1>1, SitesStay
<1>9. Weight(n) = [known |-> TRUE, weight |-> w, ignored |-> project.imports[n].ignored,
                   origin |-> n]
  BY DEF Weight, SiteWeight
<1>10. AllSites(k)' # {}
  BY <1>4
<1>11. CASE ~c.known \/ (c.ignored /\ ~project.imports[n].ignored)
  <2>1. weighed'[k] = Weight(n)
    BY <1>3, <1>11 DEF Merged, Weight
  <2>2. HeardSites(k)' = {} <=> project.imports[n].ignored
    BY <1>2, <1>6, <1>11 DEF SitesTogether, HeardSites
  <2>3. w.strength <= w.strength
    BY <1>1 DEF Weights, Strengths, HostLoaded, TopLevel
  <2> QED
    BY <1>7, <1>8, <1>9, <1>10, <1>11, <2>1, <2>2, <2>3 DEF SitesTogether
<1>12. CASE c.known /\ project.imports[n].ignored /\ ~c.ignored
  <2>1. weighed'[k] = c
    BY <1>3, <1>12 DEF Merged, Weight
  <2>2. HeardSites(k)' = HeardSites(k) /\ Deciding(k)' = Deciding(k)
    BY <1>6, <1>7, <1>12
  <2> QED
    BY <1>2, <1>8, <1>10, <1>12, <2>1, <2>2 DEF SitesTogether
<1>13. CASE c.known /\ (c.ignored <=> project.imports[n].ignored)
  <2>1. /\ c \in [known: {TRUE}, weight: Weights, ignored: BOOLEAN, origin: DOMAIN project.imports]
        /\ c.weight \in Weights
    BY <1>1, <1>13 DEF TypeOK
  <2>2. weighed'[k] = [c EXCEPT !.weight = Absorb(c.weight, w),
                                !.origin = IF w.strength > c.weight.strength THEN n ELSE c.origin]
    BY <1>3, <1>9, <1>13, <2>1 DEF Merged
  <2> DEFINE stronger == w.strength > c.weight.strength
  <2>3. Deciding(k)' = Deciding(k) \cup {n}
    BY <1>7, <1>13
  <2>4. HeardSites(k)' = {} <=> c.ignored
    BY <1>2, <1>6, <1>13 DEF SitesTogether
  <2> DEFINE d == weighed'[k]
  <2>5. /\ d.known /\ (d.ignored <=> c.ignored)
        /\ d.origin = IF w.strength > c.weight.strength THEN n ELSE c.origin
        /\ d.weight.strength = IF w.strength > c.weight.strength THEN w.strength ELSE c.weight.strength
        /\ d.weight.elsewhere <=> c.weight.elsewhere \/ w.elsewhere
    <3>1. /\ d.known = c.known /\ d.ignored = c.ignored /\ d.weight = Absorb(c.weight, w)
          /\ d.origin = IF stronger THEN n ELSE c.origin
      <4>1. DOMAIN c = {"known", "weight", "ignored", "origin"}
        BY <2>1
      <4>2. d = [c EXCEPT !.weight = Absorb(c.weight, w), !.origin = IF stronger THEN n ELSE c.origin]
        BY <2>2
      <4> HIDE DEF c, w, stronger
      <4>3. \A x, y : LET e == [c EXCEPT !.weight = x, !.origin = y]
                     IN  e.known = c.known /\ e.ignored = c.ignored /\ e.weight = x /\ e.origin = y
        BY <4>1
      <4> HIDE DEF d
      <4> QED
        BY <4>2, <4>3
    <3>2. /\ Absorb(c.weight, w).strength
                = IF w.strength > c.weight.strength THEN w.strength ELSE c.weight.strength
          /\ Absorb(c.weight, w).elsewhere <=> c.weight.elsewhere \/ w.elsewhere
      BY DEF Absorb
    <3> HIDE DEF c, w, d
    <3> QED
      BY <1>13, <3>1, <3>2
  <2>6. d.origin \in Deciding(k)'
    BY <1>2, <1>13, <2>3, <2>5 DEF SitesTogether
  <2>7. d.weight.strength = SiteWeight(d.origin).strength
    BY <1>2, <1>13, <2>5 DEF SitesTogether
  <2>8. \A m \in Deciding(k)' : SiteWeight(m).strength <= d.weight.strength
    <3>1. /\ c.weight.strength \in Strengths /\ w.strength \in Strengths
          /\ \A m \in Deciding(k) : SiteWeight(m).strength \in Strengths
      BY <1>1, <2>1, ImportTypes, WeighTypes
         DEF Weights, Deciding, HeardSites, AllSites, SiteWeight, TypeOK
    <3> QED
      BY <1>2, <1>13, <2>3, <2>5, <3>1
         DEF SitesTogether, Strengths, HostLoaded, TopLevel
  <2>9. d.weight.elsewhere <=> \E m \in Deciding(k)' : SiteWeight(m).elsewhere
    BY <1>2, <1>13, <2>3, <2>5 DEF SitesTogether
  <2> QED
    BY <1>8, <1>10, <2>4, <2>5, <2>6, <2>7, <2>8, <2>9 DEF SitesTogether
<1> QED
  BY <1>1, <1>2, <1>11, <1>12, <1>13
LEMMA WeighedKept == TypeOK /\ WeighedInv /\ [Next]_vars => WeighedInv'
<1> SUFFICES ASSUME TypeOK, WeighedInv, [Next]_vars
             PROVE  WeighedInv'
  OBVIOUS
<1>1. CASE Detect
  <2>1. ASSUME NEW k \in Owners \X Dists
        PROVE  SitesTogether(k)'
    <3>1. ~weighed'[k].known
      BY <1>1 DEF Detect, Unweighed
    <3>2. AllSites(k)' = {}
      BY <1>1, ImportTypes DEF Detect, AllSites, TypeOK
    <3> QED
      BY <3>1, <3>2 DEF SitesTogether
  <2> QED
    BY <2>1 DEF WeighedInv
<1>2. CASE WeighImport
  <2> SUFFICES ASSUME NEW k \in Owners \X Dists
               PROVE  SitesTogether(k)'
    BY DEF WeighedInv
  <2>1. /\ project' = project /\ manifests' = manifests /\ strict' = strict
        /\ at \in DOMAIN project.imports /\ at' = at + 1 /\ SitesTogether(k)
    BY <1>2 DEF WeighImport, WeighedInv
  <2>2. CASE MisplacedImport(project.imports[at], strict) /\ k = Key(at)
    BY <1>2, <2>2, SiteJoins
  <2>3. CASE ~(MisplacedImport(project.imports[at], strict) /\ k = Key(at))
    <3>1. weighed'[k] = weighed[k]
      BY <1>2, <2>3 DEF WeighImport, Key, TypeOK
    <3>2. \A m \in DOMAIN project.imports : m < at + 1 <=> m < at \/ m = at
      BY <2>1, ImportTypes DEF TypeOK
    <3>3. AllSites(k)' = AllSites(k)
      BY <2>1, <2>3, <3>2, SitesStay DEF AllSites
    <3> QED
      BY <2>1, <3>1, <3>3, TogetherStays
  <2> QED
    BY <2>2, <2>3
<1>3. CASE Report \/ UNCHANGED vars
  <2> SUFFICES ASSUME phase' \in {"weigh", "reported"}, NEW k \in Owners \X Dists
               PROVE  SitesTogether(k)'
    BY DEF WeighedInv
  <2>1. /\ project' = project /\ manifests' = manifests /\ strict' = strict
        /\ at' = at /\ weighed' = weighed /\ phase \in {"weigh", "reported"}
    BY <1>3 DEF Report, vars, marking
  <2>2. AllSites(k)' = AllSites(k)
    BY <2>1, SitesStay DEF AllSites
  <2> QED
    BY <2>1, <2>2, TogetherStays DEF WeighedInv
<1>4. CASE CollectUsed \/ MarkMembers \/ MembersMarked \/ MarkCompanions \/ Fix
  BY <1>4 DEF CollectUsed, MarkMembers, MembersMarked, MarkCompanions, Fix, WeighedInv
<1> QED
  BY <1>1, <1>2, <1>3, <1>4 DEF Next, NothingToFix

(* Every import has been weighed when the report is made. *)
AtInv == phase = "reported" => at \notin DOMAIN project.imports

LEMMA AtKept == AtInv /\ [Next]_vars => AtInv'
BY DEF AtInv, Next, vars, marking, CollectUsed, MarkMembers, MembersMarked, MarkCompanions,
       Detect, WeighImport, Report, Fix, NothingToFix

LEMMA AllWeighed ==
  ASSUME TypeOK, AtInv, phase = "reported", NEW k
  PROVE  AllSites(k) = {n \in DOMAIN project.imports :
                           /\ MisplacedImport(project.imports[n], strict)
                           /\ k = <<project.imports[n].owner, project.imports[n].dist>>}
<1>1. \A n \in DOMAIN project.imports : n < at
  BY ImportTypes DEF TypeOK, AtInv
<1> QED
  BY <1>1 DEF AllSites, Key

(* What the steps of the rule make of one site is what its table says.     *)
LEMMA WeighedByTable ==
  ASSUME NEW i, IsImport(i)
  PROVE  Weigh(i, strict).strength = ByTable(i)
<1> USE DEF HostLoaded, OptIn, Command, TestSupport, Optional, Deferred, Exposed, TopLevel
<1>1. /\ i.site \in {4, 6, 8} /\ i.reach \in 0..3
      /\ i.host_loaded \in BOOLEAN /\ i.command \in BOOLEAN /\ i.test_support \in BOOLEAN
  BY DEF IsImport
<1> DEFINE position ==
            IF i.site = Optional THEN Optional
            ELSE CASE i.reach = 0 -> Deferred
                   [] i.reach = 1 -> Optional
                   [] i.reach = 2 -> IF i.site = TopLevel THEN Exposed ELSE i.site
                   [] i.reach = 3 -> i.site
<1>2. ByReach(i) = position /\ position \in {4, 6, 7, 8}
  BY <1>1 DEF ByReach, AtMost
<1>3. ByPurpose(i, strict) = IF OptedIn(i, strict) THEN OptIn
                             ELSE IF i.command THEN Command
                             ELSE IF i.test_support /\ position # TopLevel THEN TestSupport
                             ELSE position
  <2> HIDE DEF position
  <2> QED
    BY <1>1, <1>2 DEF ByPurpose, AtMost
<1> QED
  BY <1>3 DEF Weigh, ByTable
WeighedTogether == TypeOK /\ WeighedInv /\ AtInv

LEMMA SettledAsASet == WeighedTogether => WeighedAsASet
<1> SUFFICES ASSUME WeighedTogether, phase = "reported", NEW k \in Owners \X Dists
             PROVE
      LET all == {n \in DOMAIN project.imports :
                     /\ MisplacedImport(project.imports[n], strict)
                     /\ k = <<project.imports[n].owner, project.imports[n].dist>>}
          heard == {n \in all : ~project.imports[n].ignored}
          sites == IF heard = {} THEN all ELSE heard
          Strength(n) == ByTable(project.imports[n])
          strongest == {n \in sites : \A o \in sites : Strength(o) <= Strength(n)}
          optional == \/ k \in project.predicates
                      \/ \E n \in sites : /\ project.imports[n].site = Optional
                                          /\ ~project.imports[n].platform
      IN  /\ weighed[k].known <=> all # {}
          /\ all # {} =>
                /\ weighed[k].ignored <=> heard = {}
                /\ weighed[k].origin \in strongest
                /\ \A n \in strongest :
                      Settle(weighed[k].weight) =
                          IF Strength(n) = Deferred /\ optional THEN DeferredOptional
                          ELSE Strength(n)
  BY DEF WeighedAsASet
<1> DEFINE Strength(n) == ByTable(project.imports[n])
           strongest == {n \in Deciding(k) : \A o \in Deciding(k) : Strength(o) <= Strength(n)}
           optional == \/ k \in project.predicates
                       \/ \E n \in Deciding(k) : /\ project.imports[n].site = Optional
                                                 /\ ~project.imports[n].platform
           c == weighed[k]
<1>1. SitesTogether(k)
  BY DEF WeighedTogether, WeighedInv
<1>2. /\ c.known <=> AllSites(k) # {}
      /\ c.known => (c.ignored <=> HeardSites(k) = {})
  BY <1>1 DEF SitesTogether
<1>3. ASSUME c.known
      PROVE  /\ c.origin \in strongest
             /\ \A n \in strongest :
                   Settle(c.weight) = IF Strength(n) = Deferred /\ optional THEN DeferredOptional
                                      ELSE Strength(n)
  <2>1. \A n \in Deciding(k) : /\ n \in DOMAIN project.imports
                               /\ IsImport(project.imports[n])
                               /\ k = Key(n)
    BY ImportTypes DEF WeighedTogether, TypeOK, Deciding, HeardSites, AllSites
  <2>2. \A n \in Deciding(k) : SiteWeight(n).strength = Strength(n) /\ Strength(n) \in Strengths
    BY <2>1, WeighedByTable, WeighTypes DEF SiteWeight, Weights
  <2>3. c.origin \in Deciding(k) /\ c.weight.strength = Strength(c.origin)
    BY <1>1, <1>3, <2>2 DEF SitesTogether
  <2>4. \A n \in Deciding(k) : Strength(n) <= c.weight.strength
    BY <1>1, <1>3, <2>2 DEF SitesTogether
  <2>5. c.origin \in strongest
    BY <2>3, <2>4
  <2>6. ASSUME NEW n \in strongest
        PROVE  Strength(n) = c.weight.strength
    <3>1. /\ Strength(n) \in Strengths /\ Strength(c.origin) \in Strengths
          /\ Strength(n) <= Strength(c.origin) /\ Strength(c.origin) <= Strength(n)
      BY <2>2, <2>3, <2>4
    <3> HIDE DEF Strength
    <3> QED
      BY <2>3, <3>1 DEF Strengths, HostLoaded, TopLevel
  <2>7. ASSUME c.weight.strength = Deferred
        PROVE  c.weight.elsewhere <=> optional
    <3>1. c.weight.elsewhere <=> \E n \in Deciding(k) : SiteWeight(n).elsewhere
      BY <1>1, <1>3 DEF SitesTogether
    <3>2. \A n \in Deciding(k) :
             SiteWeight(n).elsewhere <=>
                \/ project.imports[n].site = Optional /\ ~project.imports[n].platform
                \/ ByPurpose(project.imports[n], strict) = Deferred /\ k \in project.predicates
      BY <2>1 DEF SiteWeight, Weigh, Key
    <3>3. ByPurpose(project.imports[c.origin], strict) = Deferred
      BY <1>1, <1>3, <2>7 DEF SitesTogether, SiteWeight, Weigh, HostLoaded, Deferred
    <3> QED
      BY <2>3, <3>1, <3>2, <3>3
  <2>8. \A n \in strongest :
          Settle(c.weight) = IF Strength(n) = Deferred /\ optional THEN DeferredOptional
                             ELSE Strength(n)
    <3> HIDE DEF Strength, optional, strongest, c
    <3> QED
      BY <2>6, <2>7 DEF Settle
  <2> QED
    BY <2>5, <2>8
<1>4. AllSites(k) = {n \in DOMAIN project.imports :
                        /\ MisplacedImport(project.imports[n], strict)
                        /\ k = <<project.imports[n].owner, project.imports[n].dist>>}
  BY AllWeighed DEF WeighedTogether
<1> QED
  BY <1>2, <1>3, <1>4, SMTT(30) DEF HeardSites, Deciding
(* CHK005 says of a distribution what its sites say together, whatever     *)
(* their order (detect_misplaced_dependencies, Weight::absorb).            *)
THEOREM WeighedTogetherCorrect == Spec => []WeighedAsASet
<1>1. Init => WeighedInv /\ AtInv
  BY DEF Init, WeighedInv, AtInv
<1>2. TypeOK /\ WeighedInv /\ AtInv /\ [Next]_vars => (WeighedInv /\ AtInv)'
  BY WeighedKept, AtKept
<1> QED
  BY TypeCorrect, <1>1, <1>2, SettledAsASet, PTL DEF Spec, WeighedTogether

-----------------------------------------------------------------------------
(* What is used. While it is collected, all that is known to be used and   *)
(* provided is so in every closed set, and the members done have handed    *)
(* on what their trees import.                                             *)
MembersUsing(S) == {m \in LocalMembers : project.dist[m] \in S}

ProvidedBy(members) == project.provided \cup UNION {project.tree[m] : m \in members}

UsedInv ==
    phase \in {"members", "companions", "weigh"} =>
        /\ Evident \cup PytestPlugins(Evident) \cup (project.first_party \cap project.local)
              \subseteq used
        /\ done \subseteq MembersUsing(used)
        /\ provided = ProvidedBy(done)
        /\ phase # "members" /\ ~CompanionMember => NowUsed = {}
        /\ phase = "weigh" => Companions \subseteq used
        /\ \A S \in SUBSET Dists :
              IsClosed(S) => used \subseteq S /\ provided \subseteq ProvidedBy(MembersUsing(S))

LEMMA SeedsStay ==
  ASSUME project' = project, manifests' = manifests
  PROVE  /\ Evident' = Evident /\ PytestPlugins(Evident)' = PytestPlugins(Evident)
         /\ LocalMembers' = LocalMembers
         /\ \A S : MembersUsing(S)' = MembersUsing(S)
         /\ \A T : ProvidedBy(T)' = ProvidedBy(T)
         /\ \A S : IsClosed(S)' <=> IsClosed(S)
         /\ CompanionMember' <=> CompanionMember
         /\ used' = used => Companions' = Companions
<1>1. Evident' = Evident
  BY DeclarationsStay DEF Evident, Imports
<1>2. PytestPlugins(Evident)' = PytestPlugins(Evident)
  BY <1>1, DeclarationsStay DEF PytestPlugins
<1>3. LocalMembers' = LocalMembers
  BY DeclarationsStay DEF LocalMembers
<1>4. \A S : MembersUsing(S)' = MembersUsing(S)
  BY <1>3 DEF MembersUsing
<1>5. \A T : ProvidedBy(T)' = ProvidedBy(T)
  BY DEF ProvidedBy
<1>6. \A S : IsClosed(S)' <=> IsClosed(S)
  BY <1>1, <1>2, <1>3, DeclarationsStay DEF IsClosed
<1>7. CompanionMember' <=> CompanionMember
  BY <1>3 DEF CompanionMember
<1>8. used' = used => Companions' = Companions
  BY DeclarationsStay DEF Companions
<1> QED
  BY <1>1, <1>2, <1>3, <1>4, <1>5, <1>6, <1>7, <1>8

LEMMA ClosedSets ==
  ASSUME NEW S, IsClosed(S)
  PROVE  /\ Evident \cup PytestPlugins(Evident) \cup (project.first_party \cap project.local) \subseteq S
         /\ \A m \in LocalMembers \cap ProvidedBy(MembersUsing(S)) : project.dist[m] \in S
         /\ \A d \in DeclaredBy(Root) :
               d \in project.loaded \/ (\E e \in project.peers : e[1] = d /\ e[2] \in S) => d \in S
BY DEF IsClosed, ProvidedBy, MembersUsing

LEMMA UsedKept == TypeOK /\ UsedInv /\ [Next]_vars => UsedInv'
<1> SUFFICES ASSUME TypeOK, UsedInv, [Next]_vars
             PROVE  UsedInv'
  OBVIOUS
<1>1. CASE CollectUsed
  <2>1. /\ project' = project /\ manifests' = manifests /\ phase' = "members"
        /\ used' = Evident \cup PytestPlugins(Evident) \cup (project.first_party \cap project.local)
        /\ provided' = project.provided /\ done' = {}
    BY <1>1 DEF CollectUsed
  <2>2. \A T : project.provided \subseteq ProvidedBy(T)
    BY DEF ProvidedBy
  <2>3. ProvidedBy({}) = project.provided
    BY DEF ProvidedBy
  <2>4. \A S \in SUBSET Dists :
           IsClosed(S) => used' \subseteq S /\ provided' \subseteq ProvidedBy(MembersUsing(S))
    BY <2>1, <2>2, ClosedSets
  <2> QED
    BY <2>1, <2>3, <2>4, SeedsStay DEF UsedInv
<1>2. CASE MarkMembers
  <2> DEFINE new == {project.dist[m] : m \in NowUsed}
  <2>1. /\ project' = project /\ manifests' = manifests /\ phase' = "members" /\ phase = "members"
        /\ used' = used \cup new
        /\ provided' = provided \cup UNION {project.tree[m] : m \in NowUsed}
        /\ done' = done \cup NowUsed
    BY <1>2 DEF MarkMembers
  <2>2. provided' = ProvidedBy(done')
    BY <2>1 DEF UsedInv, ProvidedBy
  <2>3. done' \subseteq MembersUsing(used')
    BY <2>1 DEF UsedInv, MembersUsing, NowUsed
  <2>4. ASSUME NEW S \in SUBSET Dists, IsClosed(S)
        PROVE  used' \subseteq S /\ provided' \subseteq ProvidedBy(MembersUsing(S))
    <3>1. used \subseteq S /\ provided \subseteq ProvidedBy(MembersUsing(S))
      BY <2>1, <2>4 DEF UsedInv
    <3>2. \A m \in NowUsed : m \in LocalMembers /\ project.dist[m] \in S
      BY <2>4, <3>1, ClosedSets DEF NowUsed
    <3>3. \A m \in NowUsed : project.tree[m] \subseteq ProvidedBy(MembersUsing(S))
      BY <3>2 DEF ProvidedBy, MembersUsing
    <3> QED
      BY <2>1, <3>1, <3>2, <3>3
  <2>5. Evident \cup PytestPlugins(Evident) \cup (project.first_party \cap project.local) \subseteq used'
    BY <2>1 DEF UsedInv
  <2>6. /\ (Evident \cup PytestPlugins(Evident) \cup (project.first_party \cap project.local)
             \subseteq used)'
        /\ (done \subseteq MembersUsing(used))'
        /\ (provided = ProvidedBy(done))'
    BY <2>1, <2>2, <2>3, <2>5, SeedsStay
  <2>7. (\A S \in SUBSET Dists :
           IsClosed(S) => used \subseteq S /\ provided \subseteq ProvidedBy(MembersUsing(S)))'
    BY <2>1, <2>4, SeedsStay
  <2> QED
    BY <2>1, <2>6, <2>7 DEF UsedInv
<1>3. CASE MembersMarked
  <2>1. /\ project' = project /\ manifests' = manifests /\ phase' = "companions" /\ phase = "members"
        /\ used' = used /\ provided' = provided /\ done' = done /\ NowUsed = {}
    BY <1>3 DEF MembersMarked, marking
  <2>2. NowUsed' = {}
    BY <2>1, SeedsStay DEF NowUsed
  <2> QED
    BY <2>1, <2>2, SeedsStay DEF UsedInv
<1>4. CASE MarkCompanions
  <2>1. /\ project' = project /\ manifests' = manifests
        /\ phase' = "companions" /\ phase = "companions"
        /\ used' = used \cup Companions /\ provided' = provided /\ done' = done
    BY <1>4 DEF MarkCompanions
  <2>2. ~CompanionMember => NowUsed' = {}
    BY <2>1, SeedsStay DEF UsedInv, NowUsed, Companions, CompanionMember
  <2>3. ASSUME NEW S \in SUBSET Dists, IsClosed(S)
        PROVE  used' \subseteq S /\ provided' \subseteq ProvidedBy(MembersUsing(S))
    BY <2>1, <2>3, ClosedSets DEF UsedInv, Companions
  <2>4. done' \subseteq MembersUsing(used')
    BY <2>1 DEF UsedInv, MembersUsing
  <2> QED
    BY <2>1, <2>2, <2>3, <2>4, SeedsStay DEF UsedInv
<1>5. CASE Detect \/ WeighImport \/ UNCHANGED vars
  <2>1. /\ project' = project /\ manifests' = manifests
        /\ used' = used /\ provided' = provided /\ done' = done
        /\ phase' = phase \/ (phase = "companions" /\ phase' = "weigh" /\ Companions \subseteq used)
    BY <1>5 DEF Detect, WeighImport, vars, marking
  <2>2. NowUsed' = NowUsed
    BY <2>1, SeedsStay DEF NowUsed
  <2> QED
    BY <2>1, <2>2, SeedsStay DEF UsedInv
<1>6. CASE Report \/ Fix
  BY <1>6 DEF Report, Fix, UsedInv
<1> QED
  BY <1>1, <1>2, <1>3, <1>4, <1>5, <1>6 DEF Next, NothingToFix

LEMMA UsedIsClosed ==
  ASSUME UsedInv, phase = "weigh", ~CompanionMember
  PROVE  IsClosed(used)
<1>1. MembersUsing(used) = done
  BY DEF UsedInv, NowUsed, MembersUsing
<1>2. \A m \in LocalMembers \cap ProvidedBy(MembersUsing(used)) : project.dist[m] \in used
  BY <1>1 DEF UsedInv, NowUsed, MembersUsing
<1> QED
  BY <1>2 DEF UsedInv, IsClosed, Companions, ProvidedBy, MembersUsing

(* The rounds of mark_workspace_source_distributions and used_companions   *)
(* find all that is used, and nothing else, whatever the order.            *)
THEOREM UsedIsLeastCorrect == Spec => []UsedIsLeast
<1>1. Init => UsedInv
  BY DEF Init, UsedInv
<1>2. TypeOK /\ UsedInv /\ [Next]_vars => UsedInv'
  BY UsedKept
<1>3. TypeOK /\ UsedInv => UsedIsLeast
  BY UsedIsClosed DEF TypeOK, UsedInv, UsedIsLeast
<1> QED
  BY TypeCorrect, <1>1, <1>2, <1>3, PTL DEF Spec
-----------------------------------------------------------------------------
(* What is reported of an import. *)
ReportInv == TypeOK /\ IssuesInv /\ WeighedInv /\ AtInv

LEMMA ReportKept == ReportInv /\ [Next]_vars => ReportInv'
BY TypesKept, IssuesKept, WeighedKept, AtKept DEF ReportInv

LEMMA ReportStarts == Init => ReportInv
BY InitTypes DEF ReportInv, Init, WeighedInv, AtInv

(* CHK005 has a finding for the distribution of an import exactly if some  *)
(* import of it by the same owner is misplaced, and one is not ignored.    *)
LEMMA MisplacedKnown ==
  ASSUME ReportInv, phase = "reported", NEW n \in DOMAIN project.imports
  PROVE  /\ Key(n) \in Owners \X Dists
         /\ weighed[Key(n)].known <=>
               \E m \in DOMAIN project.imports :
                  Key(m) = Key(n) /\ MisplacedImport(project.imports[m], strict)
         /\ MisplacedImport(project.imports[n], strict) /\ ~project.imports[n].ignored
               => weighed[Key(n)].known /\ ~weighed[Key(n)].ignored
<1>1. Key(n) \in Owners \X Dists
  BY ImportTypes DEF ReportInv, TypeOK, IsImport, Key
<1>2. SitesTogether(Key(n))
  BY <1>1 DEF ReportInv, WeighedInv
<1>3. \A m \in DOMAIN project.imports :
         m \in AllSites(Key(n)) <=>
            Key(m) = Key(n) /\ MisplacedImport(project.imports[m], strict)
  BY AllWeighed DEF ReportInv, Key
<1>4. AllSites(Key(n)) \subseteq DOMAIN project.imports
  BY DEF AllSites
<1> QED
  BY <1>1, <1>2, <1>3, <1>4 DEF SitesTogether, HeardSites

(* Whether an import is misplaced depends on nothing but who imports what, *)
(* for imports that run where they are reached.                            *)
LEMMA MisplacedAlike ==
  ASSUME NEW i, NEW j, i.owner = j.owner, i.dist = j.dist,
         RuntimeImport(j), MisplacedImport(i, strict)
  PROVE  MisplacedImport(j, strict)
BY DEF MisplacedImport, MemberSatisfies, Governing

(* The rules about one import exclude each other, and one of them applies  *)
(* unless it is covered.                                                   *)
LEMMA RulesExclude ==
  ASSUME NEW i, RuntimeImport(i), i.owner \in Owners, strict \in BOOLEAN
  PROVE  /\ Covered(i) => ~MissingFromMember(i, strict) /\ ~Undeclared(i, strict)
                          /\ ~MisplacedImport(i, strict)
         /\ ~Covered(i) => MissingFromMember(i, strict) \/ Undeclared(i, strict)
                           \/ MisplacedImport(i, strict)
         /\ ~(MissingFromMember(i, strict) /\ MisplacedImport(i, strict))
         /\ ~(Undeclared(i, strict) /\ MisplacedImport(i, strict))
         /\ ~(MissingFromMember(i, strict) /\ Undeclared(i, strict))
<1>1. \A refs : DirectlyDeclared(refs, "runtime") <=>
                \E r \in refs : Buckets(Entry(r)) \cap {"runtime", "optional"} # {}
  BY DEF DirectlyDeclared, Matches, Matching
<1>2. i.usage = "runtime" /\ Checked(i)
  BY DEF RuntimeImport
<1>3. i.owner = Root => Indexed(i.owner, i.dist) = Indexed(Root, i.dist)
  OBVIOUS
<1> QED
  BY <1>1, <1>2, <1>3
     DEF Covered, MissingFromMember, Undeclared, NeedsDeclaring, MisplacedImport,
         RuntimeImport, MemberSatisfies, Governing
MisplacedIssue(k) == Issue(5, k[2], k[1], 0, Settle(weighed[k].weight) = TopLevel)

LEMMA FoundAre ==
  ASSUME ReportInv, phase = "reported", NEW n \in DOMAIN project.imports,
         RuntimeImport(project.imports[n]), ~Silenced(n)
  PROVE  FoundBy(n) =
            {j \in {MissingIssue(n)} : MissingFromMember(project.imports[n], strict)}
            \cup {j \in {UndeclaredIssue(n)} : Undeclared(project.imports[n], strict)}
            \cup {j \in {MisplacedIssue(Key(n))} : MisplacedImport(project.imports[n], strict)}
<1> DEFINE i == project.imports[n]
<1>1. \A j : j \in issues <=>
         j \in UnusedIssues(strict) \/ j \in ImportIssues(strict) \/ j \in MisplacedIssues
  BY DEF ReportInv, IssuesInv
<1>2. \A j : (j \in issues /\ j.import = n /\ j.rule \in {3, 4}) <=>
            \/ j = MissingIssue(n) /\ MissingFromMember(i, strict)
            \/ j = UndeclaredIssue(n) /\ Undeclared(i, strict)
  BY <1>1, ImportIssuesAre, IssueFields
<1>3. Key(n) \in Owners \X Dists /\ weighed[Key(n)].known <=> MisplacedImport(i, strict)
  <2>1. \A m \in DOMAIN project.imports :
           Key(m) = Key(n) /\ MisplacedImport(project.imports[m], strict)
              => MisplacedImport(i, strict)
    BY MisplacedAlike DEF Key
  <2> QED
    BY <2>1, MisplacedKnown
<1>4. weighed[Key(n)].known => ~weighed[Key(n)].ignored
  BY DEF Silenced, Key
<1>5. \A j : j \in MisplacedIssues <=>
            \E k \in Owners \X Dists : /\ weighed[k].known /\ ~weighed[k].ignored
                                      /\ j = MisplacedIssue(k)
  BY DEF MisplacedIssues, MisplacedIssue
<1>6. \A k \in Owners \X Dists :
         MisplacedIssue(k).owner = k[1] /\ MisplacedIssue(k).dist = k[2] /\ MisplacedIssue(k).rule = 5
  BY DEF MisplacedIssue, Issue
<1>7. \A j : (j \in issues /\ j.rule = 5 /\ j.owner = i.owner /\ j.dist = i.dist) <=>
            j = MisplacedIssue(Key(n)) /\ MisplacedImport(i, strict)
  <2>1. \A k \in Owners \X Dists : k = <<k[1], k[2]>>
    OBVIOUS
  <2>2. Key(n) = <<i.owner, i.dist>> /\ Key(n) \in Owners \X Dists
    BY MisplacedKnown DEF Key
  <2> QED
    BY <1>1, <1>3, <1>4, <1>5, <1>6, <2>1, <2>2, IssueFields
<1> QED
  BY <1>2, <1>7 DEF FoundBy

(* One rule, and only one, reports a runtime import that no manifest that  *)
(* speaks for it covers; none reports one that is covered (the lookup that *)
(* missing.rs and misplaced.rs share, ImportDeclarations::governing).      *)
THEOREM OneVerdictCorrect == Spec => []OneVerdict
<1>1. ReportInv => OneVerdict
  <2> SUFFICES ASSUME ReportInv, phase = "reported", NEW n \in DOMAIN project.imports,
                      RuntimeImport(project.imports[n]), ~Silenced(n)
               PROVE  Cardinality(FoundBy(n)) = IF Covered(project.imports[n]) THEN 0 ELSE 1
    BY DEF OneVerdict
  <2> DEFINE i == project.imports[n]
  <2>1. i.owner \in Owners /\ strict \in BOOLEAN
    BY ImportTypes DEF ReportInv, TypeOK, IsImport
  <2>2. CASE Covered(i)
    <3>1. FoundBy(n) = {}
      BY <2>1, <2>2, FoundAre, RulesExclude
    <3> QED
      BY <2>2, <3>1, FS_EmptySet
  <2>3. CASE ~Covered(i)
    <3>1. PICK j : FoundBy(n) = {j}
      BY <2>1, <2>3, FoundAre, RulesExclude
    <3> QED
      BY <2>3, <3>1, FS_Singleton
  <2> QED
    BY <2>2, <2>3
<1> QED
  BY ReportStarts, ReportKept, <1>1, PTL DEF Spec

-----------------------------------------------------------------------------
(* What a default run reports is among what --strict does. *)
LEMMA UnusedStays ==
  ASSUME NEW u
  PROVE  Unused(u, FALSE) \subseteq Unused(u, TRUE)
BY DEF Unused, Suppressed

LEMMA UndeclaredStays ==
  ASSUME NEW i, i.owner \in Owners
  PROVE  /\ ~MissingFromMember(i, FALSE)
         /\ Undeclared(i, FALSE) =>
               /\ i.usage = "runtime"
               /\ \/ Undeclared(i, TRUE)
                  \/ Indexed(i.owner, i.dist) # {} /\ MisplacedImport(i, TRUE)
<1>1. \A refs : DirectlyDeclared(refs, "runtime") <=>
                \E r \in refs : Buckets(Entry(r)) \cap {"runtime", "optional"} # {}
  BY DEF DirectlyDeclared, Matches, Matching
<1> QED
  BY <1>1 DEF MissingFromMember, Undeclared, NeedsDeclaring, Governing, MemberSatisfies,
              MisplacedImport, RuntimeImport

LEMMA MisplacedStays ==
  ASSUME NEW i, MisplacedImport(i, FALSE)
  PROVE  MisplacedImport(i, TRUE)
<1>1. \A refs : DirectlyDeclared(refs, "runtime") <=>
                \E r \in refs : Buckets(Entry(r)) \cap {"runtime", "optional"} # {}
  BY DEF DirectlyDeclared, Matches, Matching
<1> QED
  BY <1>1 DEF MisplacedImport, Governing, MemberSatisfies

(* "--strict keeps every finding of the default run", but for an import    *)
(* that its member declares, though not for runtime (reconcile_project).   *)
THEOREM StrictKeepsMostCorrect == Spec => []StrictKeepsMost
<1>1. ReportInv => StrictKeepsMost
  <2> SUFFICES ASSUME ReportInv, phase = "reported", strict, NEW i \in DefaultIssues
               PROVE  \/ \E j \in issues : SameFinding(i, j)
                      \/ /\ i.rule \in {3, 4}
                         /\ Indexed(i.owner, i.dist) # {}
                         /\ \/ \E j \in issues : j.rule = 5 /\ j.owner = i.owner /\ j.dist = i.dist
                            \/ Silenced(i.import)
    BY DEF StrictKeepsMost
  <2>1. strict = TRUE
    BY DEF ReportInv, TypeOK
  <2>2. \A j : j \in issues <=>
           j \in UnusedIssues(TRUE) \/ j \in ImportIssues(TRUE) \/ j \in MisplacedIssues
    BY <2>1 DEF ReportInv, IssuesInv
  <2>3. ASSUME NEW n \in DOMAIN project.imports, MisplacedImport(project.imports[n], TRUE),
               ~Silenced(n)
        PROVE  \E j \in issues : /\ j.rule = 5
                                 /\ j.owner = project.imports[n].owner
                                 /\ j.dist = project.imports[n].dist
    <3>1. /\ Key(n) \in Owners \X Dists
          /\ weighed[Key(n)].known /\ ~weighed[Key(n)].ignored
      BY <2>1, <2>3, MisplacedKnown DEF Silenced, Key
    <3>2. MisplacedIssue(Key(n)) \in issues
      BY <2>2, <3>1 DEF MisplacedIssues, MisplacedIssue
    <3> QED
      BY <3>2 DEF MisplacedIssue, Issue, Key
  <2>4. CASE i \in UnusedIssues(FALSE)
    <3>1. i \in UnusedIssues(TRUE)
      BY <2>4, UnusedStays DEF UnusedIssues
    <3> QED
      BY <2>2, <3>1, IssueFields DEF SameFinding
  <2>5. CASE i \in ImportIssues(FALSE)
    <3>1. PICK n \in DOMAIN project.imports :
             Undeclared(project.imports[n], FALSE) /\ i = UndeclaredIssue(n)
      <4>1. \A n \in DOMAIN project.imports : ~MissingFromMember(project.imports[n], FALSE)
        BY DEF MissingFromMember
      <4> QED
        BY <2>5, <4>1, ImportIssuesAre
    <3>2. /\ i.rule \in {3, 4} /\ i.import = n
          /\ i.owner = project.imports[n].owner /\ i.dist = project.imports[n].dist
      BY <3>1, IssueFields
    <3>3. CASE Undeclared(project.imports[n], TRUE)
      BY <2>2, <3>1, <3>3, ImportIssuesAre DEF SameFinding
    <3>4. CASE /\ Indexed(project.imports[n].owner, project.imports[n].dist) # {}
               /\ MisplacedImport(project.imports[n], TRUE)
      BY <2>3, <3>2, <3>4
    <3>5. project.imports[n].owner \in Owners
      BY ImportTypes DEF ReportInv, TypeOK, IsImport
    <3> QED
      BY <3>1, <3>3, <3>4, <3>5, UndeclaredStays
  <2>6. CASE i \in {Issue(5, m.dist, m.owner, 0, FALSE) :
                       m \in {m \in Imports : MisplacedImport(m, FALSE) /\ ~m.ignored}}
    <3>1. PICK n \in DOMAIN project.imports :
             /\ i = Issue(5, project.imports[n].dist, project.imports[n].owner, 0, FALSE)
             /\ MisplacedImport(project.imports[n], FALSE) /\ ~project.imports[n].ignored
      BY <2>6 DEF Imports
    <3>2. MisplacedImport(project.imports[n], TRUE)
      BY <3>1, MisplacedStays
    <3>3. ~Silenced(n)
      BY <2>1, <3>1, <3>2, MisplacedKnown DEF Silenced, Key
    <3>4. PICK j \in issues : /\ j.rule = 5
                             /\ j.owner = project.imports[n].owner
                             /\ j.dist = project.imports[n].dist
      BY <2>3, <3>2, <3>3
    <3> QED
      BY <3>1, <3>4 DEF SameFinding, Issue
  <2> QED
    BY <2>4, <2>5, <2>6 DEF DefaultIssues
<1> QED
  BY ReportStarts, ReportKept, <1>1, PTL DEF Spec

-----------------------------------------------------------------------------
(* What a fix brings. The findings of the analysis after it are compared   *)
(* with those before, and what was used then is forgotten by now. So what  *)
(* is kept of the fix (FixedInv) is about the manifests alone: whatever    *)
(* the rules may say of them, given any set that may come out as the used  *)
(* distributions, is accounted for. What comes out is the least set that   *)
(* the two phases of the marking end in (Enough), and that needs no        *)
(* exception for members found last.                                       *)
MembersClosed(T) ==
    /\ Evident \cup PytestPlugins(Evident) \cup (project.first_party \cap project.local) \subseteq T
    /\ \A m \in LocalMembers \cap ProvidedBy(MembersUsing(T)) : project.dist[m] \in T

CompanionsClosed(S) ==
    \A d \in DeclaredBy(Root) :
       d \in project.loaded \/ (\E e \in project.peers : e[1] = d /\ e[2] \in S) => d \in S

Enough(S) == (\E T \in SUBSET S : MembersClosed(T)) /\ CompanionsClosed(S)

SpreadInv ==
    /\ phase = "members" =>
          \A T \in SUBSET Dists :
             MembersClosed(T) => used \subseteq T /\ provided \subseteq ProvidedBy(MembersUsing(T))
    /\ phase = "companions" => \E T \in SUBSET used : MembersClosed(T)
    /\ phase \in {"companions", "weigh", "reported"} =>
          \A S \in SUBSET Dists : Enough(S) => used \subseteq S
    /\ phase \in {"weigh", "reported"} => Enough(used)

LEMMA EnoughStays ==
  ASSUME project' = project, manifests' = manifests
  PROVE  /\ \A T : MembersClosed(T)' <=> MembersClosed(T)
         /\ \A S : CompanionsClosed(S)' <=> CompanionsClosed(S)
         /\ \A S : Enough(S)' <=> Enough(S)
<1>1. \A T : MembersClosed(T)' <=> MembersClosed(T)
  <2> SUFFICES ASSUME NEW T
               PROVE  MembersClosed(T)' <=> MembersClosed(T)
    OBVIOUS
  <2>1. MembersUsing(T)' = MembersUsing(T)
    BY SeedsStay
  <2>2. PICK using : using = MembersUsing(T)
    OBVIOUS
  <2>3. ProvidedBy(using)' = ProvidedBy(using)
    BY SeedsStay
  <2> QED
    BY <2>1, <2>2, <2>3, SeedsStay DEF MembersClosed
<1>2. \A S : CompanionsClosed(S)' <=> CompanionsClosed(S)
  BY DeclarationsStay DEF CompanionsClosed
<1> QED
  BY <1>1, <1>2 DEF Enough

LEMMA SpreadKept == TypeOK /\ UsedInv /\ SpreadInv /\ [Next]_vars => SpreadInv'
<1> SUFFICES ASSUME TypeOK, UsedInv, SpreadInv, [Next]_vars
             PROVE  SpreadInv'
  OBVIOUS
<1>1. CASE CollectUsed
  <2>1. /\ project' = project /\ manifests' = manifests /\ phase' = "members"
        /\ used' = Evident \cup PytestPlugins(Evident) \cup (project.first_party \cap project.local)
        /\ provided' = project.provided
    BY <1>1 DEF CollectUsed
  <2>2. ASSUME NEW T, MembersClosed(T)
        PROVE  used' \subseteq T /\ provided' \subseteq ProvidedBy(MembersUsing(T))
    BY <2>1, <2>2 DEF MembersClosed, ProvidedBy
  <2>3. \A T : ProvidedBy(MembersUsing(T))' = ProvidedBy(MembersUsing(T))
    BY <2>1, SeedsStay DEF ProvidedBy
  <2> QED
    BY <2>1, <2>2, <2>3, EnoughStays DEF SpreadInv
<1>2. CASE MarkMembers
  <2>1. /\ project' = project /\ manifests' = manifests /\ phase' = "members" /\ phase = "members"
        /\ used' = used \cup {project.dist[m] : m \in NowUsed}
        /\ provided' = provided \cup UNION {project.tree[m] : m \in NowUsed}
    BY <1>2 DEF MarkMembers
  <2>2. ASSUME NEW T \in SUBSET Dists, MembersClosed(T)
        PROVE  used' \subseteq T /\ provided' \subseteq ProvidedBy(MembersUsing(T))
    <3>1. used \subseteq T /\ provided \subseteq ProvidedBy(MembersUsing(T))
      BY <2>1, <2>2 DEF SpreadInv
    <3>2. \A m \in NowUsed : m \in LocalMembers /\ project.dist[m] \in T
      BY <2>2, <3>1 DEF NowUsed, MembersClosed
    <3>3. \A m \in NowUsed : project.tree[m] \subseteq ProvidedBy(MembersUsing(T))
      BY <3>2 DEF ProvidedBy, MembersUsing
    <3> QED
      BY <2>1, <3>1, <3>2, <3>3
  <2>3. \A T : ProvidedBy(MembersUsing(T))' = ProvidedBy(MembersUsing(T))
    BY <2>1, SeedsStay DEF ProvidedBy
  <2> QED
    BY <2>1, <2>2, <2>3, EnoughStays DEF SpreadInv
<1>3. CASE MembersMarked
  <2>1. /\ project' = project /\ manifests' = manifests /\ phase' = "companions" /\ phase = "members"
        /\ used' = used /\ provided' = provided /\ NowUsed = {}
    BY <1>3 DEF MembersMarked, marking
  <2>2. MembersUsing(used) = done /\ provided = ProvidedBy(done)
    BY <2>1 DEF UsedInv, NowUsed, MembersUsing
  <2>3. MembersClosed(used)
    <3>1. Evident \cup PytestPlugins(Evident) \cup (project.first_party \cap project.local)
            \subseteq used
      BY <2>1 DEF UsedInv
    <3>2. \A m \in LocalMembers \cap provided : m \in done \/ project.dist[m] \in used
      BY <2>1 DEF NowUsed
    <3>3. \A m \in done : project.dist[m] \in used
      BY <2>2 DEF MembersUsing
    <3>4. ProvidedBy(MembersUsing(used)) = provided
      BY <2>2
    <3> QED
      BY <3>1, <3>2, <3>3, <3>4 DEF MembersClosed
  <2>4. ASSUME NEW S \in SUBSET Dists, Enough(S)
        PROVE  used \subseteq S
    BY <2>1, <2>4 DEF SpreadInv, Enough
  <2> QED
    BY <2>1, <2>3, <2>4, EnoughStays DEF SpreadInv
<1>4. CASE MarkCompanions
  <2>1. /\ project' = project /\ manifests' = manifests
        /\ phase' = "companions" /\ phase = "companions" /\ used' = used \cup Companions
    BY <1>4 DEF MarkCompanions
  <2>2. ASSUME NEW S \in SUBSET Dists, Enough(S)
        PROVE  used' \subseteq S
    <3>1. used \subseteq S
      BY <2>1, <2>2 DEF SpreadInv
    <3> QED
      BY <2>1, <2>2, <3>1 DEF Enough, CompanionsClosed, Companions
  <2>3. \E T \in SUBSET used' : MembersClosed(T)
    BY <2>1 DEF SpreadInv
  <2> QED
    BY <2>1, <2>2, <2>3, EnoughStays DEF SpreadInv
<1>5. CASE Detect
  <2>1. /\ project' = project /\ manifests' = manifests
        /\ phase' = "weigh" /\ phase = "companions" /\ used' = used /\ Companions \subseteq used
    BY <1>5 DEF Detect, marking
  <2>2. Enough(used)
    BY <2>1 DEF SpreadInv, Enough, CompanionsClosed, Companions
  <2> QED
    BY <2>1, <2>2, EnoughStays DEF SpreadInv
<1>6. CASE WeighImport \/ Report \/ UNCHANGED vars
  <2>1. /\ project' = project /\ manifests' = manifests /\ used' = used /\ provided' = provided
        /\ phase' = phase \/ (phase = "weigh" /\ phase' = "reported")
    BY <1>6 DEF WeighImport, Report, vars, marking
  <2>2. \A T : ProvidedBy(MembersUsing(T))' = ProvidedBy(MembersUsing(T))
    BY <2>1, SeedsStay DEF ProvidedBy
  <2> QED
    BY <2>1, <2>2, EnoughStays DEF SpreadInv
<1>7. CASE Fix
  BY <1>7 DEF Fix, SpreadInv
<1> QED
  BY <1>1, <1>2, <1>3, <1>4, <1>5, <1>6, <1>7 DEF Next, NothingToFix

-----------------------------------------------------------------------------
(* What a fix makes of the manifests. *)
Says(i, S) ==
    \/ i.rule = 2 /\ i.owner = Root /\ \E r \in Unused(S, strict) : i.dist = Entry(r).name
    \/ \E n \in DOMAIN project.imports :
          /\ i.owner = project.imports[n].owner /\ i.dist = project.imports[n].dist
          /\ \/ /\ i.import = n
                /\ \/ i.rule = 3 /\ MissingFromMember(project.imports[n], strict)
                   \/ i.rule \in {3, 4} /\ Undeclared(project.imports[n], strict)
             \/ /\ i.rule = 5
                /\ MisplacedImport(project.imports[n], strict) /\ ~project.imports[n].ignored

Explained(i) ==
    \/ \E j \in before : Counterpart(i, j)
    \/ BroughtExtra(i) \/ MadeBuildGroup(i) \/ MovedToRoot(i)

StaysMoved(i) ==
    i.rule = 5 =>
       ~\E f \in applied : /\ f.kind = "move"
                           /\ f.entry.name = i.dist
                           /\ f.ref[1] = GoverningManifest(i)

FixedInv ==
    applied # {} =>
       \A S \in SUBSET Dists : Enough(S) =>
          \A i \in Issues : Says(i, S) => Explained(i) /\ StaysMoved(i)

(* The state in which a fix is made. *)
Fixing == ReportInv /\ SpreadInv /\ phase = "reported"

LEMMA ImportsAreUsed ==
  ASSUME Fixing, NEW n \in DOMAIN project.imports, Checked(project.imports[n])
  PROVE  project.imports[n].dist \in used
<1>1. project.imports[n].dist \in Evident
  BY DEF Evident, Imports, Checked
<1> QED
  BY <1>1 DEF Fixing, SpreadInv, Enough, MembersClosed

LEMMA RemovedAre ==
  ASSUME Fixing, NEW r \in Removals
  PROVE  /\ r \in Refs(Root) /\ Entry(r).name \notin used
         /\ \E j \in issues : j.rule = 2 /\ j.dist = Entry(r).name /\ j.owner = Root
<1>1. PICK j \in issues : j.rule = 2 /\ r = <<Root, j.import>>
  BY DEF Removals
<1>2. j \in UnusedIssues(strict)
  BY <1>1, IssueFields DEF Fixing, ReportInv, IssuesInv
<1>3. PICK t \in Unused(used, strict) : j = Issue(2, Entry(t).name, Root, t[2], ~Entry(t).marked)
  BY <1>2 DEF UnusedIssues
<1>4. t \in Refs(Root) /\ Entry(t).name \notin used
  BY <1>3 DEF Unused, Considered
<1>5. t = <<Root, t[2]>>
  BY <1>4 DEF Refs
<1>6. j.import = t[2] /\ j.dist = Entry(t).name /\ j.owner = Root
  BY <1>3 DEF Issue
<1> QED
  BY <1>1, <1>4, <1>5, <1>6

LEMMA MovedAre ==
  ASSUME Fixing, NEW r \in Moves
  PROVE  /\ \E o \in Owners : r \in Refs(o)
         /\ Entry(r).name \in used /\ Entry(r).context = "group" /\ r \notin Removals
<1>1. PICK i \in issues : i.rule = 5 /\ r \in MovesFor(i)
  BY DEF Moves
<1>2. i \in MisplacedIssues
  BY <1>1, IssueFields DEF Fixing, ReportInv, IssuesInv
<1>3. PICK k \in Owners \X Dists : weighed[k].known /\ i.owner = k[1] /\ i.dist = k[2]
  BY <1>2 DEF MisplacedIssues, Issue
<1>4. PICK n \in DOMAIN project.imports :
         MisplacedImport(project.imports[n], strict) /\ k = Key(n)
  <2>1. SitesTogether(k)
    BY <1>3 DEF Fixing, ReportInv, WeighedInv
  <2>2. AllSites(k) # {}
    BY <1>3, <2>1 DEF SitesTogether
  <2> QED
    BY <2>2 DEF AllSites
<1>5. project.imports[n].dist \in used
  BY <1>4, ImportsAreUsed DEF MisplacedImport, RuntimeImport
<1>6. /\ Entry(r).name = i.dist /\ Entry(r).context = "group"
  BY <1>1 DEF MovesFor, Named
<1>7. Entry(r).name \in used
  BY <1>3, <1>4, <1>5, <1>6 DEF Key
<1> QED
  BY <1>6, <1>7, EditTypes, RemovedAre DEF Fixing, ReportInv

LEMMA ManifestsAfter ==
  ASSUME Fixing, Fix
  PROVE  /\ \A o \in Owners : Refs(o)' = Refs(o) \ Removals
         /\ \A o \in Owners : \A r \in Refs(o)' :
               Entry(r)' = IF r \in Moves THEN Moved(Entry(r)) ELSE Entry(r)
<1>1. manifests' = [o \in Owners |-> Edited(o)]
  BY DEF Fix
<1>2. ASSUME NEW o \in Owners
      PROVE  Refs(o)' = Refs(o) \ Removals
  <2>1. DOMAIN manifests'[o] = {n \in DOMAIN manifests[o] : <<o, n>> \notin Removals}
    BY <1>1 DEF Edited
  <2>2. Refs(o)' = {o} \X {n \in DOMAIN manifests[o] : <<o, n>> \notin Removals}
    BY <2>1 DEF Refs
  <2> QED
    BY <2>2 DEF Refs
<1>3. ASSUME NEW o \in Owners, NEW r \in Refs(o)'
      PROVE  Entry(r)' = IF r \in Moves THEN Moved(Entry(r)) ELSE Entry(r)
  <2>1. PICK n \in DOMAIN manifests[o] : r = <<o, n>> /\ r \notin Removals
    BY <1>2, <1>3 DEF Refs
  <2>2. Edited(o)[n] = IF r \in Moves THEN Moved(Entry(r)) ELSE Entry(r)
    BY <2>1 DEF Edited
  <2>3. Entry(r)' = Edited(o)[n]
    BY <1>1, <2>1 DEF Entry
  <2> QED
    BY <2>2, <2>3
<1> QED
  BY <1>2, <1>3

(* An edit keeps of an entry all but where it is declared.                 *)
LEMMA EntryAfter ==
  ASSUME Fixing, Fix, NEW o \in Owners, NEW r \in Refs(o)'
  PROVE  /\ r \in Refs(o) /\ Entry(r) \in Entries /\ r \notin Removals
         /\ Entry(r)'.name = Entry(r).name /\ Entry(r)'.extras = Entry(r).extras
         /\ Entry(r)'.opaque = Entry(r).opaque /\ Entry(r)'.marked = Entry(r).marked
         /\ r \notin Moves => Entry(r)' = Entry(r)
         /\ r \in Moves => Buckets(Entry(r)') = {"runtime"} /\ Entry(r)'.context = "runtime"
<1>1. r \in Refs(o) /\ r \notin Removals
  BY ManifestsAfter
<1>2. Entry(r) \in Entries
  BY <1>1, EntryTypes DEF Fixing, ReportInv, TypeOK
<1>3. Entry(r)' = IF r \in Moves THEN Moved(Entry(r)) ELSE Entry(r)
  BY ManifestsAfter
<1>4. PICK e \in Entries : e = Entry(r)
  BY <1>2
<1>5. /\ Moved(e).name = e.name /\ Moved(e).extras = e.extras
      /\ Moved(e).opaque = e.opaque /\ Moved(e).marked = e.marked
      /\ Moved(e).context = "runtime" /\ Moved(e).via = {}
  BY DEF Moved, Entries
<1>6. PICK f : f = Entry(r)'
  OBVIOUS
<1>7. r \in Moves => Buckets(f) = {"runtime"} /\ f.context = "runtime"
  BY <1>3, <1>4, <1>5, <1>6 DEF Buckets, Bucket
<1> QED
  BY <1>1, <1>2, <1>3, <1>4, <1>5, <1>6, <1>7

(* What the fix makes of the lookups. A lookup of what is used loses an    *)
(* entry only if the entry brought it as its extra.                        *)
BroughtAway(d) ==
    \E r \in Removals : Entry(r).extras /\ d \in project.locks[Root].extras[Entry(r).name]

LEMMA IndexedAfter ==
  ASSUME Fixing, Fix, NEW d
  PROVE  /\ \A o \in Owners : Indexed(o, d)' = Indexed(o, d) \ Removals
         /\ \A o \in Members : Indexed(o, d)' = Indexed(o, d)
         /\ d \in used => Indexed(Root, d)' = Indexed(Root, d) \/ BroughtAway(d)
<1>1. project' = project
  BY DEF Fix
<1>2. \A o : LockOf(o)' = LockOf(o)
  BY <1>1 DEF LockOf, HasLock
<1>3. ASSUME NEW o \in Owners
      PROVE  Indexed(o, d)' = Indexed(o, d) \ Removals
  <2>1. Refs(o)' = Refs(o) \ Removals
    BY ManifestsAfter
  <2>2. \A r \in Refs(o)' : Entry(r)'.name = Entry(r).name /\ Entry(r)'.extras = Entry(r).extras
    BY EntryAfter
  <2>3. Named(o, d)' = Named(o, d) \ Removals
    BY <2>1, <2>2 DEF Named
  <2> QED
    BY <1>2, <2>1, <2>2, <2>3 DEF Indexed
<1>4. ASSUME NEW o \in Members
      PROVE  Indexed(o, d)' = Indexed(o, d)
  <2>1. o \in Owners /\ o # Root
    BY OwnersAssumption DEF Owners
  <2>2. \A r \in Indexed(o, d) : r[1] = o
    BY DEF Indexed, Named, Refs
  <2>3. \A r \in Removals : r[1] = Root
    BY RemovedAre DEF Refs
  <2> QED
    BY <1>3, <2>1, <2>2, <2>3
<1>5. ASSUME d \in used, NEW r \in Indexed(Root, d), r \in Removals
      PROVE  BroughtAway(d)
  <2>1. Entry(r).name # d
    BY <1>5, RemovedAre
  <2>2. LockOf(Root) = project.locks[Root]
    BY DEF LockOf
  <2>3. Entry(r).extras /\ d \in LockOf(Root).extras[Entry(r).name]
    BY <1>5, <2>1 DEF Indexed, Named
  <2> QED
    BY <1>5, <2>2, <2>3 DEF BroughtAway
<1>6. Root \in Owners
  BY DEF Owners
<1> QED
  BY <1>3, <1>4, <1>5, <1>6

LEMMA IndexedRefs ==
  ASSUME NEW o, NEW d
  PROVE  Indexed(o, d) \subseteq Refs(o)
BY DEF Indexed, Named

(* What is declared stays declared, and a move alone adds to it.           *)
LEMMA DeclaredAfter ==
  ASSUME Fixing, Fix, NEW usage \in {"runtime", "type", "dev"}, NEW o \in Owners, NEW d
  PROVE  /\ DirectlyDeclared(Indexed(o, d), usage) /\ Indexed(o, d)' = Indexed(o, d)
               => DirectlyDeclared(Indexed(o, d), usage)'
         /\ DirectlyDeclared(Indexed(o, d), usage)'
               => \/ DirectlyDeclared(Indexed(o, d), usage)
                  \/ Indexed(o, d)' \cap Moves # {}
<1>1. \A r \in Indexed(o, d)' : r \in Refs(o)'
  BY DEF Indexed, Named
<1>2. \A e : Matches(e, usage) <=> Buckets(e) \cap Matching[usage] # {}
  BY DEF Matches
<1>3. "runtime" \in Matching[usage]
  BY DEF Matching
<1>4. ASSUME NEW r \in Indexed(o, d)'
      PROVE  /\ r \in Indexed(o, d)
             /\ Matches(Entry(r), usage) => Matches(Entry(r)', usage)
             /\ Matches(Entry(r)', usage) => Matches(Entry(r), usage) \/ r \in Moves
  <2>1. r \in Refs(o)' /\ r \in Indexed(o, d)
    BY <1>1, <1>4, IndexedAfter
  <2>2. /\ r \notin Moves => Entry(r)' = Entry(r)
        /\ r \in Moves => Buckets(Entry(r)') = {"runtime"}
    BY <2>1, EntryAfter
  <2> QED
    BY <1>2, <1>3, <2>1, <2>2
<1>5. DirectlyDeclared(Indexed(o, d), usage)' <=>
         \E r \in Indexed(o, d)' : Matches(Entry(r)', usage)
  BY DEF DirectlyDeclared, Matches
<1>6. DirectlyDeclared(Indexed(o, d), usage) <=>
         \E r \in Indexed(o, d) : Matches(Entry(r), usage)
  BY DEF DirectlyDeclared
<1> QED
  BY <1>4, <1>5, <1>6

LEMMA SatisfiedAfter ==
  ASSUME Fixing, Fix, NEW i, IsImport(i), NEW usage \in {"runtime", "type", "dev"}
  PROVE  MemberSatisfies(i, usage) => MemberSatisfies(i, usage)'
<1> SUFFICES ASSUME MemberSatisfies(i, usage) PROVE MemberSatisfies(i, usage)'
  OBVIOUS
<1>1. i.owner \in Members /\ i.owner \in Owners /\ DirectlyDeclared(Indexed(i.owner, i.dist), usage)
  BY DEF MemberSatisfies, IsImport, Owners
<1>2. Indexed(i.owner, i.dist)' = Indexed(i.owner, i.dist)
  BY <1>1, IndexedAfter
<1>3. DirectlyDeclared(Indexed(i.owner, i.dist), usage)'
  BY <1>1, <1>2, DeclaredAfter
<1>4. i.owner # Root
  BY DEF MemberSatisfies
<1> QED
  BY <1>3, <1>4 DEF MemberSatisfies

(* What needs declaring after the fix needed it before.                    *)
LEMMA NeedsAfter ==
  ASSUME Fixing, Fix, NEW i, IsImport(i), NEW s, NeedsDeclaring(i, s)'
  PROVE  NeedsDeclaring(i, s)
<1>1. i.usage \in {"runtime", "type", "dev"}
  BY DEF IsImport
<1>2. Checked(i) /\ ~MemberSatisfies(i, i.usage)' /\ (s \/ i.usage = "runtime")
  BY DEF NeedsDeclaring, Checked
<1> QED
  BY <1>1, <1>2, SatisfiedAfter DEF NeedsDeclaring

LEMMA MissingAfter ==
  ASSUME Fixing, Fix, NEW i, IsImport(i), NEW s, MissingFromMember(i, s)'
  PROVE  \/ MissingFromMember(i, s)
         \/ /\ s /\ i.owner # Root
            /\ \E r \in Moves \cap Indexed(Root, i.dist) : r[1] = Root
<1>1. /\ NeedsDeclaring(i, s) /\ s /\ i.owner # Root
      /\ Indexed(i.owner, i.dist)' = {}
      /\ DirectlyDeclared(Indexed(Root, i.dist), i.usage)'
  BY NeedsAfter DEF MissingFromMember
<1>2. i.usage \in {"runtime", "type", "dev"} /\ i.owner \in Members /\ Root \in Owners
  BY <1>1 DEF IsImport, Owners
<1>3. Indexed(i.owner, i.dist) = {}
  BY <1>1, <1>2, IndexedAfter
<1>4. CASE DirectlyDeclared(Indexed(Root, i.dist), i.usage)
  BY <1>1, <1>3, <1>4 DEF MissingFromMember
<1>5. CASE Indexed(Root, i.dist)' \cap Moves # {}
  <2>1. PICK r \in Moves : r \in Indexed(Root, i.dist)'
    BY <1>5
  <2>2. r \in Indexed(Root, i.dist)
    BY <1>2, <2>1, IndexedAfter
  <2>3. r[1] = Root
    BY <2>2, IndexedRefs DEF Refs
  <2> QED
    BY <1>1, <2>1, <2>2, <2>3
<1> QED
  BY <1>1, <1>2, <1>4, <1>5, DeclaredAfter

LEMMA UndeclaredAfter ==
  ASSUME Fixing, Fix, NEW i, IsImport(i), Checked(i) => i.dist \in used,
         NEW s, Undeclared(i, s)'
  PROVE  Undeclared(i, s) \/ BroughtAway(i.dist)
<1>1. NeedsDeclaring(i, s) /\ Governing(i, s)' = {}
  BY NeedsAfter DEF Undeclared
<1>2. i.dist \in used /\ Root \in Owners /\ i.owner \in Owners
  BY <1>1 DEF NeedsDeclaring, IsImport, Owners
<1>3. Indexed(Root, i.dist)' = {} /\ (s => Indexed(i.owner, i.dist)' = {})
  BY <1>1 DEF Governing
<1>4. CASE Indexed(Root, i.dist)' = Indexed(Root, i.dist)
  <2>1. Indexed(Root, i.dist) = {}
    BY <1>3, <1>4
  <2>2. s => Indexed(i.owner, i.dist) = {}
    BY <1>2, <1>3, <1>4, IndexedAfter DEF Owners
  <2>3. Governing(i, s) = {}
    BY <2>1, <2>2 DEF Governing
  <2>4. ~MissingFromMember(i, s)
    BY <2>1 DEF MissingFromMember, DirectlyDeclared
  <2> QED
    BY <1>1, <2>3, <2>4 DEF Undeclared
<1> QED
  BY <1>2, <1>4, IndexedAfter

LEMMA MisplacedAfter ==
  ASSUME Fixing, Fix, NEW i, IsImport(i), Checked(i) => i.dist \in used,
         NEW s, MisplacedImport(i, s)'
  PROVE  /\ MisplacedImport(i, s) \/ BroughtAway(i.dist)
         /\ \A o \in Owners : \A r \in Moves :
               Governing(i, s)' = Indexed(o, i.dist)' => r \notin Indexed(o, i.dist)'
<1>1. /\ RuntimeImport(i) /\ ~MemberSatisfies(i, "runtime")' /\ Governing(i, s)' # {}
      /\ \A r \in Governing(i, s)' : Buckets(Entry(r)') \cap {"runtime", "optional"} = {}
  BY DEF MisplacedImport, RuntimeImport, Checked, Buckets, Bucket
<1>2. ~MemberSatisfies(i, "runtime")
  BY <1>1, SatisfiedAfter
<1>3. i.dist \in used /\ Root \in Owners /\ i.owner \in Owners
  BY <1>1 DEF RuntimeImport, IsImport, Owners
<1>4. PICK o \in Owners : /\ Governing(i, s)' = Indexed(o, i.dist)'
                          /\ Indexed(o, i.dist)' = Indexed(o, i.dist)
                                => Governing(i, s) = Indexed(o, i.dist)
                          /\ o \in {i.owner, Root}
  <2>1. CASE s /\ Indexed(i.owner, i.dist)' # {}
    <3>1. Indexed(i.owner, i.dist) # {}
      BY <1>3, <2>1, IndexedAfter
    <3> QED
      BY <1>3, <2>1, <3>1 DEF Governing
  <2>2. CASE ~(s /\ Indexed(i.owner, i.dist)' # {})
    <3>1. Governing(i, s)' = Indexed(Root, i.dist)'
      BY <2>2 DEF Governing
    <3>2. ASSUME Indexed(Root, i.dist)' = Indexed(Root, i.dist)
          PROVE  Governing(i, s) = Indexed(Root, i.dist)
      <4>1. Indexed(i.owner, i.dist)' = Indexed(i.owner, i.dist)
        BY <1>3, <3>2, IndexedAfter DEF Owners
      <4> QED
        BY <2>2, <4>1 DEF Governing
    <3> QED
      BY <1>3, <3>1, <3>2
  <2> QED
    BY <2>1, <2>2
<1>5. ASSUME NEW q \in Owners, NEW r \in Indexed(q, i.dist)', Governing(i, s)' = Indexed(q, i.dist)'
      PROVE  r \notin Moves /\ Entry(r)' = Entry(r)
  <2>1. r \in Refs(q)'
    BY <1>5 DEF Indexed, Named
  <2>2. Buckets(Entry(r)') \cap {"runtime", "optional"} = {}
    BY <1>1, <1>5
  <2>3. r \notin Moves
    BY <2>1, <2>2, EntryAfter
  <2> QED
    BY <2>1, <2>3, EntryAfter
<1>6. CASE Indexed(o, i.dist)' = Indexed(o, i.dist)
  <2>1. \A r \in Governing(i, s) : Buckets(Entry(r)) \cap {"runtime", "optional"} = {}
    BY <1>1, <1>4, <1>5, <1>6
  <2> QED
    BY <1>1, <1>2, <1>4, <1>5, <1>6, <2>1 DEF MisplacedImport
<1>7. CASE Indexed(o, i.dist)' # Indexed(o, i.dist)
  <2>1. o = Root
    BY <1>4, <1>7, IndexedAfter DEF Owners
  <2> QED
    BY <1>3, <1>5, <1>7, <2>1, IndexedAfter
<1> QED
  BY <1>6, <1>7

(* What is used before the fix is used after it: nothing of it is removed. *)
LEMMA UsedDeclaredAfter ==
  ASSUME Fixing, Fix
  PROVE  /\ DeclaredBy(Root)' \subseteq DeclaredBy(Root)
         /\ \A d \in DeclaredBy(Root) \cap used : d \in DeclaredBy(Root)'
<1>1. Root \in Owners
  BY DEF Owners
<1>2. \A r \in Refs(Root)' : r \in Refs(Root) /\ Entry(r)'.name = Entry(r).name
  BY <1>1, EntryAfter
<1>3. DeclaredBy(Root)' \subseteq DeclaredBy(Root)
  BY <1>2 DEF DeclaredBy
<1>4. ASSUME NEW d \in DeclaredBy(Root) \cap used
      PROVE  d \in DeclaredBy(Root)'
  <2>1. PICK r \in Refs(Root) : Entry(r).name = d
    BY <1>4 DEF DeclaredBy
  <2>2. r \in Refs(Root)'
    BY <1>1, <1>4, <2>1, ManifestsAfter, RemovedAre
  <2> QED
    BY <1>2, <2>1, <2>2 DEF DeclaredBy
<1> QED
  BY <1>3, <1>4

LEMMA SeedsAfter ==
  ASSUME Fixing, Fix
  PROVE  /\ Evident' = Evident /\ Evident \subseteq used
         /\ PytestPlugins(Evident) \subseteq PytestPlugins(Evident)'
         /\ \A m \in LocalMembers : project.dist[m] \in used => m \in LocalMembers'
<1>1. project' = project
  BY DEF Fix
<1>2. PICK U \in SUBSET used : MembersClosed(U)
  BY DEF Fixing, SpreadInv, Enough
<1>3. Evident \subseteq used /\ PytestPlugins(Evident) \subseteq used
  BY <1>2 DEF MembersClosed
<1>4. Evident' = Evident
  BY <1>1, <1>3, UsedDeclaredAfter DEF Evident, Imports
<1>5. PytestPlugins(Evident) \subseteq PytestPlugins(Evident)'
  BY <1>1, <1>3, <1>4, UsedDeclaredAfter DEF PytestPlugins
<1>6. \A m \in LocalMembers : project.dist[m] \in used => m \in LocalMembers'
  BY <1>1, UsedDeclaredAfter DEF LocalMembers
<1> QED
  BY <1>3, <1>4, <1>5, <1>6

LEMMA UsedAfter ==
  ASSUME Fixing, Fix, NEW S \in SUBSET Dists, Enough(S)'
  PROVE  used \subseteq S
<1>1. project' = project
  BY DEF Fix
<1>2. PICK U \in SUBSET used : MembersClosed(U)
  BY DEF Fixing, SpreadInv, Enough
<1>3. PICK T \in SUBSET S : MembersClosed(T)'
  BY DEF Enough
<1>4. MembersClosed(T \cap U)
  <2>1. /\ Evident \cup PytestPlugins(Evident) \cup (project.first_party \cap project.local) \subseteq U
        /\ \A m \in LocalMembers \cap ProvidedBy(MembersUsing(U)) : project.dist[m] \in U
    BY <1>2 DEF MembersClosed
  <2>2. /\ Evident' \cup PytestPlugins(Evident)' \cup (project.first_party \cap project.local)
             \subseteq T
        /\ \A m \in LocalMembers' \cap ProvidedBy(MembersUsing(T))' : project.dist[m] \in T
    BY <1>1, <1>3 DEF MembersClosed
  <2>3. \A m \in MembersUsing(T \cap U) : m \in MembersUsing(U) /\ m \in MembersUsing(T)'
    BY <1>1, SeedsAfter DEF MembersUsing
  <2>4. PICK both, old, new : /\ both = MembersUsing(T \cap U)
                              /\ old = MembersUsing(U) /\ new = MembersUsing(T)'
    OBVIOUS
  <2>5. \A V : ProvidedBy(V)' = ProvidedBy(V)
    BY <1>1 DEF ProvidedBy
  <2>6. ProvidedBy(MembersUsing(T))' = ProvidedBy(new)
    BY <1>1, <2>4 DEF ProvidedBy
  <2>7. ProvidedBy(both) \subseteq ProvidedBy(old) /\ ProvidedBy(both) \subseteq ProvidedBy(new)
    BY <2>3, <2>4 DEF ProvidedBy
  <2>8. ASSUME NEW m \in LocalMembers, m \in ProvidedBy(both)
        PROVE  project.dist[m] \in T \cap U
    <3>1. project.dist[m] \in U
      BY <2>1, <2>4, <2>7, <2>8
    <3>2. m \in LocalMembers'
      BY <3>1, <1>2, SeedsAfter
    <3> QED
      BY <2>2, <2>6, <2>7, <2>8, <3>1, <3>2
  <2>9. Evident \cup PytestPlugins(Evident) \cup (project.first_party \cap project.local)
          \subseteq T \cap U
    BY <2>1, <2>2, SeedsAfter
  <2> QED
    BY <2>4, <2>8, <2>9 DEF MembersClosed
<1>5. CompanionsClosed(S \cap used)
  <2>1. CompanionsClosed(used)
    BY DEF Fixing, SpreadInv, Enough
  <2>2. \A d \in DeclaredBy(Root)' :
           d \in project.loaded \/ (\E e \in project.peers : e[1] = d /\ e[2] \in S) => d \in S
    BY <1>1 DEF Enough, CompanionsClosed
  <2> QED
    BY <2>1, <2>2, UsedDeclaredAfter DEF CompanionsClosed
<1>6. Enough(S \cap used)
  BY <1>4, <1>5 DEF Enough
<1> QED
  BY <1>6 DEF Fixing, SpreadInv

(* An entry is reported as unused that was not only if a build requirement *)
(* of its group has gone.                                                  *)
LEMMA PinsAfter ==
  ASSUME Fixing, Fix, NEW r \in Refs(Root)', Entry(r)' = Entry(r)
  PROVE  /\ BuildPin(r)' => BuildPin(r)
         /\ BuildPin(r) /\ ~BuildPin(r)' =>
               /\ Entry(r).name \in project.build_constraints
               /\ \E t \in Removals \cup Moves : Entry(t).name \in project.build_requires
<1>1. project' = project /\ Root \in Owners
  BY DEF Fix, Owners
<1>2. \A t \in Refs(Root)' : /\ t \in Refs(Root) /\ Entry(t)'.name = Entry(t).name
                             /\ t \notin Moves => Entry(t)' = Entry(t)
                             /\ t \in Moves => Entry(t)'.context = "runtime"
  BY <1>1, EntryAfter
<1>3. \A t \in Refs(Root) : t \in Refs(Root)' \/ t \in Removals
  BY <1>1, ManifestsAfter
<1>4. BuildPin(r)' <=>
         /\ Entry(r).name \in project.build_constraints
         /\ Entry(r).context = "group"
         /\ \E t \in Refs(Root)' : /\ Entry(t)'.context = "group"
                                   /\ Entry(t)'.group = Entry(r).group
                                   /\ Entry(t)'.name \in project.build_requires
  BY <1>1 DEF BuildPin
<1>5. BuildPin(r) <=>
         /\ Entry(r).name \in project.build_constraints
         /\ Entry(r).context = "group"
         /\ \E t \in Refs(Root) : /\ Entry(t).context = "group"
                                  /\ Entry(t).group = Entry(r).group
                                  /\ Entry(t).name \in project.build_requires
  BY DEF BuildPin
<1>6. ASSUME BuildPin(r)' PROVE BuildPin(r)
  <2>1. PICK t \in Refs(Root)' : /\ Entry(t)'.context = "group"
                                 /\ Entry(t)'.group = Entry(r).group
                                 /\ Entry(t)'.name \in project.build_requires
    BY <1>4, <1>6
  <2>2. t \in Refs(Root) /\ Entry(t)' = Entry(t)
    BY <1>2, <2>1
  <2> QED
    BY <1>4, <1>5, <1>6, <2>1, <2>2
<1>7. ASSUME BuildPin(r), ~BuildPin(r)'
      PROVE  \E t \in Removals \cup Moves : Entry(t).name \in project.build_requires
  <2>1. PICK t \in Refs(Root) : /\ Entry(t).context = "group"
                                /\ Entry(t).group = Entry(r).group
                                /\ Entry(t).name \in project.build_requires
    BY <1>5, <1>7
  <2>2. t \in Refs(Root)' /\ t \notin Moves => Entry(t)' = Entry(t)
    BY <1>2
  <2>3. t \in Removals \cup Moves
    BY <1>3, <1>4, <1>5, <1>7, <2>1, <2>2
  <2> QED
    BY <2>1, <2>3
<1> QED
  BY <1>5, <1>6, <1>7

LEMMA UnusedAfter ==
  ASSUME Fixing, Fix, NEW S \in SUBSET Dists, Enough(S)', NEW s, NEW r \in Unused(S, s)'
  PROVE  \/ \E j \in issues : j.rule = 2 /\ j.dist = Entry(r)'.name /\ j.owner = Root
         \/ /\ Entry(r)'.name \in project.build_constraints
            /\ \E t \in Removals \cup Moves : Entry(t).name \in project.build_requires
         \/ Entry(r)' = Entry(r) /\ r \in Unused(used, s)
<1>1. project' = project /\ Root \in Owners
  BY DEF Fix, Owners
<1>2. /\ r \in Refs(Root)' /\ r \in Considered' /\ Entry(r)'.name \notin S
      /\ ~Entry(r)'.opaque /\ ~Suppressed(Entry(r), s)' /\ (s \/ ~Entry(r)'.marked)
      /\ \A t \in Considered' \ {r} :
            Entry(t)'.name = Entry(r)'.name /\ ~Entry(t)'.opaque => ReportedBefore(r, t)'
  BY DEF Unused, Considered
<1>3. ASSUME NEW t \in Refs(Root)', Entry(t)'.name = Entry(r)'.name
      PROVE  t \in Refs(Root) /\ Entry(t)' = Entry(t)
  <2>1. Entry(t).name \notin used
    BY <1>1, <1>2, <1>3, EntryAfter, UsedAfter
  <2>2. t \notin Moves
    BY <2>1, MovedAre
  <2> QED
    BY <1>1, <2>2, EntryAfter
<1>4. r \in Refs(Root) /\ Entry(r)' = Entry(r)
  BY <1>2, <1>3
<1>5. PICK d : d = Entry(r).name
  OBVIOUS
<1>6. CASE \E t \in Removals : Entry(t).name = d
  BY <1>4, <1>5, <1>6, RemovedAre
<1>7. CASE BuildPin(r)
  BY <1>2, <1>4, <1>7, PinsAfter DEF Considered
<1>8. CASE ~BuildPin(r) /\ ~\E t \in Removals : Entry(t).name = d
  <2>1. r \in Considered
    BY <1>1, <1>2, <1>4, <1>8 DEF Considered
  <2>2. ASSUME NEW t \in Considered \ {r}, Entry(t).name = d, ~Entry(t).opaque
        PROVE  ReportedBefore(r, t)
    <3>1. t \in Refs(Root) /\ t \in Refs(Root)'
      BY <1>1, <1>8, <2>2, ManifestsAfter DEF Considered
    <3>2. Entry(t)' = Entry(t)
      BY <1>1, <1>3, <1>4, <1>5, <2>2, <3>1, EntryAfter
    <3>3. t \in Considered'
      BY <1>1, <2>2, <3>1, <3>2, PinsAfter DEF Considered
    <3>4. ReportedBefore(r, t)'
      BY <1>2, <1>4, <1>5, <2>2, <3>2, <3>3
    <3>5. /\ Suppressed(Entry(r), FALSE)' <=> Suppressed(Entry(r), FALSE)
          /\ Suppressed(Entry(t), FALSE)' <=> Suppressed(Entry(t), FALSE)
      BY <1>1, <1>4, <3>2 DEF Suppressed
    <3> QED
      BY <1>4, <3>2, <3>4, <3>5 DEF ReportedBefore
  <2>3. Suppressed(Entry(r), s)' <=> Suppressed(Entry(r), s)
    BY <1>1, <1>4 DEF Suppressed
  <2>4. Entry(r).name \notin used
    BY <1>2, <1>4, UsedAfter
  <2>5. r \in Unused(used, s)
    BY <1>2, <1>4, <1>5, <2>1, <2>2, <2>3, <2>4 DEF Unused
  <2> QED
    BY <1>4, <2>5
<1> QED
  BY <1>6, <1>7, <1>8

(* What is recorded of a fix accounts for what is said after it.           *)
LEMMA EditsApplied ==
  ASSUME Fixing, Fix
  PROVE  /\ project' = project /\ strict' = strict /\ before' = issues
         /\ \A r \in Removals :
               \E f \in applied' : f.kind = "remove" /\ f.ref = r /\ f.entry = Entry(r)
         /\ \A r \in Moves :
               \E f \in applied' : f.kind = "move" /\ f.ref = r /\ f.entry = Entry(r)
         /\ \A f \in applied' : f.kind = "move" => f.ref \in Moves /\ f.entry = Entry(f.ref)
<1>1. applied' = Plan /\ project' = project /\ strict' = strict /\ before' = issues
  BY DEF Fix
<1>2. /\ \A r \in Removals : [kind |-> "remove", ref |-> r, entry |-> Entry(r)] \in Plan
      /\ \A r \in Moves : [kind |-> "move", ref |-> r, entry |-> Entry(r)] \in Plan
      /\ \A f \in Plan : f.kind = "move" => f.ref \in Moves /\ f.entry = Entry(f.ref)
  BY DEF Plan
<1> QED
  BY <1>1, <1>2

LEMMA ExplainedAfter ==
  ASSUME Fixing, Fix, NEW i
  PROVE  /\ (\E j \in issues : Counterpart(i, j)) => Explained(i)'
         /\ BroughtAway(i.dist) => Explained(i)'
         /\ (/\ i.rule = 2 /\ i.dist \in project.build_constraints
             /\ \E t \in Removals \cup Moves : Entry(t).name \in project.build_requires)
               => Explained(i)'
         /\ (/\ strict /\ i.rule = 3 /\ i.owner # Root
             /\ \E r \in Moves \cap Indexed(Root, i.dist) : r[1] = Root)
               => Explained(i)'
<1>1. ASSUME \E j \in issues : Counterpart(i, j)
      PROVE  Explained(i)'
  BY <1>1, EditsApplied DEF Explained, Counterpart, SameFinding
<1>2. ASSUME BroughtAway(i.dist)
      PROVE  Explained(i)'
  <2>1. PICK r \in Removals : Entry(r).extras /\ i.dist \in project.locks[Root].extras[Entry(r).name]
    BY <1>2 DEF BroughtAway
  <2>2. PICK f \in applied' : f.kind = "remove" /\ f.entry = Entry(r)
    BY EditsApplied
  <2>3. BroughtExtra(i)'
    BY <2>1, <2>2, EditsApplied DEF BroughtExtra, Brought
  <2> QED
    BY <2>3 DEF Explained
<1>3. ASSUME i.rule = 2, i.dist \in project.build_constraints,
             NEW t \in Removals \cup Moves, Entry(t).name \in project.build_requires
      PROVE  Explained(i)'
  <2>1. PICK f \in applied' : f.entry = Entry(t)
    BY EditsApplied
  <2>2. MadeBuildGroup(i)'
    BY <1>3, <2>1, EditsApplied DEF MadeBuildGroup
  <2> QED
    BY <2>2 DEF Explained
<1>4. ASSUME strict, i.rule = 3, i.owner # Root, NEW r \in Moves \cap Indexed(Root, i.dist),
             r[1] = Root
      PROVE  Explained(i)'
  <2>1. PICK f \in applied' : f.kind = "move" /\ f.ref = r /\ f.entry = Entry(r)
    BY EditsApplied
  <2>2. f.entry.name = i.dist \/ Brought(f, i.dist)
    <3>1. LockOf(Root) = project.locks[Root]
      BY DEF LockOf
    <3> QED
      BY <1>4, <2>1, <3>1 DEF Indexed, Named, Brought
  <2>3. MovedToRoot(i)'
    BY <1>4, <2>1, <2>2, EditsApplied DEF MovedToRoot, Brought
  <2> QED
    BY <2>3 DEF Explained
<1> QED
  BY <1>1, <1>2, <1>3, <1>4

LEMMA MovesStay ==
  ASSUME Fixing, Fix, NEW i, i.owner \in Owners,
         NEW m, IsImport(m), m.owner = i.owner, m.dist = i.dist,
         Checked(m) => m.dist \in used, NEW s, s = strict, MisplacedImport(m, s)'
  PROVE  StaysMoved(i)'
<1> SUFFICES ASSUME NEW f \in applied', f.kind = "move", f.entry.name = i.dist,
                    f.ref[1] = GoverningManifest(i)'
             PROVE  FALSE
  BY DEF StaysMoved
<1>1. strict' = s
  BY DEF Fix
<1>2. PICK o \in Owners : o = GoverningManifest(i)' /\ Governing(m, s)' = Indexed(o, m.dist)'
  BY <1>1 DEF GoverningManifest, MemberIndexes, Governing, Owners
<1>3. f.ref \in Moves /\ Entry(f.ref).name = m.dist
  BY EditsApplied
<1>4. PICK q \in Owners : f.ref \in Refs(q)
  BY <1>3, MovedAre
<1>5. q = o
  BY <1>2, <1>4 DEF Refs
<1>6. f.ref \in Indexed(o, m.dist)'
  <2>1. f.ref \in Indexed(o, m.dist)
    BY <1>3, <1>4, <1>5 DEF Indexed, Named
  <2> QED
    BY <1>3, <2>1, MovedAre, IndexedAfter
<1> QED
  BY <1>2, <1>3, <1>6, MisplacedAfter

LEMMA FixedHere ==
  ASSUME Fixing, Fix, NEW S \in SUBSET Dists, Enough(S)', NEW i \in Issues, Says(i, S)'
  PROVE  Explained(i)' /\ StaysMoved(i)'
<1>1. project' = project /\ strict' = strict
  BY DEF Fix
<1>2. PICK s : s = strict
  OBVIOUS
<1>3. \A j : j \in issues <=>
         j \in UnusedIssues(s) \/ j \in ImportIssues(s) \/ j \in MisplacedIssues
  BY <1>2 DEF Fixing, ReportInv, IssuesInv
<1>4. CASE i.rule = 2
  <2>1. PICK r \in Unused(S, s)' : i.owner = Root /\ i.dist = Entry(r)'.name
    BY <1>1, <1>2, <1>4 DEF Says
  <2>2. CASE \E j \in issues : j.rule = 2 /\ j.dist = Entry(r)'.name /\ j.owner = Root
    BY <1>4, <2>1, <2>2, ExplainedAfter DEF Counterpart, SameFinding, StaysMoved
  <2>3. CASE /\ Entry(r)'.name \in project.build_constraints
             /\ \E t \in Removals \cup Moves : Entry(t).name \in project.build_requires
    BY <1>4, <2>1, <2>3, ExplainedAfter DEF StaysMoved
  <2>4. CASE Entry(r)' = Entry(r) /\ r \in Unused(used, s)
    <3>1. PICK j : j = Issue(2, Entry(r).name, Root, r[2], ~Entry(r).marked)
      OBVIOUS
    <3>2. j \in issues
      BY <1>3, <2>4, <3>1 DEF UnusedIssues
    <3> QED
      BY <1>4, <2>1, <2>4, <3>1, <3>2, ExplainedAfter
         DEF Counterpart, SameFinding, StaysMoved, Issue
  <2> QED
    BY <2>2, <2>3, <2>4, UnusedAfter
<1>5. CASE i.rule # 2
  <2>1. PICK n, m :
           /\ n \in DOMAIN project.imports /\ m = project.imports[n]
           /\ i.owner = m.owner /\ i.dist = m.dist
           /\ \/ /\ i.import = n
                 /\ \/ i.rule = 3 /\ MissingFromMember(m, s)'
                    \/ i.rule \in {3, 4} /\ Undeclared(m, s)'
              \/ i.rule = 5 /\ MisplacedImport(m, s)' /\ ~m.ignored
    BY <1>1, <1>2, <1>5 DEF Says
  <2>2. IsImport(m) /\ (Checked(m) => m.dist \in used)
    BY <2>1, ImportTypes, ImportsAreUsed DEF Fixing, ReportInv, TypeOK
  <2>3. ASSUME i.import = n, i.rule \in {3, 4}, MissingFromMember(m, s) \/ Undeclared(m, s)
        PROVE  Explained(i)'
    <3>1. PICK j \in {MissingIssue(n), UndeclaredIssue(n)} : j \in ImportIssues(s)
      BY <2>1, <2>3, ImportIssuesAre
    <3>2. j \in issues /\ j.import = n /\ j.rule \in {3, 4}
      BY <1>3, <3>1, IssueFields
    <3>3. Counterpart(i, j)
      BY <2>3, <3>2 DEF Counterpart
    <3> QED
      BY <3>2, <3>3, ExplainedAfter
  <2>4. CASE i.import = n /\ i.rule = 3 /\ MissingFromMember(m, s)'
    BY <1>2, <2>1, <2>2, <2>3, <2>4, MissingAfter, ExplainedAfter DEF StaysMoved
  <2>5. CASE i.import = n /\ i.rule \in {3, 4} /\ Undeclared(m, s)'
    BY <2>1, <2>2, <2>3, <2>5, UndeclaredAfter, ExplainedAfter DEF StaysMoved
  <2>6. CASE i.rule = 5 /\ MisplacedImport(m, s)' /\ ~m.ignored
    <3>1. i.owner \in Owners
      BY DEF Issues
    <3>2. StaysMoved(i)'
      BY <1>2, <2>1, <2>2, <2>6, <3>1, MovesStay
    <3>3. CASE MisplacedImport(m, s)
      <4>1. Key(n) \in Owners \X Dists /\ weighed[Key(n)].known /\ ~weighed[Key(n)].ignored
        BY <1>2, <2>1, <2>6, <3>3, MisplacedKnown DEF Fixing
      <4>2. MisplacedIssue(Key(n)) \in issues
        BY <1>3, <4>1 DEF MisplacedIssues, MisplacedIssue
      <4>3. Counterpart(i, MisplacedIssue(Key(n)))
        BY <2>1, <2>6 DEF Counterpart, SameFinding, MisplacedIssue, Issue, Key
      <4> QED
        BY <3>2, <4>2, <4>3, ExplainedAfter
    <3> QED
      BY <2>1, <2>2, <2>6, <3>2, <3>3, MisplacedAfter, ExplainedAfter
  <2> QED
    BY <2>1, <2>4, <2>5, <2>6
<1> QED
  BY <1>4, <1>5

LEMMA FixedStays ==
  ASSUME project' = project, manifests' = manifests, strict' = strict,
         before' = before, applied' = applied, FixedInv
  PROVE  FixedInv'
<1>1. PICK s : s = strict
  OBVIOUS
<1>2. ASSUME NEW i, NEW S, Says(i, S)'
      PROVE  Says(i, S)
  <2>1. Unused(S, s)' = Unused(S, s)
    BY RulesStay
  <2> QED
    BY <1>1, <1>2, <2>1, RulesStay, DeclarationsStay DEF Says
<1>3. \A i : Explained(i) => Explained(i)'
  BY DEF Explained, Counterpart, SameFinding, BroughtExtra, Brought, MadeBuildGroup, MovedToRoot
<1>4. \A i : StaysMoved(i) => StaysMoved(i)'
  <2>1. \A i : GoverningManifest(i)' = GoverningManifest(i)
    BY DeclarationsStay DEF GoverningManifest, MemberIndexes
  <2> QED
    BY <2>1 DEF StaysMoved
<1> QED
  BY <1>2, <1>3, <1>4, EnoughStays DEF FixedInv

LEMMA FixedKept == ReportInv /\ SpreadInv /\ FixedInv /\ [Next]_vars => FixedInv'
<1> SUFFICES ASSUME ReportInv, SpreadInv, FixedInv, [Next]_vars
             PROVE  FixedInv'
  OBVIOUS
<1>1. CASE Fix
  <2>1. Fixing
    BY <1>1 DEF Fix, Fixing
  <2> QED
    BY <1>1, <2>1, FixedHere DEF FixedInv
<1>2. CASE \/ CollectUsed \/ MarkMembers \/ MembersMarked \/ MarkCompanions
           \/ Detect \/ WeighImport \/ Report \/ UNCHANGED vars
  <2>1. /\ project' = project /\ manifests' = manifests /\ strict' = strict
        /\ before' = before /\ applied' = applied
    BY <1>2 DEF CollectUsed, MarkMembers, MembersMarked, MarkCompanions, Detect, WeighImport,
                Report, vars
  <2> QED
    BY <2>1, FixedStays
<1> QED
  BY <1>1, <1>2 DEF Next, NothingToFix

(* All that is reported is said of what is used.                           *)
LEMMA ReportedIsSaid ==
  ASSUME ReportInv, phase = "reported", NEW i \in issues
  PROVE  Says(i, used)
<1>1. \/ i \in UnusedIssues(strict) \/ i \in ImportIssues(strict) \/ i \in MisplacedIssues
  BY DEF ReportInv, IssuesInv
<1>2. CASE i \in UnusedIssues(strict)
  BY <1>2 DEF UnusedIssues, Issue, Says
<1>3. CASE i \in ImportIssues(strict)
  <2>1. PICK n \in DOMAIN project.imports :
           \/ MissingFromMember(project.imports[n], strict) /\ i = MissingIssue(n)
           \/ Undeclared(project.imports[n], strict) /\ i = UndeclaredIssue(n)
    BY <1>3, ImportIssuesAre
  <2> QED
    BY <2>1, IssueFields DEF Says
<1>4. CASE i \in MisplacedIssues
  <2>1. PICK k \in Owners \X Dists : /\ weighed[k].known /\ ~weighed[k].ignored
                                    /\ i.rule = 5 /\ i.owner = k[1] /\ i.dist = k[2]
    BY <1>4 DEF MisplacedIssues, Issue
  <2>2. SitesTogether(k)
    BY DEF ReportInv, WeighedInv
  <2>3. PICK n \in AllSites(k) : ~project.imports[n].ignored
    BY <2>1, <2>2 DEF SitesTogether, HeardSites
  <2> QED
    BY <2>1, <2>3 DEF AllSites, Key, Says
<1> QED
  BY <1>1, <1>2, <1>3, <1>4

(* "A fix removes the issues it applies and adds none": whatever was fixed,*)
(* the next analysis says nothing new of a place but what the              *)
(* removal of an extra, the end of a build environment's group and a move  *)
(* to the root's list under --strict bring (plan_fixes_with_sources, then  *)
(* reconcile_project again).                                               *)
THEOREM FixesAddLittleCorrect == Spec => []FixesAddLittle
<1>1. Init => ReportInv /\ UsedInv /\ SpreadInv /\ FixedInv
  BY ReportStarts DEF Init, UsedInv, SpreadInv, FixedInv
<1>2. ReportInv /\ UsedInv /\ SpreadInv /\ FixedInv /\ [Next]_vars
         => (ReportInv /\ UsedInv /\ SpreadInv /\ FixedInv)'
  BY ReportKept, UsedKept, SpreadKept, FixedKept DEF ReportInv
<1>3. ReportInv /\ UsedInv /\ SpreadInv /\ FixedInv => FixesAddLittle
  <2> SUFFICES ASSUME ReportInv, SpreadInv, FixedInv, phase = "reported", applied # {},
                      NEW i \in issues
               PROVE  /\ \/ \E j \in before : Counterpart(i, j)
                         \/ BroughtExtra(i) \/ MadeBuildGroup(i) \/ MovedToRoot(i)
                      /\ i.rule = 5 =>
                            ~\E f \in applied : /\ f.kind = "move"
                                                /\ f.entry.name = i.dist
                                                /\ f.ref[1] = GoverningManifest(i)
    BY DEF FixesAddLittle
  <2>1. used \in SUBSET Dists /\ i \in Issues
    BY DEF ReportInv, TypeOK
  <2>2. Enough(used) /\ Says(i, used)
    BY ReportedIsSaid DEF SpreadInv
  <2> QED
    BY <2>1, <2>2 DEF FixedInv, Explained, StaysMoved
<1> QED
  BY <1>1, <1>2, <1>3, PTL DEF Spec
=============================================================================
