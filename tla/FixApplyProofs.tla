--------------------------- MODULE FixApplyProofs ---------------------------
(***************************************************************************)
(* What FixApply keeps for any manifests, command lines, faults, crashes   *)
(* and edits of the user.                                                  *)
(***************************************************************************)
EXTENDS FixApply, WellFoundedInduction, TLAPS

(* Sequences of entries.                                                   *)
LEMMA RangeFacts ==
  ASSUME NEW S, NEW s \in Seq(S)
  PROVE  /\ DOMAIN s = 1 .. Len(s) /\ Len(s) \in Nat
         /\ \A i \in 1 .. Len(s) : s[i] \in S
         /\ RangeOf(s) = {s[i] : i \in 1 .. Len(s)} /\ RangeOf(s) \subseteq S
BY DEF RangeOf

LEMMA WithoutFacts ==
  ASSUME NEW S, NEW s \in Seq(S), NEW i \in DOMAIN s
  PROVE  LET t == WithoutEntry(s, i)
         IN  /\ t \in Seq(S) /\ Len(t) = Len(s) - 1
             /\ \A k \in 1 .. Len(s) - 1 : t[k] = IF k < i THEN s[k] ELSE s[k + 1]
             /\ RangeOf(t) = {s[k] : k \in DOMAIN s \ {i}}
<1> DEFINE t == WithoutEntry(s, i)
<1>1. Len(s) \in Nat /\ i \in 1 .. Len(s) /\ DOMAIN s = 1 .. Len(s) /\ \A k \in 1 .. Len(s) : s[k] \in S
  BY RangeFacts
<1>2. t = [k \in 1 .. (Len(s) - 1) |-> IF k < i THEN s[k] ELSE s[k + 1]]
  BY DEF WithoutEntry
<1>3. Len(s) - 1 \in Nat /\ \A k \in 1 .. Len(s) - 1 : k \in 1 .. Len(s) /\ k + 1 \in 1 .. Len(s)
  BY <1>1
<1>4. t \in Seq(S) /\ Len(t) = Len(s) - 1
  BY <1>1, <1>2, <1>3
<1>5. DOMAIN t = 1 .. Len(s) - 1 /\ \A k \in 1 .. Len(s) - 1 : t[k] = IF k < i THEN s[k] ELSE s[k + 1]
  BY <1>2
<1>6. ASSUME NEW e \in RangeOf(t) PROVE e \in {s[k] : k \in DOMAIN s \ {i}}
  <2>1. PICK k \in 1 .. Len(s) - 1 : e = t[k]
    BY <1>5 DEF RangeOf
  <2>2. k # i \/ k + 1 # i
    BY <1>1
  <2>3. CASE k < i
    BY <1>1, <1>3, <1>5, <2>1, <2>3
  <2>4. CASE ~ (k < i)
    BY <1>1, <1>3, <1>5, <2>1, <2>4
  <2> QED
    BY <2>3, <2>4
<1>7. ASSUME NEW k \in DOMAIN s \ {i} PROVE s[k] \in RangeOf(t)
  <2>1. CASE k < i
    BY <1>1, <1>5, <2>1 DEF RangeOf
  <2>2. CASE ~ (k < i)
    <3>1. k - 1 \in 1 .. Len(s) - 1 /\ ~ (k - 1 < i) /\ (k - 1) + 1 = k
      BY <1>1, <2>2
    <3>2. t[k - 1] = s[k]
      BY <1>5, <3>1
    <3> QED
      BY <1>5, <3>1, <3>2 DEF RangeOf
  <2> QED
    BY <2>1, <2>2
<1> QED
  BY <1>4, <1>5, <1>6, <1>7

LEMMA AppendFacts ==
  ASSUME NEW S, NEW s \in Seq(S), NEW e \in S
  PROVE  LET t == Append(s, e)
         IN  /\ t \in Seq(S) /\ Len(t) = Len(s) + 1 /\ t[Len(s) + 1] = e
             /\ \A k \in 1 .. Len(s) : t[k] = s[k]
             /\ RangeOf(t) = RangeOf(s) \cup {e}
<1> DEFINE t == Append(s, e)
<1>1. t \in Seq(S) /\ Len(t) = Len(s) + 1 /\ Len(s) \in Nat /\ t[Len(s) + 1] = e
      /\ (\A k \in 1 .. Len(s) : t[k] = s[k])
  OBVIOUS
<1>2. DOMAIN t = 1 .. Len(s) + 1 /\ DOMAIN s = 1 .. Len(s)
  BY <1>1, RangeFacts
<1>3. RangeOf(t) = RangeOf(s) \cup {e}
  <2> HIDE DEF t
  <2>1. \A k \in 1 .. Len(s) + 1 : k \in 1 .. Len(s) \/ k = Len(s) + 1
    BY <1>1
  <2>2. \A k \in 1 .. Len(s) : k \in 1 .. Len(s) + 1
    BY <1>1
  <2>3. Len(s) + 1 \in 1 .. Len(s) + 1
    BY <1>1
  <2> QED
    BY <1>1, <1>2, <2>1, <2>2, <2>3 DEF RangeOf
<1> QED
  BY <1>1, <1>3

LEMMA PrependFacts ==
  ASSUME NEW S, NEW s \in Seq(S), NEW e \in S
  PROVE  LET t == <<e>> \o s
         IN  /\ t \in Seq(S) /\ RangeOf(t) = RangeOf(s) \cup {e}
<1> DEFINE t == <<e>> \o s
<1>1. t \in Seq(S) /\ Len(t) = Len(s) + 1 /\ Len(s) \in Nat /\ t[1] = e
      /\ (\A k \in 1 .. Len(s) : t[k + 1] = s[k])
  OBVIOUS
<1>2. DOMAIN t = 1 .. Len(s) + 1 /\ DOMAIN s = 1 .. Len(s)
  BY <1>1, RangeFacts
<1>3. RangeOf(t) = RangeOf(s) \cup {e}
  <2> HIDE DEF t
  <2>1. \A k \in 1 .. Len(s) + 1 : k = 1 \/ (k - 1 \in 1 .. Len(s) /\ (k - 1) + 1 = k)
    BY <1>1
  <2>2. \A k \in 1 .. Len(s) : k + 1 \in 1 .. Len(s) + 1
    BY <1>1
  <2>3. 1 \in 1 .. Len(s) + 1
    BY <1>1
  <2>4. ASSUME NEW d \in RangeOf(t) PROVE d \in RangeOf(s) \cup {e}
    <3>1. PICK k \in 1 .. Len(s) + 1 : d = t[k]
      BY <1>2 DEF RangeOf
    <3>2. CASE k = 1
      BY <1>1, <3>1, <3>2
    <3>3. CASE k - 1 \in 1 .. Len(s) /\ (k - 1) + 1 = k
      <4>1. d = s[k - 1]
        BY <1>1, <3>1, <3>3
      <4> QED
        BY <1>2, <3>3, <4>1 DEF RangeOf
    <3> QED
      BY <2>1, <3>2, <3>3
  <2>5. ASSUME NEW d \in RangeOf(s) PROVE d \in RangeOf(t)
    BY <1>1, <1>2, <2>2 DEF RangeOf
  <2>6. e \in RangeOf(t)
    BY <1>1, <1>2, <2>3 DEF RangeOf
  <2> QED
    BY <2>4, <2>5, <2>6
<1> QED
  BY <1>1, <1>3

-----------------------------------------------------------------------------
(* What is reported comes from a candidate, and is no surer than it was.   *)
Confidences == {Maybe, Likely, Certain}

LEMMA LeastIsLower ==
  ASSUME NEW S, S \subseteq Confidences, NEW y \in S
  PROVE  LeastOf(S) \in S /\ LeastOf(S) <= y
<1>1. S \subseteq {0, 1, 2}
  BY DEF Confidences, Maybe, Likely, Certain
<1>2. \E x \in S : \A z \in S : x <= z
  <2>1. CASE 0 \in S
    BY <1>1, <2>1
  <2>2. CASE 0 \notin S /\ 1 \in S
    BY <1>1, <2>2
  <2>3. CASE 0 \notin S /\ 1 \notin S
    BY <1>1, <2>3
  <2> QED
    BY <2>1, <2>2, <2>3
<1> QED
  BY <1>2 DEF LeastOf

LEMMA CandidateShape ==
  ASSUME NEW rule, NEW n, NEW by, NEW sites, NEW severity, NEW confidence
  PROVE  LET c == Candidate(rule, n, by, sites, severity, confidence)
         IN  /\ DOMAIN c = {"rule", "name", "by", "sites", "severity", "confidence"}
             /\ c.rule = rule /\ c.name = n /\ c.by = by /\ c.sites = sites
             /\ c.severity = severity /\ c.confidence = confidence
BY DEF Candidate

(* A candidate, by the rule that finds it.                                 *)
LEMMA CandidateFacts ==
  ASSUME NEW a, NEW c \in Candidates(a)
  PROVE  /\ DOMAIN c = {"rule", "name", "by", "sites", "severity", "confidence"}
         /\ c.rule \in Rules /\ c.confidence \in Confidences
         /\ c.rule = 2 => c.name \in UnusedNames(a)
         /\ c.rule = 3 => \E m \in a.imports : c.name = m[1] /\ m[1] \notin Declared(a)
         /\ c.rule = 5 => c.name \in MisplacedNames(a)
         /\ c.rule = 9 => /\ c.name \in Declared(a)
                          /\ c.confidence = Certain => Removable(a, c.name) # {}
<1>1. CASE \E n \in UnusedNames(a) : c = Candidate(2, n, "manifest", {}, Error, Certain)
  BY <1>1, CandidateShape DEF Rules, Confidences
<1>2. CASE \E m \in {m \in a.imports : m[1] \notin Declared(a)} :
              c = Candidate(3, m[1], m[2], {m[2]}, Error, Certain)
  BY <1>2, CandidateShape DEF Rules, Confidences
<1>3. CASE \E n \in MisplacedNames(a) :
              c = Candidate(5, n, "manifest", FilesImporting(a, n), Warning, Certain)
  BY <1>3, CandidateShape DEF Rules, Confidences
<1>4. CASE \E n \in {n \in Declared(a) : IsDuplicate(a, n)} : c = DuplicateFinding(a, n)
  <2>1. PICK n \in Declared(a) : c = DuplicateFinding(a, n)
    BY <1>4
  <2>2. CASE Removable(a, n) # {}
    <3>1. c = Candidate(9, n, "manifest", {}, Warning, Certain)
      BY <2>1, <2>2 DEF DuplicateFinding
    <3> QED
      BY <2>1, <2>2, <3>1, CandidateShape DEF Rules, Confidences
  <2>3. CASE ~ (Removable(a, n) # {})
    <3>1. c = Candidate(9, n, "manifest", {}, Info, Likely) /\ Likely # Certain
      BY <2>1, <2>3 DEF DuplicateFinding, Likely, Certain
    <3> QED
      BY <2>1, <3>1, CandidateShape DEF Rules, Confidences
  <2> QED
    BY <2>2, <2>3
<1> QED
  BY <1>1, <1>2, <1>3, <1>4 DEF Candidates

LEMMA LoweredFacts ==
  ASSUME NEW gaps, NEW a, NEW c \in Candidates(a)
  PROVE  LET l == Lowered(gaps, c)
         IN  /\ l.rule = c.rule /\ l.name = c.name /\ l.by = c.by /\ l.sites = c.sites
             /\ DOMAIN l = DOMAIN c
             /\ l.confidence \in Confidences /\ l.confidence <= c.confidence
             /\ \A k \in KindsReaching(gaps, c) \cap (HintKinds(c.rule) \cup CapKinds(c.rule)) :
                   l.confidence <= Cap(k)
<1> DEFINE hints == KindsReaching(gaps, c) \cap HintKinds(c.rule)
           caps  == KindsReaching(gaps, c) \cap CapKinds(c.rule)
           sure  == {c.confidence} \cup {Cap(k) : k \in hints \cup caps}
           l     == Lowered(gaps, c)
<1>1. /\ l = [c EXCEPT !.severity = IF hints # {} THEN Info ELSE c.severity,
                       !.confidence = LeastOf(sure)]
      /\ {"rule", "name", "by", "sites", "severity", "confidence"} = DOMAIN c
  BY CandidateFacts DEF Lowered
<1>2. sure \subseteq Confidences
  BY CandidateFacts DEF Confidences, Cap
<1>3. LeastOf(sure) \in sure /\ \A y \in sure : LeastOf(sure) <= y
  <2> HIDE DEF sure
  <2>1. c.confidence \in sure
    BY DEF sure
  <2> QED
    BY <1>2, <2>1, LeastIsLower
<1>4. l.confidence = LeastOf(sure) /\ l.rule = c.rule /\ l.name = c.name /\ l.by = c.by
      /\ l.sites = c.sites /\ DOMAIN l = DOMAIN c
  BY <1>1
<1> HIDE DEF l
<1> QED
  BY <1>2, <1>3, <1>4 DEF l

(* The candidate that is reported, changed in severity and confidence only.*)
Standing(settings, gaps, c) == Overridden(settings, Lowered(gaps, c))

LEMMA StandingFacts ==
  ASSUME NEW settings, NEW gaps, NEW a, NEW c \in Candidates(a)
  PROVE  LET i == Standing(settings, gaps, c)
         IN  /\ i.rule = c.rule /\ i.name = c.name /\ i.by = c.by /\ i.sites = c.sites
             /\ i.confidence = Lowered(gaps, c).confidence
<1> DEFINE l == Lowered(gaps, c)
<1>1. /\ l.rule = c.rule /\ l.name = c.name /\ l.by = c.by /\ l.sites = c.sites
      /\ DOMAIN l = {"rule", "name", "by", "sites", "severity", "confidence"}
  BY LoweredFacts, CandidateFacts
<1> HIDE DEF l
<1>2. Standing(settings, gaps, c) = l
      \/ \E v : Standing(settings, gaps, c) = [l EXCEPT !.severity = v]
  BY DEF Standing, Overridden, l
<1> QED
  BY <1>1, <1>2 DEF l

LEMMA FindingFacts ==
  ASSUME NEW a, NEW i \in Findings(a)
  PROVE  \E c \in Candidates(a) :
            /\ i = Standing(a.settings, Gaps(a), c)
            /\ i.rule = c.rule /\ i.name = c.name /\ i.by = c.by /\ i.sites = c.sites
            /\ i.confidence = Lowered(Gaps(a), c).confidence
            /\ c.rule \notin a.settings.off /\ ~ Silenced(a.settings, i)
            /\ i.confidence >= Floor(a.settings) /\ i.rule \in a.settings.rules
<1>1. PICK c \in Candidates(a) :
             /\ c.rule \notin a.settings.off /\ i = Standing(a.settings, Gaps(a), c)
             /\ ~ Silenced(a.settings, i)
             /\ i.confidence >= Floor(a.settings) /\ i.rule \in a.settings.rules
  BY DEF Findings, Reported, Standing
<1> QED
  BY <1>1, StandingFacts

-----------------------------------------------------------------------------
(* Every removal and move is of a declaration of its distribution.         *)
LEMMA SmallestOf ==
  ASSUME NEW S \in SUBSET Nat, S # {}
  PROVE  \E n \in S : \A m \in S : n <= m
<1> DEFINE R == {ss \in Nat \X Nat : ss[1] < ss[2]}
<1>1. IsWellFoundedOn(R, Nat)
  BY NatLessThanWellFounded DEF OpToRel
<1>2. PICK x \in S : \A y \in S : ~ (<<y, x>> \in R)
  BY <1>1, WFMin
<1>3. \A y \in S : ~ (y < x)
  BY <1>2
<1> QED
  BY <1>3

LEMMA LargestOf ==
  ASSUME NEW n \in Nat, NEW S \in SUBSET (0 .. n), S # {}
  PROVE  \E k \in S : \A l \in S : l <= k
<1> DEFINE T == {n - k : k \in S}
<1>1. T \in SUBSET Nat /\ T # {}
  <2>1. ASSUME NEW k \in S PROVE n - k \in Nat
    <3>1. k \in 0 .. n
      OBVIOUS
    <3> QED
      BY <3>1
  <2> QED
    BY <2>1
<1>2. PICK t \in T : \A u \in T : t <= u
  <2> HIDE DEF T
  <2> QED
    BY <1>1, SmallestOf
<1>3. PICK k \in S : t = n - k
  BY <1>2
<1>4. ASSUME NEW l \in S PROVE l <= k
  <2>1. n - k <= n - l /\ l \in Int /\ k \in Int
    BY <1>2, <1>3
  <2> QED
    BY <2>1
<1> QED
  BY <1>4

LEMMA LineFacts ==
  ASSUME NEW a, a.manifest \in Documents, NEW s \in Lines(a)
  PROVE  /\ s = <<s[1], s[2]>> /\ s[1] \in Places
         /\ s[2] \in DOMAIN a.manifest[s[1]] /\ s[2] \in 1 .. Len(a.manifest[s[1]])
         /\ Len(a.manifest[s[1]]) \in Nat /\ s[2] \in Nat \ {0}
         /\ EntryAt(a, s) \in Entries
<1>1. PICK p \in Places : \E i \in DOMAIN a.manifest[p] : s = <<p, i>>
  BY DEF Lines
<1>2. PICK i \in DOMAIN a.manifest[p] : s = <<p, i>>
  BY <1>1
<1>3. a.manifest[p] \in Seq(Entries)
  BY DEF Documents
<1>4. i \in 1 .. Len(a.manifest[p]) /\ Len(a.manifest[p]) \in Nat /\ a.manifest[p][i] \in Entries
  BY <1>2, <1>3, RangeFacts
<1> QED
  BY <1>2, <1>4 DEF EntryAt

LEMMA RankFacts ==
  /\ \A p \in Places : LoadRank[p] \in 0 .. 4
  /\ \A p, q \in Places : LoadRank[p] = LoadRank[q] => p = q
BY DEF Places, LoadRank

LEMMA FirstExists ==
  ASSUME NEW a, a.manifest \in Documents, NEW S, S \subseteq Lines(a), S # {}
  PROVE  FirstLoaded(S) \in S
<1>1. \A s \in S : s = <<s[1], s[2]>> /\ s[1] \in Places /\ s[2] \in Nat
  BY LineFacts
<1> DEFINE Ranks == {LoadRank[s[1]] : s \in S}
<1>2. Ranks \in SUBSET Nat /\ Ranks # {}
  BY <1>1, RankFacts
<1>3. PICK r \in Ranks : \A q \in Ranks : r <= q
  <2> HIDE DEF Ranks
  <2> QED
    BY <1>2, SmallestOf
<1> DEFINE Firsts == {s[2] : s \in {s \in S : LoadRank[s[1]] = r}}
<1>4. Firsts \in SUBSET Nat /\ Firsts # {}
  BY <1>1, <1>3
<1>5. PICK i \in Firsts : \A j \in Firsts : i <= j
  <2> HIDE DEF Firsts
  <2> QED
    BY <1>4, SmallestOf
<1>6. PICK s \in S : LoadRank[s[1]] = r /\ s[2] = i
  BY <1>5
<1>7. ASSUME NEW t \in S \ {s} PROVE LoadedBefore(s, t)
  <2>1. CASE LoadRank[t[1]] = r
    <3>1. s[1] = t[1] /\ s[2] # t[2] /\ s[2] \in Nat /\ t[2] \in Nat
      BY <1>1, <1>6, <1>7, <2>1, RankFacts
    <3>2. s[2] <= t[2]
      BY <1>5, <1>6, <2>1
    <3> QED
      BY <3>1, <3>2 DEF LoadedBefore
  <2>2. CASE LoadRank[t[1]] # r
    <3>1. r <= LoadRank[t[1]] /\ r \in Nat /\ LoadRank[t[1]] \in Nat
      BY <1>2, <1>3
    <3> QED
      BY <1>6, <2>2, <3>1 DEF LoadedBefore
  <2> QED
    BY <2>1, <2>2
<1> QED
  BY <1>7 DEF FirstLoaded

LEMMA LastExists ==
  ASSUME NEW a, a.manifest \in Documents, NEW S, S \subseteq Lines(a), S # {}
  PROVE  \E s \in S : \A t \in S \ {s} : LoadedBefore(t, s)
<1>1. \A s \in S : /\ s = <<s[1], s[2]>> /\ s[1] \in Places
                   /\ s[2] \in 0 .. Len(a.manifest[s[1]]) /\ s[2] \in Nat
                   /\ Len(a.manifest[s[1]]) \in Nat
  BY LineFacts
<1> DEFINE Ranks == {LoadRank[s[1]] : s \in S}
<1>2. Ranks \in SUBSET (0 .. 4) /\ Ranks # {}
  BY <1>1, RankFacts
<1>3. PICK r \in Ranks : \A q \in Ranks : q <= r
  <2> HIDE DEF Ranks
  <2> QED
    BY <1>2, LargestOf
<1>4. PICK f \in S : LoadRank[f[1]] = r
  BY <1>3
<1> DEFINE Lasts == {s[2] : s \in {s \in S : LoadRank[s[1]] = r}}
<1>5. Lasts \in SUBSET (0 .. Len(a.manifest[f[1]])) /\ Lasts # {}
  <2>1. ASSUME NEW s \in S, LoadRank[s[1]] = r PROVE s[2] \in 0 .. Len(a.manifest[f[1]])
    <3>1. s[1] = f[1]
      BY <1>1, <1>4, <2>1, RankFacts
    <3> QED
      BY <1>1, <3>1
  <2> QED
    BY <1>4, <2>1
<1>6. PICK i \in Lasts : \A j \in Lasts : j <= i
  <2> HIDE DEF Lasts
  <2> QED
    BY <1>1, <1>5, LargestOf
<1>7. PICK s \in S : LoadRank[s[1]] = r /\ s[2] = i
  BY <1>6
<1>8. ASSUME NEW t \in S \ {s} PROVE LoadedBefore(t, s)
  <2>1. CASE LoadRank[t[1]] = r
    <3>1. s[1] = t[1] /\ s[2] # t[2] /\ s[2] \in Nat /\ t[2] \in Nat
      BY <1>1, <1>7, <1>8, <2>1, RankFacts
    <3>2. t[2] <= s[2]
      BY <1>6, <1>7, <2>1
    <3> QED
      BY <3>1, <3>2 DEF LoadedBefore
  <2>2. CASE LoadRank[t[1]] # r
    <3>1. LoadRank[t[1]] <= r /\ r \in 0 .. 4 /\ LoadRank[t[1]] \in 0 .. 4
      BY <1>2, <1>3
    <3> QED
      BY <1>7, <2>2, <3>1 DEF LoadedBefore
  <2> QED
    BY <2>1, <2>2
<1> QED
  BY <1>8

LEMMA DuplicateExists ==
  ASSUME NEW a, a.manifest \in Documents, NEW n, Removable(a, n) # {}
  PROVE  DuplicateToRemove(a, n) \in Removable(a, n)
<1> DEFINE InDev(s) == "dev" \in Contexts(a, s[1])
           R == Removable(a, n)
           D == {s \in R : InDev(s)}
           T == IF D # {} THEN D ELSE R
<1>1. R \subseteq Lines(a) /\ T \subseteq R /\ T # {}
  BY DEF Removable, SitesOf, Sites
<1>2. PICK s \in T : \A t \in T \ {s} : LoadedBefore(t, s)
  <2> HIDE DEF T, R
  <2> QED
    BY <1>1, LastExists
<1>3. ASSUME NEW t \in R \ {s} PROVE PreferredRemoval(a, s, t)
  <2>1. CASE t \in T
    <3>1. InDev(s) = InDev(t)
      BY <1>2, <2>1
    <3> QED
      BY <1>2, <1>3, <2>1, <3>1 DEF PreferredRemoval
  <2>2. CASE t \notin T
    <3>1. InDev(s) /\ ~ InDev(t)
      BY <1>2, <1>3, <2>2
    <3> QED
      BY <3>1 DEF PreferredRemoval
  <2> QED
    BY <2>1, <2>2
<1>4. s \in R
  BY <1>1, <1>2
<1> QED
  BY <1>3, <1>4 DEF DuplicateToRemove

Edits ==
  [kind : {"remove", "move", "add"}, rule : Rules, name : STRING, spec : Specs,
   place : Places, index : Nat]

(* The site an edit is for.                                                *)
Site(x) == <<x.place, x.index>>

LEMMA SitesOfFacts ==
  ASSUME NEW a, a.manifest \in Documents, NEW n, NEW s \in SitesOf(a, n)
  PROVE  s \in Lines(a) /\ n \in Declared(a) /\ n \in STRING /\ EntryAt(a, s).name = n
         /\ Readable(EntryAt(a, s)) /\ EntryAt(a, s).spec \in Specs
<1>1. s \in Sites(a) /\ s \in Lines(a) /\ EntryAt(a, s).name = n /\ Readable(EntryAt(a, s))
  BY DEF SitesOf, Sites
<1>2. EntryAt(a, s) \in Entries
  BY <1>1, LineFacts
<1> QED
  BY <1>1, <1>2 DEF Entries, Declared

LEMMA DeclaredFacts ==
  ASSUME NEW a, a.manifest \in Documents, NEW n \in Declared(a)
  PROVE  SitesOf(a, n) # {} /\ n \in STRING
<1>1. SitesOf(a, n) # {}
  BY DEF Declared, SitesOf
<1> QED
  BY <1>1, SitesOfFacts

LEMMA UnusedExists ==
  ASSUME NEW a, a.manifest \in Documents, NEW n \in Declared(a)
  PROVE  UnusedAt(a, n) \in SitesOf(a, n)
<1>1. RuntimeSites(a, n) \subseteq SitesOf(a, n) /\ SitesOf(a, n) # {}
  BY DeclaredFacts DEF RuntimeSites
<1>2. \A S \in SUBSET SitesOf(a, n) : S # {} => FirstLoaded(S) \in SitesOf(a, n)
  BY FirstExists, SitesOfFacts
<1> QED
  BY <1>1, <1>2 DEF UnusedAt

(* What PlanFixes plans for a finding.                                     *)
LEMMA FixFacts ==
  ASSUME NEW a, a.manifest \in Documents, a.imports \subseteq STRING \X STRING,
         NEW i \in Findings(a), HasFix(a, i)
  PROVE  LET x == FixFor(a, i)
         IN  /\ x \in Edits /\ x.name = i.name /\ x.rule = i.rule /\ x.spec # "unread"
             /\ x.kind = CASE x.rule \in {2, 9} -> "remove" [] x.rule = 3 -> "add" [] x.rule = 5 -> "move"
             /\ x.kind = "add" => x.place = "runtime" /\ x.name \in Imported(a) \ Declared(a)
             /\ x.kind = "move" => /\ FileOf[x.place] = "pyproject.toml" /\ x.name \in MisplacedNames(a)
                                   /\ SitesOf(a, x.name) = {Site(x)}
             /\ x.kind # "add" => Site(x) \in SitesOf(a, x.name)
             /\ x.rule = 2 => x.name \in UnusedNames(a)
             /\ x.rule = 9 => Site(x) \in Removable(a, x.name)
<1> DEFINE x == FixFor(a, i)
<1>1. PICK c \in Candidates(a) : i.rule = c.rule /\ i.name = c.name
                                 /\ i.confidence = Lowered(Gaps(a), c).confidence
  BY FindingFacts
<1>2. c.confidence = Certain
  <2>1. i.confidence = Certain /\ i.confidence <= c.confidence /\ c.confidence \in Confidences
    BY <1>1, LoweredFacts, CandidateFacts DEF HasFix
  <2> QED
    BY <2>1 DEF Confidences, Certain, Likely, Maybe
<1>3. i.rule \in Rules
  BY <1>1, CandidateFacts
<1>4. \A n : \A s \in SitesOf(a, n) :
         s = <<s[1], s[2]>> /\ s[1] \in Places /\ s[2] \in Nat /\ n \in STRING
  BY SitesOfFacts, LineFacts
<1>5. \A rule \in Rules : \A n : \A s \in SitesOf(a, n) :
         LET r == RemoveDependency(rule, n, s)
         IN  /\ r \in Edits /\ r.kind = "remove" /\ r.name = n /\ r.rule = rule /\ Site(r) = s
             /\ r.spec # "unread"
  <2> SUFFICES ASSUME NEW rule \in Rules, NEW n, NEW s \in SitesOf(a, n)
               PROVE  LET r == RemoveDependency(rule, n, s)
                      IN  /\ r \in Edits /\ r.kind = "remove" /\ r.name = n /\ r.rule = rule
                          /\ Site(r) = s /\ r.spec # "unread"
    OBVIOUS
  <2>1. s = <<s[1], s[2]>> /\ s[1] \in Places /\ s[2] \in Nat /\ n \in STRING
    BY <1>4
  <2>2. RemoveDependency(rule, n, s) =
          [kind |-> "remove", rule |-> rule, name |-> n, spec |-> "any", place |-> s[1], index |-> s[2]]
    BY DEF RemoveDependency
  <2> QED
    BY <2>1, <2>2, ProjectsAssumption DEF Edits, Site
<1>6. CASE i.rule = 2
  <2>1. i.name \in UnusedNames(a) /\ i.name \in Declared(a)
    BY <1>1, <1>6, CandidateFacts DEF UnusedNames
  <2>2. x = RemoveDependency(2, i.name, UnusedAt(a, i.name)) /\ UnusedAt(a, i.name) \in SitesOf(a, i.name)
    BY <1>6, <2>1, UnusedExists DEF FixFor
  <2> QED
    BY <1>5, <1>6, <2>1, <2>2 DEF Rules
<1>7. CASE i.rule = 9
  <2>1. Removable(a, i.name) # {}
    BY <1>1, <1>2, <1>7, CandidateFacts
  <2>2. DuplicateToRemove(a, i.name) \in Removable(a, i.name)
    BY <2>1, DuplicateExists
  <2>3. DuplicateToRemove(a, i.name) \in SitesOf(a, i.name)
    BY <2>2 DEF Removable
  <2>4. x = RemoveDependency(9, i.name, DuplicateToRemove(a, i.name))
    BY <1>7 DEF FixFor
  <2> QED
    BY <1>5, <1>7, <2>2, <2>3, <2>4 DEF Rules
<1>8. CASE i.rule = 3
  <2>1. PICK m \in a.imports : i.name = m[1] /\ m[1] \notin Declared(a)
    BY <1>1, <1>8, CandidateFacts
  <2>2. i.name \in STRING /\ i.name \in Imported(a) \ Declared(a)
    BY <2>1 DEF Imported
  <2>3. x = AddMissingDependency(i.name)
    BY <1>8 DEF FixFor
  <2> QED
    BY <1>8, <2>2, <2>3, ProjectsAssumption DEF AddMissingDependency, Edits, Rules, Places
<1>9. CASE i.rule = 5
  <2>1. i.name \in MisplacedNames(a) /\ IsMovable(a, i.name)
    BY <1>1, <1>9, CandidateFacts DEF HasFix
  <2>2. PICK s \in SitesOf(a, i.name) : SitesOf(a, i.name) = {s} /\ FileOf[s[1]] = "pyproject.toml"
    BY <2>1 DEF IsMovable
  <2>3. MoveToRuntime(a, i.name) =
          [kind |-> "move", rule |-> 5, name |-> i.name, spec |-> EntryAt(a, s).spec,
           place |-> s[1], index |-> s[2]]
    BY <2>2 DEF MoveToRuntime
  <2>4. x = MoveToRuntime(a, i.name)
    BY <1>9 DEF FixFor
  <2>5. EntryAt(a, s).spec \in Specs
    BY SitesOfFacts
  <2>6. Readable(EntryAt(a, s))
    BY SitesOfFacts
  <2> QED
    BY <1>4, <1>9, <2>1, <2>2, <2>3, <2>4, <2>5, <2>6 DEF Edits, Rules, Site, Readable
<1> QED
  BY <1>3, <1>6, <1>7, <1>8, <1>9 DEF Rules

-----------------------------------------------------------------------------
(* What an edit does to a document.                                        *)
LEMMA DocumentFacts ==
  ASSUME NEW d \in Documents, NEW p \in Places
  PROVE  /\ DOMAIN d = Places /\ d[p] \in Seq(Entries) /\ Len(d[p]) \in Nat
         /\ DOMAIN d[p] = 1 .. Len(d[p]) /\ \A i \in DOMAIN d[p] : d[p][i] \in Entries
         /\ RangeOf(d[p]) \subseteq Entries
<1>1. DOMAIN d = Places /\ d[p] \in Seq(Entries)
  BY DEF Documents
<1> QED
  BY <1>1, RangeFacts

LEMMA RemoveFacts ==
  ASSUME NEW d \in Documents, NEW x \in Edits, NamesTarget(d, x)
  PROVE  LET new == RemoveEntry(d, x)
         IN  /\ new \in Documents
             /\ \A p \in Places : p # x.place => new[p] = d[p]
             /\ new[x.place] = WithoutEntry(d[x.place], x.index)
             /\ x.place \in Places /\ x.index \in DOMAIN d[x.place] /\ d[x.place] \in Seq(Entries)
<1>1. x.place \in Places /\ x.index \in DOMAIN d[x.place] /\ d[x.place] \in Seq(Entries)
  BY DEF Edits, NamesTarget, Documents
<1>2. WithoutEntry(d[x.place], x.index) \in Seq(Entries)
  BY <1>1, WithoutFacts
<1> QED
  BY <1>1, <1>2 DEF RemoveEntry, Documents

LEMMA PushFacts ==
  ASSUME NEW d \in Documents, NEW x \in Edits
  PROVE  LET new == PushRuntime(d, x)
         IN  /\ new \in Documents /\ NewEntry(x) \in Entries
             /\ \A p \in Places : p # "runtime" => new[p] = d[p]
             /\ new["runtime"] = IF x.name \in NamesIn(d["runtime"]) THEN d["runtime"]
                                 ELSE Append(d["runtime"], NewEntry(x))
             /\ x.spec # "unread" => x.name \in NamesIn(new["runtime"])
             /\ "runtime" \in Places /\ d["runtime"] \in Seq(Entries)
<1>1. "runtime" \in Places /\ d["runtime"] \in Seq(Entries) /\ DOMAIN d = Places
  BY DEF Places, Documents
<1>2. NewEntry(x) \in Entries
  BY DEF NewEntry, Edits, Entries, Rules
<1>3. CASE x.name \in NamesIn(d["runtime"])
  BY <1>1, <1>2, <1>3 DEF PushRuntime
<1>4. CASE x.name \notin NamesIn(d["runtime"])
  <2>1. PushRuntime(d, x) = [d EXCEPT !["runtime"] = Append(d["runtime"], NewEntry(x))]
    BY <1>4 DEF PushRuntime
  <2>2. Append(d["runtime"], NewEntry(x)) \in Seq(Entries)
        /\ NewEntry(x) \in RangeOf(Append(d["runtime"], NewEntry(x)))
    BY <1>1, <1>2, AppendFacts
  <2>3. PushRuntime(d, x) \in Documents
    BY <2>1, <2>2 DEF Documents
  <2>4. PushRuntime(d, x)["runtime"] = Append(d["runtime"], NewEntry(x))
        /\ \A p \in Places : p # "runtime" => PushRuntime(d, x)[p] = d[p]
    BY <1>1, <2>1
  <2>5. x.spec # "unread" => x.name \in NamesIn(Append(d["runtime"], NewEntry(x)))
    BY <2>2 DEF NamesIn, NewEntry, Readable
  <2> QED
    BY <1>1, <1>2, <1>4, <2>3, <2>4, <2>5
<1> QED
  BY <1>3, <1>4

LEMMA EditedTyped ==
  ASSUME NEW d \in Documents, NEW x \in Edits, x.kind # "add" => NamesTarget(d, x)
  PROVE  /\ Edited(d, x) \in Documents
         /\ x.kind = "remove" => Edited(d, x) = RemoveEntry(d, x)
         /\ x.kind = "move" => Edited(d, x) = PushRuntime(RemoveEntry(d, x), x)
                               /\ RemoveEntry(d, x) \in Documents
         /\ x.kind = "add" => Edited(d, x) = PushRuntime(d, x)
         /\ x.kind \in {"remove", "move", "add"}
<1>1. x.kind \in {"remove", "move", "add"}
  BY DEF Edits
<1> QED
  BY <1>1, RemoveFacts, PushFacts DEF Edited

(* Under any place, an edit takes at most the one entry it names away, and *)
(* adds at most the one it is for.                                         *)
LEMMA EditedRanges ==
  ASSUME NEW d \in Documents, NEW x \in Edits, x.kind # "add" => NamesTarget(d, x), NEW p \in Places
  PROVE  /\ \A e \in RangeOf(Edited(d, x)[p]) :
               e \in RangeOf(d[p]) \/ (p = "runtime" /\ x.kind # "remove" /\ e = NewEntry(x))
         /\ \A e \in RangeOf(d[p]) :
               e \in RangeOf(Edited(d, x)[p])
               \/ (p = x.place /\ x.kind # "add" /\ e = d[p][x.index] /\ e.name = x.name)
<1>1. ASSUME NEW f \in Documents
      PROVE  /\ RangeOf(f[p]) \subseteq RangeOf(PushRuntime(f, x)[p])
             /\ \A e \in RangeOf(PushRuntime(f, x)[p]) :
                   e \in RangeOf(f[p]) \/ (p = "runtime" /\ e = NewEntry(x))
  BY PushFacts, AppendFacts
<1>2. ASSUME NamesTarget(d, x)
      PROVE  /\ RangeOf(RemoveEntry(d, x)[p]) \subseteq RangeOf(d[p])
             /\ \A e \in RangeOf(d[p]) : e \in RangeOf(RemoveEntry(d, x)[p])
                   \/ (p = x.place /\ e = d[p][x.index] /\ e.name = x.name)
  <2>1. CASE p # x.place
    BY <1>2, <2>1, RemoveFacts
  <2>2. CASE p = x.place
    <3>1. /\ RemoveEntry(d, x)[p] = WithoutEntry(d[p], x.index) /\ d[p] \in Seq(Entries)
          /\ x.index \in DOMAIN d[p]
      BY <1>2, <2>2, RemoveFacts
    <3>2. RangeOf(RemoveEntry(d, x)[p]) = {d[p][k] : k \in DOMAIN d[p] \ {x.index}}
      BY <3>1, WithoutFacts
    <3>3. d[p][x.index].name = x.name
      BY <1>2, <2>2 DEF NamesTarget
    <3> QED
      BY <2>2, <3>2, <3>3 DEF RangeOf
  <2> QED
    BY <2>1, <2>2
<1>3. CASE x.kind = "remove"
  BY <1>2, <1>3, EditedTyped
<1>4. CASE x.kind = "move"
  <2>1. Edited(d, x) = PushRuntime(RemoveEntry(d, x), x) /\ RemoveEntry(d, x) \in Documents
    BY <1>4, EditedTyped
  <2> QED
    BY <1>1, <1>2, <1>4, <2>1
<1>5. CASE x.kind = "add"
  BY <1>1, <1>5, EditedTyped
<1> QED
  BY <1>3, <1>4, <1>5, EditedTyped

-----------------------------------------------------------------------------
(* The findings a run goes by, and the plan that follows from them.        *)
Expected ==
  IF options.baseline = "use" THEN Unrecorded(Prints, Findings(Analysis)) ELSE Findings(Analysis)

Failed == pc = "done" /\ exit = "error"

IssuesInv ==
  /\ pc \in Phases
  /\ pc = "analyse" => issues = {} /\ plan = {}
  /\ Failed => plan = {}
  /\ pc \in {"record", "install"} => options.baseline = "update" /\ plan = {}
  /\ pc # "analyse" /\ ~ Failed => issues = Expected
  /\ plan \subseteq PlanFixes(Analysis, issues)

(* The steps that change neither the command nor what it goes by.          *)
Applying ==
  \/ WriteBaseline \/ WriteTemp \/ Finish \/ Crash
  \/ \E x \in plan : ApplyOne(x) \/ ReadOrWriteFails(x) \/ RenameFails(x)
  \/ \E p \in Places : UserInserts(p)

LEMMA NextIs ==
  Next <=> \/ Applying \/ Analyse \/ InstallBaseline \/ BaselineFails \/ RunAgain \/ Settled
BY DEF Next, Progress, Environment, Applying

LEMMA ApplyingFacts ==
  ASSUME Applying
  PROVE  /\ UNCHANGED <<options, loaded, baseline, issues, plan, promised>>
         /\ pc # "analyse" /\ pc' \in Phases \ {"analyse"} /\ pc \in Phases
         /\ pc' \in {"record", "install"} => pc = "record" \/ pc' = pc
         /\ pc' = "done" => exit' # "error" /\ Finish
         /\ ~ Failed
<1>1. CASE WriteBaseline \/ WriteTemp \/ Finish \/ Crash
  BY <1>1 DEF WriteBaseline, WriteTemp, Finish, Crash, doc, found, Phases, Failed, ExitStatus
<1>2. ASSUME NEW x \in plan, ApplyOne(x)
      PROVE  /\ UNCHANGED <<options, loaded, baseline, issues, plan, promised>>
             /\ pc \in {"apply", "rename"} /\ pc' \in {"apply", "write"}
  BY <1>2 DEF ApplyOne, Uncontained, Preview, Refuse, AlreadyThere, ReadAndEdit, Rename, Performing,
              Skip, Succeed, doc, found
<1>3. ASSUME NEW x \in plan, ReadOrWriteFails(x) \/ RenameFails(x)
      PROVE  /\ UNCHANGED <<options, loaded, baseline, issues, plan, promised>>
             /\ pc \in {"apply", "write", "rename"} /\ pc' = "apply"
  BY <1>3 DEF ReadOrWriteFails, RenameFails, Performing, Skip, doc, found
<1>4. ASSUME NEW p \in Places, UserInserts(p)
      PROVE  /\ UNCHANGED <<options, loaded, baseline, issues, plan, promised>>
             /\ pc \in {"apply", "write", "rename"} /\ pc' = pc
  BY <1>4 DEF UserInserts, found
<1> QED
  BY <1>1, <1>2, <1>3, <1>4 DEF Applying, Phases, Failed

LEMMA AnalysisStays ==
  ASSUME UNCHANGED <<options, loaded>>
  PROVE  UNCHANGED Analysis
BY DEF Analysis

LEMMA AnalyseFacts ==
  ASSUME Analyse
  PROVE  /\ UNCHANGED <<options, baseline, applied, skipped, current, temps, exit, promised,
                        budget, inserted>>
         /\ disk' = Tagged(disk) /\ loaded' = disk' /\ text' = disk' /\ pc = "analyse"
         /\ IF options.baseline = "update"
            THEN issues' = Findings(Analysis') /\ plan' = {} /\ pc' = "record"
            ELSE issues' = Expected' /\ plan' = Planned(Analysis', issues') /\ pc' = "apply"
<1>1. [Analysis EXCEPT !.manifest = disk'] = Analysis'
  BY DEF Analysis, Analyse, Load
<1>2. /\ UNCHANGED <<options, baseline, applied, skipped, current, temps, exit, promised,
                     budget, inserted>>
      /\ disk' = Tagged(disk) /\ loaded' = disk' /\ text' = disk' /\ pc = "analyse"
  BY DEF Analyse, Load
<1>3. Prints' = Prints
  BY <1>2 DEF Prints
<1>4. CASE options.baseline = "update"
  BY <1>1, <1>2, <1>4 DEF Analyse
<1>5. CASE options.baseline # "update"
  <2>1. /\ issues' = IF options.baseline = "use" THEN Unrecorded(Prints, Findings(Analysis'))
                                                 ELSE Findings(Analysis')
        /\ plan' = Planned(Analysis', issues') /\ pc' = "apply"
    BY <1>1, <1>5 DEF Analyse
  <2>2. issues' = Expected'
    BY <1>2, <1>3, <2>1 DEF Expected
  <2> QED
    BY <1>2, <1>5, <2>1, <2>2
<1> QED
  BY <1>4, <1>5

LEMMA PlannedFacts ==
  ASSUME NEW a, NEW found_issues
  PROVE  Planned(a, found_issues) \subseteq PlanFixes(a, found_issues)
BY DEF Planned

LEMMA IssuesInit == Init => IssuesInv
BY DEF Init, IssuesInv, Phases, Failed

LEMMA IssuesStep == IssuesInv /\ [Next]_vars => IssuesInv'
<1> SUFFICES ASSUME IssuesInv, [Next]_vars PROVE IssuesInv'
  OBVIOUS
<1>1. CASE Applying
  <2>1. UNCHANGED <<Analysis, Prints>>
    BY <1>1, ApplyingFacts, AnalysisStays DEF Prints
  <2>2. UNCHANGED Expected
    BY <1>1, <2>1, ApplyingFacts DEF Expected
  <2> QED
    BY <1>1, <2>1, <2>2, ApplyingFacts DEF IssuesInv, Failed
<1>2. CASE Analyse
  <2>1. CASE options.baseline = "update"
    <3>1. issues' = Expected'
      BY <1>2, <2>1, AnalyseFacts DEF Expected
    <3> QED
      BY <1>2, <2>1, <3>1, AnalyseFacts DEF IssuesInv, Failed, Phases
  <2>2. CASE options.baseline # "update"
    BY <1>2, <2>2, AnalyseFacts, PlannedFacts DEF IssuesInv, Failed, Phases
  <2> QED
    BY <2>1, <2>2
<1>3. CASE InstallBaseline
  <2>1. /\ UNCHANGED <<options, loaded, issues>> /\ pc = "install" /\ pc' = "apply"
        /\ plan' = Planned(Analysis, issues)
    BY <1>3 DEF InstallBaseline, doc
  <2>2. issues = Findings(Analysis) /\ options.baseline = "update"
    BY <2>1 DEF IssuesInv, Expected, Failed
  <2>3. UNCHANGED Analysis
    BY <2>1, AnalysisStays
  <2>4. issues' = Expected'
    BY <2>1, <2>2, <2>3 DEF Expected
  <2> QED
    BY <2>1, <2>3, <2>4, PlannedFacts DEF IssuesInv, Failed, Phases
<1>4. CASE BaselineFails
  <2>1. UNCHANGED <<issues, plan>> /\ plan = {} /\ pc' = "done" /\ exit' = "error"
    BY <1>4 DEF BaselineFails, found, IssuesInv
  <2> QED
    BY <2>1 DEF IssuesInv, Failed, Phases
<1>5. CASE RunAgain
  BY <1>5 DEF RunAgain, IssuesInv, Failed, Phases
<1>6. CASE UNCHANGED vars
  <2>1. UNCHANGED <<Analysis, Prints>>
    BY <1>6, AnalysisStays DEF Prints, vars
  <2>2. UNCHANGED Expected
    BY <1>6, <2>1 DEF Expected, vars
  <2> QED
    BY <1>6, <2>1, <2>2 DEF IssuesInv, Failed, vars
<1> QED
  BY <1>1, <1>2, <1>3, <1>4, <1>5, <1>6, NextIs DEF Settled

-----------------------------------------------------------------------------
(* Types.                                                                  *)
TypeInv ==
  /\ TypeOK
  /\ pc \in {"record", "install"} => current = {}
  /\ budget \in [faults : Nat, crashes : Nat, edits : Nat] /\ temps \in Int

LEMMA PlanFacts ==
  ASSUME TypeOK, IssuesInv, NEW x \in plan
  PROVE  /\ x \in Edits /\ x.spec # "unread"
         /\ x.kind = CASE x.rule \in {2, 9} -> "remove" [] x.rule = 3 -> "add" [] x.rule = 5 -> "move"
         /\ x.kind = "add" => x.place = "runtime" /\ x.name \in Imported(Analysis) \ Declared(Analysis)
         /\ x.kind = "move" => /\ FileOf[x.place] = "pyproject.toml"
                               /\ x.name \in MisplacedNames(Analysis)
                               /\ SitesOf(Analysis, x.name) = {Site(x)}
         /\ x.kind # "add" => Site(x) \in SitesOf(Analysis, x.name)
         /\ x.rule = 2 => x.name \in UnusedNames(Analysis)
         /\ x.rule = 9 => Site(x) \in Removable(Analysis, x.name)
         /\ \E i \in issues : /\ i \in Findings(Analysis) /\ HasFix(Analysis, i)
                              /\ x = FixFor(Analysis, i) /\ x.name = i.name /\ x.rule = i.rule
<1>1. PICK i \in issues : HasFix(Analysis, i) /\ x = FixFor(Analysis, i)
  BY DEF IssuesInv, PlanFixes
<1>2. i \in Findings(Analysis)
  <2>1. pc # "analyse" /\ ~ Failed
    BY DEF IssuesInv
  <2>2. issues = Expected
    BY <2>1 DEF IssuesInv
  <2> QED
    BY <2>2 DEF Expected, Unrecorded
<1>3. Analysis.manifest \in Documents /\ Analysis.imports \subseteq STRING \X STRING
  BY DEF Analysis, TypeOK, Options
<1> QED
  BY <1>1, <1>2, <1>3, FixFacts

LEMMA TaggedFacts ==
  ASSUME NEW d \in Documents
  PROVE  /\ Tagged(d) \in Documents
         /\ \A p \in Places : /\ DOMAIN Tagged(d)[p] = DOMAIN d[p]
                              /\ \A i \in DOMAIN d[p] :
                                    Tagged(d)[p][i] = [name |-> d[p][i].name, spec |-> d[p][i].spec,
                                                       from |-> <<p, i>>]
<1>1. ASSUME NEW p \in Places
      PROVE  /\ Tagged(d)[p] = [i \in DOMAIN d[p] |-> [name |-> d[p][i].name, spec |-> d[p][i].spec,
                                                       from |-> <<p, i>>]]
             /\ Tagged(d)[p] \in Seq(Entries)
  <2>1. Tagged(d)[p] = [i \in DOMAIN d[p] |-> [name |-> d[p][i].name, spec |-> d[p][i].spec,
                                               from |-> <<p, i>>]]
    BY DEF Tagged
  <2>2. /\ DOMAIN d[p] = 1 .. Len(d[p]) /\ Len(d[p]) \in Nat
        /\ \A i \in DOMAIN d[p] : d[p][i] \in Entries
    BY DocumentFacts
  <2>3. ASSUME NEW i \in 1 .. Len(d[p])
        PROVE  [name |-> d[p][i].name, spec |-> d[p][i].spec, from |-> <<p, i>>] \in Entries
    <3>1. d[p][i] \in Entries /\ i \in Nat
      BY <2>2, <2>3
    <3> QED
      BY <3>1 DEF Entries
  <2>4. Tagged(d)[p] \in [1 .. Len(d[p]) -> Entries]
    BY <2>1, <2>2, <2>3
  <2> QED
    BY <2>1, <2>2, <2>4
<1>2. Tagged(d) = [p \in Places |-> Tagged(d)[p]]
  BY DEF Tagged
<1>3. Tagged(d) \in Documents
  <2> DEFINE t == Tagged(d)
  <2> HIDE DEF t
  <2>1. t = [p \in Places |-> t[p]] /\ \A p \in Places : t[p] \in Seq(Entries)
    BY <1>1, <1>2 DEF t
  <2> QED
    BY <2>1 DEF Documents, t
<1> QED
  BY <1>1, <1>3

LEMMA ReplacedTyped ==
  ASSUME NEW d \in Documents, NEW new \in Documents, NEW file
  PROVE  Replaced(d, new, file) \in Documents
BY DEF Replaced, Documents

(* A step of an edit that is skipped, or that succeeds.                    *)
LEMMA EndOfEdit ==
  ASSUME TypeInv, NEW x \in Pending, Skip(x) \/ Succeed(x),
         Skip(x) => UNCHANGED applied, Succeed(x) => UNCHANGED skipped,
         UNCHANGED <<plan, options, loaded, text, exit>>, exit = "none", disk' \in Documents,
         budget' \in [faults : Nat, crashes : Nat, edits : Nat], temps' \in Int
  PROVE  TypeInv'
<1>1. pc' = "apply" /\ current' = {}
  BY DEF Skip, Succeed
<1>2. applied' \subseteq plan' /\ skipped' \subseteq plan' /\ applied' \cap skipped' = {}
  BY DEF Skip, Succeed, Pending, TypeInv, TypeOK
<1>3. current' \subseteq Pending'
  BY <1>1
<1> QED
  BY <1>1, <1>2, <1>3 DEF TypeInv, TypeOK, Phases

LEMMA NotDoneYet ==
  ASSUME TypeOK, pc # "done"
  PROVE  exit = "none"
BY DEF TypeOK

LEMMA BudgetTyped ==
  ASSUME TypeInv
  PROVE  /\ [budget EXCEPT !.faults = @ + 1] \in [faults : Nat, crashes : Nat, edits : Nat]
         /\ [budget EXCEPT !.crashes = @ + 1] \in [faults : Nat, crashes : Nat, edits : Nat]
         /\ [budget EXCEPT !.edits = @ + 1] \in [faults : Nat, crashes : Nat, edits : Nat]
         /\ temps + 1 \in Int /\ temps - 1 \in Int
BY DEF TypeInv

LEMMA OneEditStep ==
  ASSUME TypeInv, IssuesInv, NEW x \in plan, ApplyOne(x) \/ ReadOrWriteFails(x) \/ RenameFails(x)
  PROVE  TypeInv'
<1>1. TypeOK /\ x \in Edits /\ (x.kind # "add" => Site(x) \in SitesOf(Analysis, x.name))
  BY PlanFacts DEF TypeInv
<1>2. CASE Uncontained(x) \/ Preview(x) \/ Refuse(x) \/ AlreadyThere(x)
  <2>1. /\ x \in Pending /\ pc = "apply" /\ (Skip(x) \/ Succeed(x))
        /\ UNCHANGED <<disk, loaded, text, plan, options, exit, budget, temps>>
        /\ (Skip(x) => UNCHANGED applied) /\ (Succeed(x) => UNCHANGED skipped)
    <3>1. CASE Uncontained(x) \/ Refuse(x)
      BY <3>1 DEF Uncontained, Refuse, Performing, IsNext, doc, Skip, Succeed, Pending
    <3>2. CASE Preview(x) \/ AlreadyThere(x)
      BY <3>2 DEF Preview, AlreadyThere, Performing, IsNext, doc, Skip, Succeed, Pending
    <3> QED
      BY <1>2, <3>1, <3>2
  <2> QED
    BY <1>1, <2>1, EndOfEdit, NotDoneYet DEF TypeInv, TypeOK
<1>3. CASE ReadAndEdit(x)
  <2>1. /\ text' = Edited(disk, x) /\ current' = {x} /\ pc' = "write" /\ x \in Pending
        /\ x.kind # "add" => NamesTarget(disk, x)
        /\ UNCHANGED <<disk, loaded, options, plan, applied, skipped, temps, exit, budget>>
        /\ pc = "apply"
    BY <1>3 DEF ReadAndEdit, Performing, IsNext, Refuses
  <2>2. text' \in Documents
    BY <1>1, <2>1, EditedTyped DEF TypeOK
  <2>3. exit = "none"
    BY <1>1, <2>1, NotDoneYet
  <2> QED
    BY <1>1, <2>1, <2>2, <2>3 DEF TypeInv, TypeOK, Phases, Pending
<1>4. CASE Rename(x)
  <2>1. disk' \in Documents
    BY <1>1, <1>4, ReplacedTyped DEF Rename, TypeOK
  <2>2. /\ x \in Pending /\ pc = "rename" /\ Succeed(x) /\ temps' = temps - 1
        /\ UNCHANGED <<loaded, text, plan, options, exit, budget, skipped>>
    BY <1>1, <1>4 DEF Rename, TypeOK
  <2>3. ~ Skip(x) \/ UNCHANGED applied
    BY <2>2 DEF Skip, Succeed, Pending
  <2> QED
    BY <1>1, <2>1, <2>2, <2>3, EndOfEdit, NotDoneYet, BudgetTyped DEF TypeInv
<1>5. CASE ReadOrWriteFails(x) \/ RenameFails(x)
  <2>1. /\ x \in Pending /\ pc # "done" /\ Skip(x) /\ UNCHANGED <<disk, loaded, text, plan, options, exit, applied>>
        /\ budget' = [budget EXCEPT !.faults = @ + 1] /\ temps' \in {temps, temps - 1}
    BY <1>1, <1>5 DEF ReadOrWriteFails, RenameFails, Performing, IsNext, doc, TypeOK
  <2>2. ~ Succeed(x) \/ UNCHANGED skipped
    BY <2>1 DEF Skip, Succeed, Pending
  <2>3. temps' \in Int /\ budget' \in [faults : Nat, crashes : Nat, edits : Nat] /\ disk' \in Documents
    BY <1>1, <2>1, BudgetTyped DEF TypeInv, TypeOK
  <2> QED
    BY <1>1, <2>1, <2>2, <2>3, EndOfEdit, NotDoneYet
<1> QED
  BY <1>2, <1>3, <1>4, <1>5 DEF ApplyOne

LEMMA InitialProject ==
  ASSUME Init
  PROVE  disk \in Documents /\ options \in Options
BY ProjectsAssumption DEF Init

LEMMA TypeInit == Init => TypeInv
<1> SUFFICES ASSUME Init PROVE TypeInv
  OBVIOUS
<1>1. {disk, loaded, text} \subseteq Documents /\ options \in Options
  BY InitialProject DEF Init
<1> QED
  BY <1>1 DEF Init, TypeInv, TypeOK, Phases, NoBudget, Pending

LEMMA CommandsTyped ==
  ASSUME options \in Options, NEW o \in Commands
  PROVE  /\ o \in Options
         /\ o.imports = options.imports /\ o.unseen = options.unseen /\ o.shared = options.shared
         /\ o.addMissing = options.addMissing /\ o.limits = options.limits
         /\ o.settings \in Laxer
<1>1. options.settings \in Settings /\ Laxer \subseteq Settings /\ options.settings \in Laxer
  BY DEF Options, Settings, Laxer
<1>2. CASE HasRecorded
  <2>1. PICK f \in BOOLEAN, s \in Laxer : o = GoByBaseline(f, s)
    BY <1>2 DEF Commands
  <2> QED
    BY <1>1, <2>1 DEF GoByBaseline, Options
<1>3. CASE ~ HasRecorded
  <2>1. o = [options EXCEPT !.dryRun = FALSE]
    BY <1>3 DEF Commands
  <2> QED
    BY <1>1, <2>1 DEF Options
<1> QED
  BY <1>2, <1>3

LEMMA TypeStep == TypeInv /\ IssuesInv /\ IssuesInv' /\ [Next]_vars => TypeInv'
<1> SUFFICES ASSUME TypeInv, IssuesInv, IssuesInv', [Next]_vars PROVE TypeInv'
  OBVIOUS
<1>1. CASE WriteBaseline \/ WriteTemp \/ Crash
  BY <1>1, BudgetTyped
  DEF WriteBaseline, WriteTemp, Crash, doc, found, TypeInv, TypeOK, Phases, Pending
<1>2. CASE Finish
  BY <1>2 DEF Finish, ExitStatus, doc, found, TypeInv, TypeOK, Phases, Pending
<1>3. ASSUME NEW x \in plan, ApplyOne(x) \/ ReadOrWriteFails(x) \/ RenameFails(x) PROVE TypeInv'
  BY <1>3, OneEditStep
<1>4. ASSUME NEW p \in Places, UserInserts(p) PROVE TypeInv'
  <2>1. disk[p] \in Seq(Entries) /\ disk \in Documents
    BY DocumentFacts DEF TypeInv, TypeOK
  <2> DEFINE e == [name |-> NewName, spec |-> "any", from |-> <<"user", 0>>]
  <2>2. e \in Entries
    BY ProjectsAssumption DEF Entries
  <2>3. <<e>> \o disk[p] \in Seq(Entries)
    BY <2>1, <2>2, PrependFacts
  <2>4. disk' = [disk EXCEPT ![p] = <<e>> \o disk[p]]
    BY <1>4 DEF UserInserts
  <2>5. disk' \in Documents
    <3> DEFINE t == <<e>> \o disk[p]
    <3> HIDE DEF e, t
    <3>1. disk' = [disk EXCEPT ![p] = t] /\ t \in Seq(Entries)
      BY <2>3, <2>4 DEF t
    <3> QED
      BY <2>1, <3>1 DEF Documents
  <2> QED
    BY <1>4, <2>5, BudgetTyped DEF UserInserts, found, TypeInv, TypeOK, Pending
<1>5. CASE Analyse
  <2>1. {disk', loaded', text'} \subseteq Documents
    BY <1>5, AnalyseFacts, TaggedFacts DEF TypeInv, TypeOK
  <2>2. plan = {} /\ applied = {} /\ skipped = {} /\ current = {} /\ exit = "none"
    BY <1>5, AnalyseFacts DEF TypeInv, TypeOK, IssuesInv
  <2>3. applied' = {} /\ skipped' = {} /\ current' = {} /\ pc' \in {"record", "apply"}
    BY <1>5, <2>2, AnalyseFacts
  <2> QED
    BY <1>5, <2>1, <2>2, <2>3, AnalyseFacts DEF TypeInv, TypeOK, Phases
<1>6. CASE InstallBaseline
  <2>1. plan = {} /\ applied = {} /\ skipped = {} /\ current = {} /\ exit = "none" /\ pc' = "apply"
    BY <1>6 DEF InstallBaseline, TypeInv, TypeOK, IssuesInv
  <2> QED
    BY <1>6, <2>1, BudgetTyped DEF InstallBaseline, doc, TypeInv, TypeOK, Phases
<1>7. CASE BaselineFails
  <2>1. plan = {} /\ applied = {} /\ skipped = {} /\ current = {} /\ pc' = "done" /\ exit' = "error"
        /\ UNCHANGED <<plan, applied, skipped, current, options>>
    BY <1>7 DEF BaselineFails, found, TypeInv, TypeOK, IssuesInv
  <2>2. {disk', loaded', text'} \subseteq Documents
    <3>1. CASE pc = "analyse"
      BY <1>7, <3>1, TaggedFacts DEF BaselineFails, Load, TypeInv, TypeOK
    <3>2. CASE pc # "analyse"
      BY <1>7, <3>2 DEF BaselineFails, doc, TypeInv, TypeOK
    <3> QED
      BY <3>1, <3>2
  <2>3. budget' \in [faults : Nat, crashes : Nat, edits : Nat] /\ temps' \in Int
    BY <1>7, BudgetTyped DEF BaselineFails, TypeInv
  <2> QED
    BY <2>1, <2>2, <2>3 DEF TypeInv, TypeOK, Phases
<1>8. CASE RunAgain
  <2>1. options' \in Options
    BY <1>8, CommandsTyped DEF RunAgain, TypeInv, TypeOK
  <2> QED
    BY <1>8, <2>1 DEF RunAgain, doc, TypeInv, TypeOK, Phases
<1>9. CASE UNCHANGED vars
  BY <1>9 DEF vars, TypeInv, TypeOK, Pending
<1> QED
  BY <1>1, <1>2, <1>3, <1>4, <1>5, <1>6, <1>7, <1>8, <1>9, NextIs DEF Applying, Settled

RunInv == TypeInv /\ IssuesInv

THEOREM RunInvariant == Spec => []RunInv
<1>1. Init => RunInv
  BY TypeInit, IssuesInit DEF RunInv
<1>2. RunInv /\ [Next]_vars => RunInv'
  BY TypeStep, IssuesStep DEF RunInv
<1> QED
  BY <1>1, <1>2, PTL DEF Spec

(* What is in progress, planned and written is what the phase calls for.   *)
THEOREM FixTypeCorrect == Spec => []TypeOK
<1>1. RunInv => TypeOK
  BY DEF RunInv, TypeInv
<1> QED
  BY <1>1, RunInvariant, PTL

(* Only a kill leaves temporary files behind (atomic_write).               *)
THEOREM TempsNeedCrash == Spec => []TempsOnlyAfterCrash
<1>1. Init => TempsOnlyAfterCrash
  BY DEF Init, TempsOnlyAfterCrash, NoBudget
<1>2. RunInv /\ TempsOnlyAfterCrash /\ [Next]_vars => TempsOnlyAfterCrash'
  <2> SUFFICES ASSUME RunInv, TempsOnlyAfterCrash, [Next]_vars PROVE TempsOnlyAfterCrash'
    OBVIOUS
  <2>1. temps \in Int /\ budget \in [faults : Nat, crashes : Nat, edits : Nat] /\ budget.crashes \in Nat
    BY DEF RunInv, TypeInv
  <2>2. CASE WriteBaseline \/ WriteTemp \/ Finish \/ Crash
    BY <2>1, <2>2 DEF WriteBaseline, WriteTemp, Finish, Crash, TempsOnlyAfterCrash
  <2>3. ASSUME NEW x \in plan, ApplyOne(x) PROVE TempsOnlyAfterCrash'
    <3>1. CASE Rename(x)
      BY <2>1, <3>1 DEF Rename, Succeed, TempsOnlyAfterCrash
    <3>2. CASE ~ Rename(x)
      BY <2>1, <2>3, <3>2 DEF ApplyOne, Uncontained, Preview, Refuse, AlreadyThere, ReadAndEdit,
                              Performing, Skip, Succeed, TempsOnlyAfterCrash
    <3> QED
      BY <3>1, <3>2
  <2>4. ASSUME NEW x \in plan, ReadOrWriteFails(x) \/ RenameFails(x) PROVE TempsOnlyAfterCrash'
    <3>1. budget'.crashes = budget.crashes /\ pc' = "apply"
      BY <2>1, <2>4 DEF ReadOrWriteFails, RenameFails, Skip
    <3>2. (pc = "rename" /\ temps' = temps - 1) \/ (pc \in {"apply", "write"} /\ temps' = temps)
      BY <2>4 DEF ReadOrWriteFails, RenameFails, Performing
    <3> QED
      BY <2>1, <3>1, <3>2 DEF TempsOnlyAfterCrash
  <2>5. ASSUME NEW p \in Places, UserInserts(p) PROVE TempsOnlyAfterCrash'
    BY <2>1, <2>5 DEF UserInserts, TempsOnlyAfterCrash
  <2>6. CASE Analyse
    BY <2>1, <2>6, AnalyseFacts DEF TempsOnlyAfterCrash
  <2>7. CASE InstallBaseline \/ BaselineFails
    <3>1. budget'.crashes = budget.crashes /\ pc' \in {"apply", "done"}
          /\ (temps' = temps - 1 \/ (pc # "install" /\ temps' = temps /\ pc # "rename"))
      BY <2>1, <2>7 DEF InstallBaseline, BaselineFails
    <3> QED
      BY <2>1, <3>1 DEF TempsOnlyAfterCrash
  <2>8. CASE RunAgain
    BY <2>1, <2>8 DEF RunAgain, TempsOnlyAfterCrash
  <2>9. CASE UNCHANGED vars
    BY <2>9 DEF vars, TempsOnlyAfterCrash
  <2> QED
    BY <2>2, <2>3, <2>4, <2>5, <2>6, <2>7, <2>8, <2>9, NextIs DEF Applying, Settled
<1> QED
  BY <1>1, <1>2, RunInvariant, PTL DEF Spec
-----------------------------------------------------------------------------
(* A line or an extra that could not be read lowers every finding whose    *)
(* edit would declare what it may declare.                                 *)
LEMMA GapLowers ==
  ASSUME NEW a, NEW i \in Findings(a), NEW g \in Gaps(a), Reaches(g, i),
         g.kind \in HintKinds(i.rule) \cup CapKinds(i.rule)
  PROVE  ~ HasFix(a, i)
<1>1. PICK c \in Candidates(a) : /\ i.rule = c.rule /\ i.name = c.name
                                 /\ i.confidence = Lowered(Gaps(a), c).confidence
  BY FindingFacts
<1>2. Reaches(g, c)
  BY <1>1 DEF Reaches
<1>3. g.kind \in KindsReaching(Gaps(a), c) \cap (HintKinds(c.rule) \cup CapKinds(c.rule))
  BY <1>1, <1>2 DEF KindsReaching
<1>4. i.confidence <= Cap(g.kind) /\ i.confidence \in Confidences
  BY <1>1, <1>3, LoweredFacts
<1> QED
  BY <1>4 DEF HasFix, Cap, Confidences, Maybe, Likely, Certain

(* Nothing becomes a runtime dependency that a line or an extra declares   *)
(* already, in a form that could not be read (apply_gaps).                 *)
THEOREM NothingTwice == Spec => []NothingDeclaredTwice
<1>1. RunInv => NothingDeclaredTwice
  <2> SUFFICES ASSUME RunInv, NEW x \in plan, x.kind # "remove", x.name \in UnreadNames
               PROVE  FALSE
    BY DEF NothingDeclaredTwice
  <2>1. TypeOK /\ IssuesInv
    BY DEF RunInv, TypeInv
  <2>2. PICK i \in issues : /\ i \in Findings(Analysis) /\ HasFix(Analysis, i)
                            /\ x.name = i.name /\ x.rule = i.rule
    BY <2>1, PlanFacts
  <2>3. i.rule \in {3, 5}
    <3>1. x.rule \in Rules /\ x.kind = CASE x.rule \in {2, 9} -> "remove" [] x.rule = 3 -> "add"
                                          [] x.rule = 5 -> "move"
      BY <2>1, PlanFacts DEF Edits
    <3> QED
      BY <2>2, <3>1 DEF Rules
  <2>4. CASE \E s \in Lines(Analysis) \ Sites(Analysis) :
               "runtime" \in Contexts(Analysis, s[1]) /\ x.name = EntryAt(Analysis, s).name
    <3>1. [kind |-> "unreadRuntimeLine", name |-> x.name] \in Gaps(Analysis)
      BY <2>4 DEF Gaps, LineGaps
    <3> QED
      BY <2>2, <2>3, <3>1, GapLowers DEF Reaches, HintKinds
  <2>5. CASE \E u \in options.unseen : u.kind = "unknownExtras"
    <3>1. options.unseen \subseteq Gaps(Analysis)
      BY DEF Gaps, Analysis
    <3> QED
      BY <2>2, <2>3, <2>5, <3>1, GapLowers DEF Reaches, CapKinds
  <2> QED
    BY <2>4, <2>5 DEF UnreadNames
<1> QED
  BY <1>1, RunInvariant, PTL

-----------------------------------------------------------------------------
(* What a run finds, another finds that differs only in being stricter.    *)
SameProject(a, b) ==
  /\ a.manifest = b.manifest /\ a.imports = b.imports /\ a.unseen = b.unseen /\ a.shared = b.shared
  /\ b.settings \in Settings
  /\ a.settings \in {b.settings, [b.settings EXCEPT !.strict = FALSE]}

LEMMA SameCandidates ==
  ASSUME NEW a, NEW b, SameProject(a, b)
  PROVE  Candidates(a) \subseteq Candidates(b) /\ Gaps(a) = Gaps(b)
<1>1. /\ a.manifest = b.manifest /\ a.imports = b.imports /\ a.unseen = b.unseen
      /\ a.shared = b.shared /\ (a.settings.strict => b.settings.strict)
  BY DEF SameProject, Settings
<1>2. \A p : Contexts(a, p) = Contexts(b, p)
  BY <1>1 DEF Contexts, LinesContext
<1>3. Lines(a) = Lines(b) /\ \A s : EntryAt(a, s) = EntryAt(b, s)
  BY <1>1 DEF Lines, EntryAt
<1>4. Sites(a) = Sites(b)
  BY <1>3 DEF Sites
<1>5. \A n : SitesOf(a, n) = SitesOf(b, n)
  BY <1>3, <1>4 DEF SitesOf
<1>6. \A n : RuntimeSites(a, n) = RuntimeSites(b, n)
  BY <1>2, <1>5 DEF RuntimeSites
<1>7. Declared(a) = Declared(b) /\ Imported(a) = Imported(b)
  BY <1>1, <1>3, <1>4 DEF Declared, Imported
<1>8. UnusedNames(a) \subseteq UnusedNames(b) /\ MisplacedNames(a) = MisplacedNames(b)
  BY <1>1, <1>6, <1>7 DEF UnusedNames, MisplacedNames
<1>9. \A s, c : RepeatedIn(a, s, c) <=> RepeatedIn(b, s, c)
  BY <1>2, <1>3, <1>5 DEF RepeatedIn
<1>10. \A n : Removable(a, n) = Removable(b, n)
  BY <1>2, <1>5, <1>9 DEF Removable
<1>11. \A n : CoveredByRuntime(a, n) <=> CoveredByRuntime(b, n)
  BY <1>2, <1>3, <1>5, <1>6 DEF CoveredByRuntime
<1>12. \A n : IsDuplicate(a, n) <=> IsDuplicate(b, n)
  BY <1>2, <1>5, <1>9, <1>11 DEF IsDuplicate
<1>13. \A n : DuplicateFinding(a, n) = DuplicateFinding(b, n)
  BY <1>10 DEF DuplicateFinding
<1>14. \A n : FilesImporting(a, n) = FilesImporting(b, n)
  BY <1>1 DEF FilesImporting
<1>15. Candidates(a) \subseteq Candidates(b)
  BY <1>1, <1>7, <1>8, <1>12, <1>13, <1>14 DEF Candidates
<1>16. LineGaps(a) = LineGaps(b)
  BY <1>2, <1>3, <1>4 DEF LineGaps
<1> QED
  BY <1>1, <1>15, <1>16 DEF Gaps

LEMMA LaxerFindsLess ==
  ASSUME NEW a, NEW b, SameProject(a, b), NEW i \in Findings(a)
  PROVE  i \in Findings(b)
<1>1. PICK c \in Candidates(a) : /\ i = Standing(a.settings, Gaps(a), c)
                                 /\ c.rule \notin a.settings.off /\ ~ Silenced(a.settings, i)
                                 /\ i.confidence >= Floor(a.settings) /\ i.rule \in a.settings.rules
                                 /\ i.confidence = Lowered(Gaps(a), c).confidence
  BY FindingFacts
<1>2. c \in Candidates(b) /\ Gaps(a) = Gaps(b)
  BY SameCandidates
<1>3. /\ a.settings.off = b.settings.off /\ a.settings.rules = b.settings.rules
      /\ a.settings.levels = b.settings.levels /\ a.settings.ignored = b.settings.ignored
      /\ a.settings.silent = b.settings.silent /\ a.settings.floor = b.settings.floor
      /\ (a.settings.strict => b.settings.strict)
  BY DEF SameProject, Settings
<1>4. i.confidence \in Confidences
  BY <1>1, LoweredFacts
<1>5. i.confidence >= Floor(b.settings)
  <2>1. CASE b.settings.floor # Unset
    BY <1>1, <1>3, <2>1 DEF Floor
  <2>2. CASE b.settings.floor = Unset
    BY <1>1, <1>3, <1>4, <2>2 DEF Floor, Confidences, Maybe, Likely, Certain
  <2> QED
    BY <2>1, <2>2
<1>6. i = Overridden(b.settings, Lowered(Gaps(b), c)) /\ ~ Silenced(b.settings, i)
  BY <1>1, <1>2, <1>3, SMTT(30) DEF Standing, Overridden, Silenced
<1> QED
  BY <1>1, <1>2, <1>3, <1>5, <1>6 DEF Findings, Reported

(* The analysis of a manifest under settings, in this run's surroundings.  *)
AnalysisOf(d, settings) ==
  [manifest |-> Tagged(d), imports |-> options.imports, unseen |-> options.unseen,
   shared |-> options.shared, settings |-> settings, addMissing |-> options.addMissing]

(* A baseline holds what these settings report of that manifest, and a run *)
(* that reports nothing ends well.                                         *)
BaselineInv ==
  /\ \A b \in baseline : /\ b.under \in Settings
                         /\ b.prints = Recorded(b.under, Findings(AnalysisOf(b.of, b.under)))
  /\ \A b, c \in baseline : b = c
  /\ pc # "analyse" => loaded = Tagged(Stripped(loaded))
  /\ pc = "done" /\ exit # "error" /\ issues = {} => exit = "success"

LEMMA StrippedTagged ==
  ASSUME NEW d
  PROVE  Tagged(Stripped(Tagged(d))) = Tagged(d)
BY DEF Tagged, Stripped

LEMMA AnalysisOfStays ==
  ASSUME options.imports' = options.imports, options.unseen' = options.unseen,
         options.shared' = options.shared, options.addMissing' = options.addMissing,
         NEW d, NEW settings
  PROVE  AnalysisOf(d, settings)' = AnalysisOf(d, settings)
BY DEF AnalysisOf

LEMMA BaselineStays ==
  ASSUME BaselineInv, UNCHANGED baseline, options' = options \/ options' \in Commands, options \in Options
  PROVE  /\ \A b \in baseline' :
              /\ b.under \in Settings
              /\ b.prints = Recorded(b.under, Findings(AnalysisOf(b.of, b.under)))'
         /\ \A b, c \in baseline' : b = c
<1>1. /\ options'.imports = options.imports /\ options'.unseen = options.unseen
      /\ options'.shared = options.shared /\ options'.addMissing = options.addMissing
  BY CommandsTyped
<1>2. ASSUME NEW b \in baseline'
      PROVE  AnalysisOf(b.of, b.under)' = AnalysisOf(b.of, b.under)
  BY <1>1, AnalysisOfStays
<1> QED
  BY <1>2 DEF BaselineInv

LEMMA BaselineStep == RunInv /\ BaselineInv /\ [Next]_vars => BaselineInv'
<1> SUFFICES ASSUME RunInv, BaselineInv, [Next]_vars PROVE BaselineInv'
  OBVIOUS
<1>1. TypeOK /\ IssuesInv /\ options \in Options
  BY DEF RunInv, TypeInv, TypeOK
<1>2. CASE Applying
  <2>1. ASSUME Finish, issues = {} PROVE exit' = "success"
    BY <2>1 DEF Finish, ExitStatus
  <2>2. UNCHANGED <<options, loaded, baseline, issues>> /\ pc # "analyse" /\ (pc' = "done" => Finish)
    BY <1>2, ApplyingFacts
  <2>3. (loaded = Tagged(Stripped(loaded)))'
    BY <2>2 DEF BaselineInv, Tagged, Stripped
  <2> QED
    BY <1>1, <2>1, <2>2, <2>3, BaselineStays DEF BaselineInv
<1>3. CASE Analyse
  <2>1. /\ UNCHANGED <<options, baseline>> /\ pc' # "done"
        /\ loaded' = Tagged(disk)
    BY <1>3, AnalyseFacts, SMTT(30)
  <2>2. (loaded = Tagged(Stripped(loaded)))'
    BY <2>1, StrippedTagged DEF Tagged, Stripped
  <2> QED
    BY <1>1, <2>1, <2>2, BaselineStays DEF BaselineInv
<1>4. CASE InstallBaseline
  <2>1. /\ UNCHANGED <<options, loaded, issues>> /\ pc = "install" /\ pc' = "apply"
        /\ baseline' = {[prints |-> Recorded(options.settings, issues), of |-> Stripped(loaded),
                         under |-> options.settings]}
    BY <1>4 DEF InstallBaseline, doc
  <2>2. issues = Findings(Analysis)
    BY <1>1, <2>1 DEF IssuesInv, Expected, Failed
  <2>3. loaded = Tagged(Stripped(loaded))
    BY <2>1 DEF BaselineInv
  <2>4. AnalysisOf(Stripped(loaded), options.settings) = Analysis
    BY <2>3 DEF AnalysisOf, Analysis
  <2>5. AnalysisOf(Stripped(loaded), options.settings)' = AnalysisOf(Stripped(loaded), options.settings)
    BY <2>1 DEF AnalysisOf, Tagged, Stripped
  <2>6. options.settings \in Settings
    BY <1>1 DEF Options
  <2>7. ASSUME NEW b \in baseline'
        PROVE  /\ b.under = options.settings /\ b.of = Stripped(loaded)
               /\ b.prints = Recorded(options.settings, Findings(Analysis))
    BY <2>1, <2>2, <2>7
  <2>8. ASSUME NEW b \in baseline'
        PROVE  AnalysisOf(b.of, b.under)' = Analysis
    BY <2>1, <2>4, <2>7, SMTT(30) DEF AnalysisOf
  <2>9. (loaded = Tagged(Stripped(loaded)))'
    BY <2>1, <2>3 DEF Tagged, Stripped
  <2>10. \A b, c \in baseline' : b = c
    BY <2>1
  <2> QED
    BY <2>1, <2>6, <2>7, <2>8, <2>9, <2>10 DEF BaselineInv
<1>5. CASE BaselineFails
  <2>1. UNCHANGED <<options, baseline>> /\ exit' = "error"
    BY <1>5 DEF BaselineFails, found
  <2>2. (loaded = Tagged(Stripped(loaded)))'
    <3>1. CASE pc = "analyse"
      <4>1. loaded' = Tagged(disk)
        BY <1>5, <3>1 DEF BaselineFails, Load
      <4> QED
        BY <4>1, StrippedTagged DEF Tagged, Stripped
    <3>2. CASE pc # "analyse"
      <4>1. loaded' = loaded /\ loaded = Tagged(Stripped(loaded))
        BY <1>5, <3>2 DEF BaselineFails, doc, BaselineInv
      <4> QED
        BY <4>1 DEF Tagged, Stripped
    <3> QED
      BY <3>1, <3>2
  <2> QED
    BY <1>1, <2>1, <2>2, BaselineStays DEF BaselineInv
<1>6. CASE RunAgain
  <2>1. UNCHANGED baseline /\ options' \in Commands /\ pc' = "analyse"
    BY <1>6 DEF RunAgain
  <2> QED
    BY <1>1, <2>1, BaselineStays DEF BaselineInv
<1>7. CASE UNCHANGED vars
  <2>1. UNCHANGED <<options, loaded, baseline, issues, pc, exit>>
    BY <1>7 DEF vars
  <2>2. (loaded = Tagged(Stripped(loaded)))' <=> loaded = Tagged(Stripped(loaded))
    BY <2>1 DEF Tagged, Stripped
  <2> QED
    BY <1>1, <2>1, <2>2, BaselineStays DEF BaselineInv
<1> QED
  BY <1>2, <1>3, <1>4, <1>5, <1>6, <1>7, NextIs DEF Settled

(* A run that goes by a baseline recorded of these manifests, with the same*)
(* settings or less strictly, reports nothing (apply_baseline_options).    *)
THEOREM RecordedIsClean == Spec => []RecordedRunIsClean
<1>1. Init => BaselineInv
  BY DEF Init, BaselineInv
<1>2. RunInv /\ BaselineInv => RecordedRunIsClean
  <2> SUFFICES ASSUME RunInv, BaselineInv, NEW b \in baseline,
                      pc = "done", exit # "error", options.baseline = "use", b.of = Stripped(loaded),
                      options.settings \in {b.under, [b.under EXCEPT !.strict = FALSE]}
               PROVE  issues = {} /\ exit = "success"
    BY DEF RecordedRunIsClean
  <2>1. issues = Unrecorded(Prints, Findings(Analysis))
    BY DEF RunInv, IssuesInv, Failed, Expected
  <2>2. Prints = Recorded(b.under, Findings(AnalysisOf(b.of, b.under)))
    <3>1. baseline = {b} /\ b.prints = Recorded(b.under, Findings(AnalysisOf(b.of, b.under)))
      BY DEF BaselineInv
    <3> QED
      BY <3>1 DEF Prints
  <2>3. SameProject(Analysis, AnalysisOf(b.of, b.under))
    <3>1. b.under \in Settings /\ loaded = Tagged(b.of)
      BY DEF BaselineInv
    <3> QED
      BY <3>1 DEF SameProject, Analysis, AnalysisOf
  <2>4. \A i \in Findings(Analysis) : Fingerprint(i) \in Prints
    BY <2>2, <2>3, LaxerFindsLess DEF Recorded
  <2>5. issues = {}
    BY <2>1, <2>4 DEF Unrecorded
  <2> QED
    BY <2>5 DEF BaselineInv
<1> QED
  BY <1>1, <1>2, BaselineStep, RunInvariant, PTL DEF Spec

-----------------------------------------------------------------------------
(* What no edit names stays, whatever the user inserts meanwhile: in the   *)
(* manifests, and in the text that is about to replace one.                *)
NamesOf(edits) == {x.name : x \in edits}

Keeps(before, names, places, d, p) ==
  /\ \A i \in DOMAIN before[p] : before[p][i].name \notin names => before[p][i] \in RangeOf(d[p])
  /\ \A e \in RangeOf(d[p]) : e.from[1] = "user" => e.name = NewName
  /\ NewName \notin names /\ p \in places => \E e \in RangeOf(d[p]) : e.from[1] = "user"

KeepsInv ==
  /\ inserted \subseteq Places
  /\ pc \in {"analyse", "record", "install"} => inserted = {}
  /\ pc # "analyse" => \A p \in Places : Keeps(loaded, NamesOf(plan), inserted, disk, p)
  /\ pc # "analyse" => \A x \in current : \A p \in Places :
       FileOf[p] = FileOf[x.place] => Keeps(loaded, NamesOf(plan), inserted, text, p)

LEMMA EditKeeps ==
  ASSUME NEW d \in Documents, NEW x \in Edits, x.kind # "add" => NamesTarget(d, x),
         NEW before, NEW names, x.name \in names, NEW places,
         NEW p \in Places, Keeps(before, names, places, d, p)
  PROVE  Keeps(before, names, places, Edited(d, x), p)
<1> DEFINE new == Edited(d, x)
<1>1. /\ \A e \in RangeOf(new[p]) : e \in RangeOf(d[p]) \/ e = NewEntry(x)
      /\ \A e \in RangeOf(d[p]) : e \in RangeOf(new[p]) \/ e.name = x.name
  BY EditedRanges
<1>2. NewEntry(x).from[1] = "fix"
  BY DEF NewEntry
<1> HIDE DEF new
<1>3. \A i \in DOMAIN before[p] : before[p][i].name \notin names => before[p][i] \in RangeOf(new[p])
  BY <1>1 DEF Keeps
<1>4. \A e \in RangeOf(new[p]) : e.from[1] = "user" => e.name = NewName
  BY <1>1, <1>2 DEF Keeps
<1>5. NewName \notin names /\ p \in places => \E e \in RangeOf(new[p]) : e.from[1] = "user"
  BY <1>1 DEF Keeps
<1> QED
  BY <1>3, <1>4, <1>5 DEF Keeps, new

(* What was just loaded holds nothing of the user.                         *)
LEMMA LoadKeeps ==
  ASSUME NEW d \in Documents, NEW p \in Places, NEW names
  PROVE  Keeps(Tagged(d), names, {}, Tagged(d), p)
<1> DEFINE t == Tagged(d)[p]
<1>1. ASSUME NEW i \in DOMAIN t PROVE t[i].from[1] = p
  <2>1. t[i] = [name |-> d[p][i].name, spec |-> d[p][i].spec, from |-> <<p, i>>]
    BY <1>1, TaggedFacts
  <2> QED
    BY <2>1
<1>2. p # "user"
  BY DEF Places
<1> HIDE DEF t
<1>3. \A e \in RangeOf(t) : e.from[1] # "user"
  BY <1>1, <1>2 DEF RangeOf
<1>4. \A i \in DOMAIN t : t[i] \in RangeOf(t)
  BY DEF RangeOf
<1> QED
  BY <1>3, <1>4 DEF Keeps, t

LEMMA InsertKeeps ==
  ASSUME NEW d \in Documents, NEW p \in Places, NEW before, NEW names, NEW places, NEW more,
         Keeps(before, names, places, d, p), more = places \/ more = places \cup {p},
         NEW e \in Entries, e.name = NewName, e.from[1] = "user"
  PROVE  Keeps(before, names, more, [d EXCEPT ![p] = <<e>> \o @], p)
<1> DEFINE new == <<e>> \o d[p]
<1>1. d[p] \in Seq(Entries) /\ p \in DOMAIN d
  BY DocumentFacts
<1>2. RangeOf(new) = RangeOf(d[p]) \cup {e}
  BY <1>1, PrependFacts
<1>3. [d EXCEPT ![p] = <<e>> \o @][p] = new
  BY <1>1
<1> HIDE DEF new
<1> QED
  BY <1>2, <1>3 DEF Keeps

LEMMA KeepsStep == RunInv /\ KeepsInv /\ [Next]_vars => KeepsInv'
<1> SUFFICES ASSUME RunInv, KeepsInv, [Next]_vars PROVE KeepsInv'
  OBVIOUS
<1>1. /\ TypeOK /\ IssuesInv /\ disk \in Documents /\ text \in Documents /\ current \subseteq plan
      /\ (pc = "apply" => current = {}) /\ (pc \in {"record", "install", "analyse"} => current = {} /\ plan = {})
  BY DEF RunInv, TypeInv, TypeOK, Pending, IssuesInv
<1>2. CASE WriteBaseline \/ WriteTemp \/ Finish \/ Crash
  <2>1. UNCHANGED <<disk, text, loaded, plan, inserted, current>> /\ pc # "analyse"
        /\ (pc' \in {"analyse", "record", "install"} => pc \in {"analyse", "record", "install"})
    BY <1>2 DEF WriteBaseline, WriteTemp, Finish, Crash, doc
  <2> QED
    BY <2>1 DEF KeepsInv
<1>3. ASSUME NEW x \in plan, ApplyOne(x) \/ ReadOrWriteFails(x) \/ RenameFails(x) PROVE KeepsInv'
  <2>1. /\ x \in Edits /\ x.name \in NamesOf(plan)
    BY <1>1, <1>3, PlanFacts DEF NamesOf
  <2>2. UNCHANGED <<loaded, plan, inserted>> /\ pc # "analyse" /\ pc' \in {"apply", "write"}
    BY <1>3 DEF ApplyOne, Uncontained, Preview, Refuse, AlreadyThere, ReadAndEdit, Rename,
                ReadOrWriteFails, RenameFails, Performing, Skip, Succeed, doc
  <2>3. CASE ReadAndEdit(x)
    <3>1. text' = Edited(disk, x) /\ current' = {x} /\ disk' = disk
          /\ (x.kind # "add" => NamesTarget(disk, x))
      BY <2>3 DEF ReadAndEdit, Refuses
    <3>2. \A p \in Places : Keeps(loaded, NamesOf(plan), inserted, disk, p)
      BY <2>2 DEF KeepsInv
    <3>3. \A p \in Places : Keeps(loaded, NamesOf(plan), inserted, text', p)
      BY <1>1, <2>1, <3>1, <3>2, EditKeeps
    <3> QED
      BY <2>2, <3>1, <3>2, <3>3 DEF KeepsInv
  <2>4. CASE Rename(x)
    <3>1. disk' = Replaced(disk, text, FileOf[x.place]) /\ current' = {} /\ x \in current
      BY <2>4 DEF Rename, Succeed
    <3>2. ASSUME NEW p \in Places PROVE Keeps(loaded, NamesOf(plan), inserted, disk', p)
      <4>1. disk'[p] = IF FileOf[p] = FileOf[x.place] THEN text[p] ELSE disk[p]
        BY <3>1 DEF Replaced
      <4> QED
        BY <2>2, <3>1, <4>1 DEF KeepsInv, Keeps
    <3> QED
      BY <2>2, <3>1, <3>2 DEF KeepsInv
  <2>5. CASE ~ ReadAndEdit(x) /\ ~ Rename(x)
    <3>1. disk' = disk /\ current' = {}
      BY <1>3, <2>5 DEF ApplyOne, Uncontained, Preview, Refuse, AlreadyThere, ReadOrWriteFails,
                        RenameFails, Skip, Succeed, doc
    <3> QED
      BY <2>2, <3>1 DEF KeepsInv
  <2> QED
    BY <2>3, <2>4, <2>5
<1>4. ASSUME NEW q \in Places, UserInserts(q) PROVE KeepsInv'
  <2> DEFINE e == [name |-> NewName, spec |-> "any", from |-> <<"user", 0>>]
  <2>1. /\ disk' = [disk EXCEPT ![q] = <<e>> \o @] /\ pc' = pc /\ pc \in {"apply", "write", "rename"}
        /\ UNCHANGED <<loaded, text, plan, current>>
        /\ inserted' = IF \E x \in current : FileOf[x.place] = FileOf[q]
                       THEN inserted ELSE inserted \cup {q}
    BY <1>4 DEF UserInserts
  <2>2. e \in Entries /\ e.name = NewName /\ e.from[1] = "user"
    BY ProjectsAssumption DEF Entries
  <2> HIDE DEF e
  <2>3. Keeps(loaded, NamesOf(plan), inserted', disk', q)
    BY <1>1, <2>1, <2>2, InsertKeeps DEF KeepsInv
  <2>4. ASSUME NEW p \in Places, p # q PROVE Keeps(loaded, NamesOf(plan), inserted', disk', p)
    <3>1. disk'[p] = disk[p] /\ (p \in inserted' => p \in inserted)
      BY <1>1, <2>1, <2>4
    <3> QED
      BY <2>1, <3>1 DEF KeepsInv, Keeps
  <2>5. ASSUME NEW x \in current, NEW p \in Places, FileOf[p] = FileOf[x.place]
        PROVE  Keeps(loaded, NamesOf(plan), inserted', text, p)
    <3>1. p \in inserted' => p \in inserted
      BY <2>1, <2>5
    <3> QED
      BY <2>1, <2>5, <3>1 DEF KeepsInv, Keeps
  <2> QED
    BY <2>1, <2>3, <2>4, <2>5 DEF KeepsInv
<1>5. CASE Analyse \/ (BaselineFails /\ pc = "analyse")
  <2>1. /\ disk' = Tagged(disk) /\ loaded' = Tagged(disk) /\ UNCHANGED <<inserted, current>> /\ pc = "analyse"
    BY <1>5, AnalyseFacts DEF BaselineFails, Load
  <2>2. inserted' = {} /\ current' = {}
    BY <1>1, <2>1 DEF KeepsInv
  <2> QED
    BY <1>1, <2>1, <2>2, LoadKeeps DEF KeepsInv
<1>6. CASE InstallBaseline \/ (BaselineFails /\ pc # "analyse")
  <2>1. UNCHANGED <<disk, loaded, inserted, current>> /\ pc \in {"record", "install"}
    BY <1>6 DEF InstallBaseline, BaselineFails, doc
  <2>2. current' = {} /\ inserted' = {} /\ NamesOf(plan) = {}
    BY <1>1, <2>1 DEF KeepsInv, NamesOf
  <2>3. \A p \in Places : Keeps(loaded, NamesOf(plan'), {}, disk, p)
    BY <2>1, <2>2 DEF KeepsInv, Keeps
  <2> QED
    BY <2>1, <2>2, <2>3 DEF KeepsInv
<1>7. CASE RunAgain
  BY <1>7 DEF RunAgain, KeepsInv
<1>8. CASE UNCHANGED vars
  BY <1>8 DEF vars, KeepsInv
<1> QED
  BY <1>2, <1>3, <1>4, <1>5, <1>6, <1>7, <1>8, NextIs DEF Applying, Settled

(* A user edits the manifests while --fix runs: what no edit names keeps   *)
(* its declarations, and what the user wrote survives (remove_array_index).*)
THEOREM BystandersLive == Spec => []BystandersSurvive
<1>1. Init => KeepsInv
  BY DEF Init, KeepsInv
<1>2. KeepsInv => BystandersSurvive
  BY DEF KeepsInv, Keeps, BystandersSurvive, NamesOf, Gone
<1> QED
  BY <1>1, <1>2, KeepsStep, RunInvariant, PTL DEF Spec

-----------------------------------------------------------------------------
(* Positions.  No two places of a file hold one entry the analysis read,   *)
(* and an edit moves nothing that lies before the entry it takes away.     *)
Apart(s) == \A j, k \in DOMAIN s : s[j] = s[k] /\ s[j].from[1] \in Places => j = k

LEMMA WithoutApart ==
  ASSUME NEW S, NEW s \in Seq(S), NEW i \in DOMAIN s, Apart(s)
  PROVE  LET t == WithoutEntry(s, i)
         IN  /\ Apart(t)
             /\ s[i].from[1] \in Places => s[i] \notin RangeOf(t)
             /\ \A j \in DOMAIN s : j < i => j \in DOMAIN t /\ t[j] = s[j]
<1> DEFINE t == WithoutEntry(s, i)
<1>1. Len(s) \in Nat /\ i \in 1 .. Len(s) /\ DOMAIN s = 1 .. Len(s)
  BY RangeFacts
<1>2. t \in Seq(S) /\ Len(t) = Len(s) - 1
      /\ (\A k \in 1 .. Len(s) - 1 : t[k] = IF k < i THEN s[k] ELSE s[k + 1])
      /\ RangeOf(t) = {s[k] : k \in DOMAIN s \ {i}}
  BY WithoutFacts
<1>3. DOMAIN t = 1 .. Len(s) - 1
  BY <1>2, RangeFacts
<1> HIDE DEF t
<1>4. ASSUME NEW j \in DOMAIN t, NEW k \in DOMAIN t, t[j] = t[k], t[j].from[1] \in Places
      PROVE  j = k
  <2> DEFINE At(l) == IF l < i THEN l ELSE l + 1
  <2>1. At(j) \in DOMAIN s /\ At(k) \in DOMAIN s /\ t[j] = s[At(j)] /\ t[k] = s[At(k)]
    BY <1>1, <1>2, <1>3, <1>4
  <2>2. At(j) = At(k)
    <3> HIDE DEF At
    <3> QED
      BY <1>4, <2>1 DEF Apart
  <2> QED
    BY <1>1, <1>3, <2>2
<1>5. ASSUME s[i].from[1] \in Places PROVE s[i] \notin RangeOf(t)
  BY <1>1, <1>2, <1>5 DEF Apart
<1>6. ASSUME NEW j \in DOMAIN s, j < i PROVE j \in DOMAIN t /\ t[j] = s[j]
  BY <1>1, <1>2, <1>3, <1>6
<1> QED
  BY <1>4, <1>5, <1>6 DEF Apart, t

LEMMA AppendApart ==
  ASSUME NEW S, NEW s \in Seq(S), NEW e \in S, Apart(s), e.from[1] \notin Places
  PROVE  LET t == Append(s, e)
         IN  Apart(t) /\ \A j \in DOMAIN s : j \in DOMAIN t /\ t[j] = s[j]
<1> DEFINE t == Append(s, e)
<1>1. t \in Seq(S) /\ Len(t) = Len(s) + 1 /\ t[Len(s) + 1] = e /\ \A k \in 1 .. Len(s) : t[k] = s[k]
  BY AppendFacts
<1>2. DOMAIN t = 1 .. Len(s) + 1 /\ DOMAIN s = 1 .. Len(s) /\ Len(s) \in Nat
  BY <1>1, RangeFacts
<1> HIDE DEF t
<1>3. \A j \in DOMAIN t : j \in DOMAIN s \/ j = Len(s) + 1
  BY <1>2
<1>4. \A j \in DOMAIN s : j \in DOMAIN t /\ t[j] = s[j]
  BY <1>1, <1>2
<1>5. Apart(t)
  BY <1>1, <1>3, <1>4 DEF Apart
<1> QED
  BY <1>4, <1>5 DEF t

LEMMA EditShifts ==
  ASSUME NEW d \in Documents, NEW x \in Edits, x.kind # "add" => NamesTarget(d, x), NEW p \in Places,
         Apart(d[p])
  PROVE  LET new == Edited(d, x)
         IN  /\ Apart(new[p])
             /\ \A j \in DOMAIN d[p] : x.kind = "add" \/ p # x.place \/ j < x.index
                                        => j \in DOMAIN new[p] /\ new[p][j] = d[p][j]
             /\ x.kind # "add" /\ p = x.place /\ d[p][x.index].from[1] \in Places
                => d[p][x.index] \notin RangeOf(new[p])
<1>1. NewEntry(x).from[1] \notin Places
  BY DEF NewEntry, Places
<1>2. ASSUME NEW f \in Documents, Apart(f[p])
      PROVE  /\ Apart(PushRuntime(f, x)[p])
             /\ \A j \in DOMAIN f[p] :
                   j \in DOMAIN PushRuntime(f, x)[p] /\ PushRuntime(f, x)[p][j] = f[p][j]
             /\ \A e \in RangeOf(PushRuntime(f, x)[p]) : e \in RangeOf(f[p]) \/ e = NewEntry(x)
  <2>1. /\ p # "runtime" => PushRuntime(f, x)[p] = f[p]
        /\ PushRuntime(f, x)["runtime"] = IF x.name \in NamesIn(f["runtime"]) THEN f["runtime"]
                                          ELSE Append(f["runtime"], NewEntry(x))
        /\ NewEntry(x) \in Entries /\ f["runtime"] \in Seq(Entries)
    BY PushFacts
  <2>2. CASE PushRuntime(f, x)[p] = f[p]
    BY <1>2, <2>2
  <2>3. CASE p = "runtime" /\ PushRuntime(f, x)[p] = Append(f[p], NewEntry(x))
    <3>1. f[p] \in Seq(Entries)
      BY <2>1, <2>3
    <3>2. /\ Apart(Append(f[p], NewEntry(x)))
          /\ \A j \in DOMAIN f[p] : /\ j \in DOMAIN Append(f[p], NewEntry(x))
                                    /\ Append(f[p], NewEntry(x))[j] = f[p][j]
      BY <1>1, <1>2, <2>1, <3>1, AppendApart
    <3>3. RangeOf(Append(f[p], NewEntry(x))) = RangeOf(f[p]) \cup {NewEntry(x)}
      BY <2>1, <3>1, AppendFacts
    <3> QED
      BY <2>3, <3>2, <3>3
  <2> QED
    BY <2>1, <2>2, <2>3
<1>3. ASSUME NamesTarget(d, x)
      PROVE  /\ RemoveEntry(d, x) \in Documents /\ Apart(RemoveEntry(d, x)[p])
             /\ \A j \in DOMAIN d[p] : p # x.place \/ j < x.index =>
                   j \in DOMAIN RemoveEntry(d, x)[p] /\ RemoveEntry(d, x)[p][j] = d[p][j]
             /\ p = x.place /\ d[p][x.index].from[1] \in Places
                => d[p][x.index] \notin RangeOf(RemoveEntry(d, x)[p])
  <2>1. /\ RemoveEntry(d, x) \in Documents /\ (p # x.place => RemoveEntry(d, x)[p] = d[p])
        /\ RemoveEntry(d, x)[x.place] = WithoutEntry(d[x.place], x.index)
        /\ x.index \in DOMAIN d[x.place] /\ d[x.place] \in Seq(Entries)
    BY <1>3, RemoveFacts
  <2>2. CASE p = x.place
    BY <2>1, <2>2, WithoutApart
  <2>3. CASE p # x.place
    BY <2>1, <2>3
  <2> QED
    BY <2>2, <2>3
<1>4. CASE x.kind = "remove"
  BY <1>3, <1>4, EditedTyped
<1>5. CASE x.kind = "move"
  <2>1. Edited(d, x) = PushRuntime(RemoveEntry(d, x), x) /\ NamesTarget(d, x)
    BY <1>5, EditedTyped
  <2>2. d[p][x.index].from[1] \in Places => d[p][x.index] # NewEntry(x)
    BY <1>1
  <2> QED
    BY <1>2, <1>3, <1>5, <2>1, <2>2
<1>6. CASE x.kind = "add"
  <2>1. Edited(d, x) = PushRuntime(d, x)
    BY <1>6, EditedTyped
  <2> QED
    BY <1>2, <1>6, <2>1
<1> QED
  BY <1>4, <1>5, <1>6, EditedTyped

-----------------------------------------------------------------------------
(* What the edits made have come to, of the document the analysis read.    *)
Targets(before, x) ==
  x.kind # "add" => x.index \in DOMAIN before[x.place] /\ before[x.place][x.index].name = x.name

PlanOk(before, edits) ==
  /\ \A x \in edits : x \in Edits /\ Targets(before, x) /\ x.spec # "unread"
  /\ \A x, y \in edits : x.kind # "remove" /\ y.kind # "add" /\ x.name = y.name => x = y
  /\ \A p \in Places : \A i \in DOMAIN before[p] : before[p][i].from = <<p, i>>

(* Another edit made took its target away.                                 *)
Taken(made, x) == \E y \in made \ {x} : Removes(y) /\ SameTarget(x, y)

InPosition(before, d, made, x) ==
  \A j \in DOMAIN before[x.place] :
     j < x.index \/ (j = x.index /\ ~ Taken(made, x))
     => j \in DOMAIN d[x.place] /\ d[x.place][j] = before[x.place][j]

(* The edit made that accounts for a declaration that is gone.             *)
Accounts(before, made, x, p, i) ==
  /\ Removes(x) /\ x.place = p
  /\ x.index = i \/ (x.name = before[p][i].name /\ Taken(made, x))

Follows(before, d, made, pending) ==
  /\ \A p \in Places : Apart(d[p])
  /\ \A x \in pending : Removes(x) => InPosition(before, d, made, x)
  /\ \A x \in made : Removes(x) => before[x.place][x.index] \notin RangeOf(d[x.place])
  /\ \A p \in Places : \A i \in DOMAIN before[p] :
        before[p][i] \notin RangeOf(d[p]) => \E x \in made : Accounts(before, made, x, p, i)
  /\ \A x \in made : x.kind # "remove" => x.name \in NamesIn(d["runtime"])
  /\ \A p \in Places : \A e \in RangeOf(d[p]) \ RangeOf(before[p]) :
        p = "runtime" /\ \E x \in made : x.kind # "remove" /\ x.name = e.name

LEMMA BottomUp ==
  ASSUME NEW x \in Edits, NEW y \in Edits, Removes(x), Removes(y), x.place = y.place,
         ~ AppliesBefore(y, x)
  PROVE  y.index <= x.index /\ (~ SameTarget(x, y) => y.index < x.index)
<1>1. x.index \in Nat /\ y.index \in Nat
  BY DEF Edits
<1>2. ~ (y.index > x.index)
  BY DEF AppliesBefore, Removes
<1> QED
  BY <1>1, <1>2 DEF SameTarget

LEMMA FollowsStep ==
  ASSUME NEW before, NEW edits, PlanOk(before, edits), NEW d \in Documents,
         NEW made, made \subseteq edits, NEW pending, pending \subseteq edits, made \cap pending = {},
         NEW x \in pending, \A y \in pending : ~ AppliesBefore(y, x),
         x.kind # "add" => NamesTarget(d, x), Follows(before, d, made, pending)
  PROVE  Follows(before, Edited(d, x), made \cup {x}, pending \ {x})
<1> DEFINE new == Edited(d, x)
           more == made \cup {x}
<1>1. x \in edits /\ x \in Edits /\ x \notin made /\ (x.kind # "add" <=> Removes(x))
      /\ x.place \in Places /\ Targets(before, x) /\ x.spec # "unread"
  BY DEF PlanOk, Removes, Edits
<1>2. \A p \in Places :
         /\ Apart(new[p])
         /\ \A j \in DOMAIN d[p] : x.kind = "add" \/ p # x.place \/ j < x.index
                                    => j \in DOMAIN new[p] /\ new[p][j] = d[p][j]
         /\ x.kind # "add" /\ p = x.place /\ d[p][x.index].from[1] \in Places
            => d[p][x.index] \notin RangeOf(new[p])
         /\ \A e \in RangeOf(new[p]) :
               e \in RangeOf(d[p]) \/ (p = "runtime" /\ x.kind # "remove" /\ e = NewEntry(x))
         /\ \A e \in RangeOf(d[p]) :
               e \in RangeOf(new[p])
               \/ (p = x.place /\ x.kind # "add" /\ e = d[p][x.index] /\ e.name = x.name)
  BY <1>1, EditShifts, EditedRanges DEF Follows
<1>3. x.kind # "remove" => x.name \in NamesIn(new["runtime"])
  <2>1. CASE x.kind = "add"
    BY <1>1, <2>1, EditedTyped, PushFacts
  <2>2. CASE x.kind = "move"
    <3>1. Edited(d, x) = PushRuntime(RemoveEntry(d, x), x) /\ RemoveEntry(d, x) \in Documents
      BY <1>1, <2>2, EditedTyped
    <3> QED
      BY <1>1, <3>1, PushFacts
  <2> QED
    BY <1>1, <2>1, <2>2 DEF Edits
<1>4. NewEntry(x).from[1] \notin Places /\ NewEntry(x).name = x.name
  BY DEF NewEntry, Places
<1>5. \A p \in Places : \A i \in DOMAIN before[p] : before[p][i].from = <<p, i>>
  BY DEF PlanOk
<1> HIDE DEF new
<1>6. Removes(x) => before[x.place][x.index] \notin RangeOf(new[x.place])
  <2> SUFFICES ASSUME Removes(x), before[x.place][x.index] \in RangeOf(new[x.place]) PROVE FALSE
    OBVIOUS
  <2> DEFINE e == before[x.place][x.index]
  <2>1. e.from[1] \in Places /\ x.index \in DOMAIN before[x.place]
    BY <1>1, <1>5 DEF Targets
  <2>2. e \in RangeOf(d[x.place])
    BY <1>1, <1>2, <1>4, <2>1
  <2>3. CASE Taken(made, x)
    <3>1. PICK y \in made : Removes(y) /\ SameTarget(x, y)
      BY <2>3 DEF Taken
    <3> QED
      BY <2>2, <3>1 DEF Follows, SameTarget
  <2>4. CASE ~ Taken(made, x)
    <3>1. d[x.place][x.index] = e
      BY <2>1, <2>4 DEF Follows, InPosition
    <3> QED
      BY <1>1, <1>2, <2>1, <3>1
  <2> QED
    BY <2>3, <2>4
<1>7. ASSUME NEW y \in more, Removes(y) PROVE before[y.place][y.index] \notin RangeOf(new[y.place])
  <2>1. CASE y \in made
    <3>1. y \in Edits /\ y.place \in Places /\ y.index \in DOMAIN before[y.place]
      BY <1>7, <2>1 DEF PlanOk, Targets, Removes, Edits
    <3>2. before[y.place][y.index].from[1] \in Places
      BY <1>5, <3>1
    <3>3. before[y.place][y.index] \notin RangeOf(d[y.place])
      BY <1>7, <2>1 DEF Follows
    <3> QED
      BY <1>2, <1>4, <3>1, <3>2, <3>3
  <2> QED
    BY <1>6, <1>7, <2>1
<1>8. ASSUME NEW z \in pending \ {x}, Removes(z) PROVE InPosition(before, new, more, z)
  <2> SUFFICES ASSUME NEW j \in DOMAIN before[z.place],
                      j < z.index \/ (j = z.index /\ ~ Taken(more, z))
               PROVE  j \in DOMAIN new[z.place] /\ new[z.place][j] = before[z.place][j]
    BY DEF InPosition
  <2>1. z \in Edits /\ z.place \in Places /\ z.index \in Nat /\ x.index \in Nat
    BY <1>1 DEF PlanOk, Edits
  <2>2. j \in DOMAIN d[z.place] /\ d[z.place][j] = before[z.place][j]
    <3>1. Taken(made, z) => Taken(more, z)
      BY DEF Taken
    <3> QED
      BY <1>8, <3>1 DEF Follows, InPosition
  <2>3. CASE x.kind = "add" \/ z.place # x.place
    BY <1>2, <2>1, <2>2, <2>3
  <2>4. CASE Removes(x) /\ z.place = x.place
    <3>1. z.index <= x.index /\ (~ SameTarget(x, z) => z.index < x.index)
      BY <1>1, <1>8, <2>1, <2>4, BottomUp
    <3>2. SameTarget(x, z) => Taken(more, z)
      BY <1>8, <2>4 DEF Taken, SameTarget
    <3>3. d[z.place] \in Seq(Entries) /\ j \in 1 .. Len(d[z.place]) /\ Len(d[z.place]) \in Nat /\ j \in Nat
      BY <2>1, <2>2, DocumentFacts
    <3>4. j < x.index
      BY <2>1, <3>1, <3>2, <3>3
    <3> QED
      BY <1>2, <2>1, <2>2, <3>4
  <2> QED
    BY <1>1, <2>3, <2>4
<1>9. ASSUME NEW p \in Places, NEW i \in DOMAIN before[p], before[p][i] \notin RangeOf(new[p])
      PROVE  \E y \in more : Accounts(before, more, y, p, i)
  <2>1. CASE before[p][i] \notin RangeOf(d[p])
    <3>1. PICK y \in made : Accounts(before, made, y, p, i)
      BY <2>1 DEF Follows
    <3>2. Taken(made, y) => Taken(more, y)
      BY DEF Taken
    <3> QED
      BY <3>1, <3>2 DEF Accounts
  <2>2. CASE before[p][i] \in RangeOf(d[p])
    <3>1. p = x.place /\ Removes(x) /\ before[p][i] = d[p][x.index] /\ before[p][i].name = x.name
      BY <1>1, <1>2, <1>9, <2>2
    <3>2. CASE Taken(made, x)
      <4>1. Taken(more, x)
        BY <3>2 DEF Taken
      <4> QED
        BY <3>1, <4>1 DEF Accounts
    <3>3. CASE ~ Taken(made, x)
      <4>1. x.index \in DOMAIN before[p] /\ d[p][x.index] = before[p][x.index]
        BY <1>1, <3>1, <3>3 DEF Follows, InPosition, Targets
      <4>2. <<p, i>> = <<p, x.index>>
        BY <1>5, <3>1, <4>1
      <4> QED
        BY <3>1, <4>2 DEF Accounts
    <3> QED
      BY <3>2, <3>3
  <2> QED
    BY <2>1, <2>2
<1>10. ASSUME NEW y \in more, y.kind # "remove" PROVE y.name \in NamesIn(new["runtime"])
  <2>1. CASE y \in made
    <3>1. PICK e \in RangeOf(d["runtime"]) : Readable(e) /\ e.name = y.name
      BY <1>10, <2>1 DEF Follows, NamesIn
    <3>2. ~ (x.kind # "add" /\ y.name = x.name)
      BY <1>1, <1>10, <2>1 DEF PlanOk
    <3>3. e \in RangeOf(new["runtime"])
      BY <1>2, <3>1, <3>2 DEF Places
    <3> QED
      BY <3>1, <3>3 DEF NamesIn
  <2> QED
    BY <1>3, <1>10, <2>1
<1>11. ASSUME NEW p \in Places, NEW e \in RangeOf(new[p]) \ RangeOf(before[p])
       PROVE  p = "runtime" /\ \E y \in more : y.kind # "remove" /\ y.name = e.name
  BY <1>2, <1>4 DEF Follows
<1> QED
  BY <1>2, <1>7, <1>8, <1>9, <1>10, <1>11 DEF Follows, new

LEMMA FollowsSkip ==
  ASSUME NEW before, NEW d, NEW made, NEW pending, NEW fewer, fewer \subseteq pending,
         Follows(before, d, made, pending)
  PROVE  Follows(before, d, made, fewer)
BY DEF Follows

LEMMA FollowsStart ==
  ASSUME NEW before \in Documents, NEW pending,
         \A p \in Places : \A i \in DOMAIN before[p] : before[p][i].from = <<p, i>>
  PROVE  Follows(before, before, {}, pending)
<1>1. ASSUME NEW p \in Places PROVE Apart(before[p])
  BY DEF Apart
<1>2. \A p \in Places : \A i \in DOMAIN before[p] : before[p][i] \in RangeOf(before[p])
  BY DEF RangeOf
<1> QED
  BY <1>1, <1>2 DEF Follows, InPosition

LEMMA SingleIsNoDuplicate ==
  ASSUME NEW a, NEW n, NEW s, SitesOf(a, n) = {s}, s[1] \in Places, EntryAt(a, s).name = n
  PROVE  s \notin Removable(a, n)
<1>1. PICK c : c \in Contexts(a, s[1])
  BY DEF Contexts, Places
<1>2. ~ RepeatedIn(a, s, c)
  BY DEF RepeatedIn
<1> QED
  BY <1>1, <1>2 DEF Removable

LEMMA LoadedTags ==
  ASSUME NEW l, l = Tagged(Stripped(l)), NEW p \in Places, NEW i \in DOMAIN l[p]
  PROVE  l[p][i].from = <<p, i>>
<1> DEFINE d == Stripped(l)
<1>1. DOMAIN d[p] = DOMAIN l[p]
  BY DEF Stripped
<1>2. l[p] = [k \in DOMAIN l[p] |-> [name |-> d[p][k].name, spec |-> d[p][k].spec, from |-> <<p, k>>]]
  <2> HIDE DEF d
  <2> QED
    BY <1>1 DEF Tagged, d
<1> HIDE DEF d
<1>3. l[p][i] = [name |-> d[p][i].name, spec |-> d[p][i].spec, from |-> <<p, i>>]
  BY <1>2
<1> QED
  BY <1>3, SMTT(30)

LEMMA PlanIsOk ==
  ASSUME RunInv, BaselineInv, pc # "analyse"
  PROVE  PlanOk(loaded, plan) /\ loaded \in Documents
<1>1. TypeOK /\ IssuesInv /\ Analysis.manifest = loaded /\ loaded \in Documents
  BY DEF RunInv, TypeInv, TypeOK, Analysis
<1>2. ASSUME NEW x \in plan, x.kind # "add"
      PROVE  /\ x.place \in Places /\ x.index \in DOMAIN loaded[x.place]
             /\ loaded[x.place][x.index].name = x.name
             /\ Site(x)[1] = x.place /\ EntryAt(Analysis, Site(x)).name = x.name
             /\ x.name \in Declared(Analysis)
  <2>1. Site(x) \in SitesOf(Analysis, x.name) /\ Site(x)[1] = x.place /\ Site(x)[2] = x.index
    BY <1>1, <1>2, PlanFacts DEF Site
  <2>2. Site(x) \in Lines(Analysis) /\ EntryAt(Analysis, Site(x)).name = x.name
        /\ x.name \in Declared(Analysis)
    BY <1>1, <2>1, SitesOfFacts
  <2>3. x.place \in Places /\ x.index \in DOMAIN loaded[x.place]
    BY <1>1, <2>1, <2>2, LineFacts
  <2> QED
    BY <1>1, <2>1, <2>2, <2>3 DEF EntryAt
<1>3. ASSUME NEW x \in plan PROVE x \in Edits /\ Targets(loaded, x) /\ x.spec # "unread"
  BY <1>1, <1>2, PlanFacts DEF Targets
<1>4. ASSUME NEW x \in plan, NEW y \in plan, x.kind # "remove", y.kind # "add", x.name = y.name
      PROVE  x = y
  <2>1. /\ x.rule \in Rules /\ y.rule \in Rules
        /\ x.kind = CASE x.rule \in {2, 9} -> "remove" [] x.rule = 3 -> "add" [] x.rule = 5 -> "move"
        /\ y.kind = CASE y.rule \in {2, 9} -> "remove" [] y.rule = 3 -> "add" [] y.rule = 5 -> "move"
    BY <1>1, PlanFacts DEF Edits
  <2>2. CASE x.kind = "add"
    BY <1>1, <1>2, <1>4, <2>2, PlanFacts
  <2>3. CASE x.rule = 5 /\ x.kind = "move"
    <3>1. x.name \in Imported(Analysis) /\ SitesOf(Analysis, x.name) = {Site(x)}
      BY <1>1, <2>3, PlanFacts DEF MisplacedNames
    <3>2. CASE y.rule = 2
      BY <1>1, <1>4, <3>1, <3>2, PlanFacts DEF UnusedNames
    <3>3. CASE y.rule = 9
      <4>1. Site(y) \in Removable(Analysis, x.name)
        BY <1>1, <1>4, <3>3, PlanFacts
      <4>2. Site(y) = Site(x)
        BY <3>1, <4>1 DEF Removable
      <4>3. Site(x)[1] \in Places /\ EntryAt(Analysis, Site(x)).name = x.name
        BY <1>2, <2>3
      <4> QED
        BY <3>1, <4>1, <4>2, <4>3, SingleIsNoDuplicate
    <3>4. CASE y.rule = 5
      <4>1. \E i, j : /\ x = FixFor(Analysis, i) /\ y = FixFor(Analysis, j)
                      /\ i.rule = j.rule /\ i.name = j.name /\ i.rule = 5
        BY <1>1, <1>4, <2>3, <3>4, PlanFacts
      <4> QED
        BY <4>1 DEF FixFor
    <3> QED
      BY <1>4, <2>1, <3>2, <3>3, <3>4 DEF Rules
  <2> QED
    BY <1>4, <2>1, <2>2, <2>3 DEF Rules
<1>5. \A p \in Places : \A i \in DOMAIN loaded[p] : loaded[p][i].from = <<p, i>>
  BY LoadedTags DEF BaselineInv
<1> QED
  BY <1>1, <1>3, <1>4, <1>5 DEF PlanOk

(* An edit changes no place of another file.                               *)
LEMMA EditReplaces ==
  ASSUME NEW d \in Documents, NEW x \in Edits, x.kind # "add" => NamesTarget(d, x),
         x.kind = "add" => x.place = "runtime", x.kind = "move" => FileOf[x.place] = "pyproject.toml"
  PROVE  Replaced(d, Edited(d, x), FileOf[x.place]) = Edited(d, x)
<1>1. FileOf["runtime"] = "pyproject.toml"
  BY DEF FileOf
<1>2. ASSUME NEW p \in Places, FileOf[p] # FileOf[x.place] PROVE Edited(d, x)[p] = d[p]
  <2>1. CASE x.kind = "remove"
    BY <1>2, <2>1, EditedTyped, RemoveFacts
  <2>2. CASE x.kind = "move"
    <3>1. /\ Edited(d, x) = PushRuntime(RemoveEntry(d, x), x) /\ RemoveEntry(d, x) \in Documents
          /\ p # "runtime" /\ p # x.place
      BY <1>1, <1>2, <2>2, EditedTyped
    <3> QED
      BY <2>2, <3>1, RemoveFacts, PushFacts
  <2>3. CASE x.kind = "add"
    BY <1>1, <1>2, <2>3, EditedTyped, PushFacts
  <2> QED
    BY <2>1, <2>2, <2>3, EditedTyped
<1> DEFINE new == Edited(d, x)
<1>3. new \in Documents
  BY EditedTyped
<1> HIDE DEF new
<1>4. new = [p \in Places |-> new[p]]
  BY <1>3 DEF Documents
<1> QED
  BY <1>2, <1>4 DEF Replaced, new

(* While no user edits them, the manifests follow the edits made.          *)
Made == IF options.dryRun THEN {} ELSE applied

EditInv ==
  Untouched =>
    /\ Follows(loaded, disk, Made, Pending)
    /\ pc \in {"record", "install"} => disk = loaded
    /\ pc \in {"write", "rename"} =>
         \A x \in current : /\ ~ options.dryRun /\ text = Edited(disk, x) /\ IsNext(x)
                            /\ x.kind # "add" => NamesTarget(disk, x)

LEMMA UntouchedBefore ==
  ASSUME TypeInv, Applying, Untouched'
  PROVE  Untouched
<1>1. budget.edits \in Nat /\ budget \in [faults : Nat, crashes : Nat, edits : Nat]
  BY DEF TypeInv
<1>2. pc # "analyse"
  BY ApplyingFacts
<1>3. CASE WriteBaseline \/ WriteTemp \/ Finish \/ Crash
  BY <1>1, <1>2, <1>3 DEF WriteBaseline, WriteTemp, Finish, Crash, Untouched
<1>4. ASSUME NEW x \in plan, ApplyOne(x) \/ ReadOrWriteFails(x) \/ RenameFails(x) PROVE Untouched
  BY <1>1, <1>2, <1>4
  DEF ApplyOne, Uncontained, Preview, Refuse, AlreadyThere, ReadAndEdit, Rename, ReadOrWriteFails,
      RenameFails, Untouched
<1>5. ASSUME NEW p \in Places, UserInserts(p) PROVE FALSE
  BY <1>1, <1>5 DEF UserInserts, Untouched
<1> QED
  BY <1>3, <1>4, <1>5 DEF Applying

LEMMA SkipFollows ==
  ASSUME EditInv, Untouched, UNCHANGED <<disk, loaded, options, plan>>,
         applied' = applied \/ (options.dryRun /\ applied \subseteq applied'),
         skipped \subseteq skipped', pc' \notin {"record", "install", "write", "rename"}
  PROVE  EditInv'
<1>1. Made' = Made /\ Pending' \subseteq Pending
  BY DEF Made, Pending
<1>2. Follows(loaded, disk, Made, Pending')
  BY <1>1, FollowsSkip DEF EditInv
<1> QED
  BY <1>1, <1>2 DEF EditInv

LEMMA EditOne ==
  ASSUME RunInv, BaselineInv, EditInv, Untouched, NEW x \in plan, ApplyOne(x)
  PROVE  EditInv'
<1>1. /\ TypeOK /\ x \in Edits /\ disk \in Documents /\ pc # "analyse"
      /\ applied \subseteq plan /\ current \subseteq Pending
  <2>1. TypeOK /\ IssuesInv
    BY DEF RunInv, TypeInv
  <2> QED
    BY <2>1, PlanFacts DEF TypeOK, ApplyOne, Uncontained, Preview, Refuse, AlreadyThere, ReadAndEdit,
                           Rename, Performing
<1>2. CASE Uncontained(x) \/ Refuse(x) \/ Preview(x)
  <2>1. /\ UNCHANGED <<disk, loaded, options, plan>> /\ skipped \subseteq skipped' /\ pc' = "apply"
        /\ applied' = applied \/ (options.dryRun /\ applied \subseteq applied')
    BY <1>2 DEF Uncontained, Refuse, Preview, Skip, Succeed, doc
  <2> QED
    BY <2>1, SkipFollows
<1>3. ASSUME x \in Pending, IsNext(x), ~ options.dryRun, x.kind # "add" => NamesTarget(disk, x)
      PROVE  Follows(loaded, Edited(disk, x), Made \cup {x}, Pending \ {x})
  <2>1. PlanOk(loaded, plan) /\ Made = applied /\ Made \cap Pending = {}
    BY <1>1, <1>3, PlanIsOk DEF Made, Pending
  <2>2. Pending \subseteq plan /\ \A y \in Pending : ~ AppliesBefore(y, x)
    BY <1>3 DEF Pending, IsNext
  <2>3. Made \subseteq plan /\ Follows(loaded, disk, Made, Pending)
    BY <1>1, <2>1 DEF EditInv
  <2> HIDE DEF Made, Pending
  <2> QED
    BY <1>1, <1>3, <2>1, <2>2, <2>3, FollowsStep
<1>4. CASE AlreadyThere(x)
  <2>1. /\ x \in Pending /\ IsNext(x) /\ ~ options.dryRun /\ x.kind = "add"
        /\ x.name \in NamesIn(disk["runtime"])
        /\ UNCHANGED <<disk, loaded, options, plan, skipped>> /\ applied' = applied \cup {x} /\ pc' = "apply"
    BY <1>4 DEF AlreadyThere, Performing, IsNext, Succeed, doc
  <2>2. Edited(disk, x) = disk
    BY <1>1, <2>1, EditedTyped DEF PushRuntime
  <2>3. Made' = Made \cup {x} /\ Pending' = Pending \ {x}
    BY <2>1 DEF Made, Pending
  <2> QED
    BY <1>3, <2>1, <2>2, <2>3 DEF EditInv
<1>5. CASE ReadAndEdit(x)
  <2>1. /\ x \in Pending /\ IsNext(x) /\ ~ options.dryRun /\ (x.kind # "add" => NamesTarget(disk, x))
        /\ UNCHANGED <<disk, loaded, options, plan, applied, skipped>>
        /\ text' = Edited(disk, x) /\ current' = {x} /\ pc' = "write"
    BY <1>5 DEF ReadAndEdit, Performing, IsNext, Refuses
  <2>2. Made' = Made /\ Pending' = Pending /\ IsNext(x)'
    BY <2>1 DEF Made, Pending, IsNext
  <2>3. text' = Edited(disk', x) /\ (x.kind # "add" => NamesTarget(disk', x)) /\ ~ options'.dryRun
    BY <2>1
  <2> QED
    BY <2>1, <2>2, <2>3 DEF EditInv
<1>6. CASE Rename(x)
  <2>1. /\ x \in current /\ pc = "rename" /\ disk' = Replaced(disk, text, FileOf[x.place])
        /\ UNCHANGED <<loaded, options, plan, skipped>> /\ applied' = applied \cup {x} /\ pc' = "apply"
    BY <1>6 DEF Rename, Succeed
  <2>2. /\ text = Edited(disk, x) /\ ~ options.dryRun /\ IsNext(x) /\ x \in Pending
        /\ (x.kind # "add" => NamesTarget(disk, x))
    BY <1>1, <2>1 DEF EditInv
  <2>3. /\ x.kind = "add" => x.place = "runtime"
        /\ x.kind = "move" => FileOf[x.place] = "pyproject.toml"
    BY PlanFacts DEF RunInv, TypeInv
  <2>4. disk' = Edited(disk, x)
    BY <1>1, <2>1, <2>2, <2>3, EditReplaces
  <2>5. Made' = Made \cup {x} /\ Pending' = Pending \ {x}
    BY <2>1, <2>2 DEF Made, Pending
  <2> QED
    BY <1>3, <2>1, <2>2, <2>4, <2>5 DEF EditInv
<1> QED
  BY <1>2, <1>4, <1>5, <1>6 DEF ApplyOne

LEMMA EditStep == RunInv /\ RunInv' /\ BaselineInv /\ BaselineInv' /\ EditInv /\ [Next]_vars => EditInv'
<1> SUFFICES ASSUME RunInv, RunInv', BaselineInv, BaselineInv', EditInv, [Next]_vars, Untouched'
             PROVE  EditInv'
  BY DEF EditInv
<1>1. TypeOK /\ IssuesInv /\ TypeInv
  BY DEF RunInv, TypeInv
<1>2. /\ loaded' \in Documents /\ pc' # "analyse"
      /\ \A p \in Places : \A i \in DOMAIN loaded'[p] : loaded'[p][i].from = <<p, i>>
  <2>1. pc' # "analyse"
    BY DEF Untouched
  <2>2. loaded' = Tagged(Stripped(loaded'))
    BY <2>1 DEF BaselineInv, Tagged, Stripped
  <2>3. loaded' \in Documents
    BY DEF RunInv, TypeInv, TypeOK
  <2> QED
    BY <2>1, <2>2, <2>3, LoadedTags
<1>3. CASE Analyse \/ BaselineFails \/ InstallBaseline
  <2>1. disk' = loaded'
    <3>1. CASE Analyse \/ (BaselineFails /\ pc = "analyse")
      BY <3>1, AnalyseFacts DEF BaselineFails, Load
    <3>2. CASE InstallBaseline \/ (BaselineFails /\ pc # "analyse")
      <4>1. UNCHANGED <<disk, loaded>> /\ pc \in {"record", "install"} /\ UNCHANGED budget.edits
        BY <1>1, <3>2 DEF InstallBaseline, BaselineFails, doc, TypeInv
      <4> QED
        BY <4>1 DEF EditInv, Untouched
    <3> QED
      BY <1>3, <3>1, <3>2
  <2>2. applied' = {} /\ pc' \notin {"write", "rename"}
    <3>1. plan = {}
      BY <1>1, <1>3, AnalyseFacts DEF IssuesInv, InstallBaseline, BaselineFails
    <3> QED
      BY <1>1, <1>3, <3>1, AnalyseFacts DEF TypeOK, InstallBaseline, BaselineFails
  <2>3. Made' = {}
    BY <2>2 DEF Made
  <2>4. Follows(loaded', loaded', {}, Pending')
    BY <1>2, FollowsStart
  <2> QED
    BY <2>1, <2>2, <2>3, <2>4 DEF EditInv
<1>4. CASE WriteBaseline \/ WriteTemp \/ Finish \/ Crash
  <2>1. /\ UNCHANGED <<disk, loaded, text, options, plan, applied, skipped, current>>
        /\ pc' \in {"record", "install"} => pc \in {"record", "install"}
        /\ pc' \in {"write", "rename"} => pc \in {"write", "rename"}
    BY <1>4 DEF WriteBaseline, WriteTemp, Finish, Crash, doc
  <2>2. Untouched
    BY <1>1, <1>4, UntouchedBefore DEF Applying
  <2>3. UNCHANGED <<Made, Pending>> /\ \A x : IsNext(x)' = IsNext(x)
    BY <2>1 DEF Made, Pending, IsNext
  <2> QED
    BY <2>1, <2>2, <2>3 DEF EditInv
<1>5. ASSUME NEW x \in plan, ApplyOne(x) PROVE EditInv'
  <2>1. Untouched
    BY <1>1, <1>5, UntouchedBefore DEF Applying
  <2> QED
    BY <1>5, <2>1, EditOne
<1>6. ASSUME NEW x \in plan, ReadOrWriteFails(x) \/ RenameFails(x) PROVE EditInv'
  <2>1. Untouched
    BY <1>1, <1>6, UntouchedBefore DEF Applying
  <2>2. /\ UNCHANGED <<disk, loaded, options, plan, applied>> /\ skipped \subseteq skipped'
        /\ pc' = "apply"
    BY <1>6 DEF ReadOrWriteFails, RenameFails, Skip, doc
  <2> QED
    BY <2>1, <2>2, SkipFollows
<1>7. ASSUME NEW p \in Places, UserInserts(p) PROVE FALSE
  BY <1>1, <1>7 DEF UserInserts, Untouched, TypeInv
<1>8. CASE RunAgain
  BY <1>8 DEF RunAgain, Untouched
<1>9. CASE UNCHANGED vars
  <2>1. UNCHANGED <<Made, Pending, Untouched>> /\ \A x : IsNext(x)' = IsNext(x)
    BY <1>9 DEF vars, Made, Pending, IsNext, Untouched
  <2> QED
    BY <1>9, <2>1 DEF vars, EditInv
<1> QED
  BY <1>3, <1>4, <1>5, <1>6, <1>7, <1>8, <1>9, NextIs DEF Applying, Settled

(* What holds whenever the manifests have been read and nobody edits them. *)
FixInv == RunInv /\ BaselineInv /\ EditInv

THEOREM FixInvariant == Spec => []FixInv
<1>1. Init => BaselineInv /\ EditInv
  BY DEF Init, BaselineInv, EditInv, Untouched
<1> QED
  BY <1>1, BaselineStep, EditStep, RunInvariant, PTL DEF Spec, FixInv

LEMMA MadeFacts ==
  ASSUME FixInv, Untouched
  PROVE  /\ Follows(loaded, disk, Made, Pending)
         /\ PlanOk(loaded, plan)
         /\ Made \subseteq plan
         /\ \A x : x \in Made <=> OnceDone(x)
<1>1. RunInv /\ BaselineInv /\ pc # "analyse" /\ applied \subseteq plan
  BY DEF FixInv, Untouched, RunInv, TypeInv, TypeOK
<1>2. PlanOk(loaded, plan)
  BY <1>1, PlanIsOk
<1>3. Follows(loaded, disk, Made, Pending)
  BY DEF FixInv, EditInv
<1>4. Made \subseteq plan /\ \A x : x \in Made <=> OnceDone(x)
  BY <1>1 DEF Made, OnceDone
<1> QED
  BY <1>2, <1>3, <1>4

(* At every moment the declarations missing from the manifests are exactly *)
(* the ones the edits reported as applied were planned for, while indexes  *)
(* shift and edits fail (bottom_up_positional_removals).                   *)
THEOREM NamedEntriesGo == Spec => []ExactlyTheNamedEntriesGo
<1>1. ASSUME FixInv, Untouched, DistinctTargets, NEW p \in Places, NEW i \in DOMAIN loaded[p]
      PROVE  Gone(p, i) <=> \E x \in plan : /\ OnceDone(x) /\ Removes(x)
                                            /\ x.place = p /\ x.index = i
  <2>1. /\ Follows(loaded, disk, Made, Pending) /\ Made \subseteq plan
        /\ \A x : x \in Made <=> OnceDone(x)
    BY <1>1, MadeFacts
  <2>2. ASSUME NEW x \in Made, Accounts(loaded, Made, x, p, i)
        PROVE  Removes(x) /\ x.place = p /\ x.index = i
    BY <1>1, <2>1, <2>2 DEF Accounts, Taken, DistinctTargets
  <2> QED
    BY <2>1, <2>2 DEF Follows, Gone
<1>2. FixInv => ExactlyTheNamedEntriesGo
  BY <1>1 DEF ExactlyTheNamedEntriesGo
<1> QED
  BY <1>2, FixInvariant, PTL

(* Every distribution added or moved is a runtime dependency from then on, *)
(* and nothing else enters a manifest (push_runtime_dependency).           *)
THEOREM AdditionsStay == Spec => []AdditionsLand
<1>1. ASSUME FixInv, Untouched
      PROVE  /\ Follows(loaded, disk, Made, Pending) /\ Made \subseteq plan
             /\ \A x : x \in Made <=> OnceDone(x)
  BY <1>1, MadeFacts
<1>2. FixInv => AdditionsLand
  BY <1>1 DEF AdditionsLand, Follows
<1> QED
  BY <1>2, FixInvariant, PTL

LEMMA IssueFacts ==
  ASSUME FixInv, pc # "analyse", NEW i \in issues
  PROVE  \/ plan = {} /\ Failed
         \/ /\ i \in Findings(Analysis)
            /\ options.baseline = "use" => Fingerprint(i) \notin Prints
BY DEF FixInv, RunInv, IssuesInv, Expected, Unrecorded

(* What is ignored, off, filtered out or recorded is left alone, although  *)
(* other edits of the same files shift it.                                 *)
THEOREM SilencedStays == Spec => []SilencedLeftAlone
<1> DEFINE Loud == {c.name : c \in {c \in Candidates(Analysis) : ~ IsSilenced(c)}}
<1>1. ASSUME FixInv, Untouched, NEW x \in plan PROVE x.name \in Loud
  <2>1. TypeOK /\ IssuesInv /\ pc # "analyse"
    BY <1>1 DEF FixInv, RunInv, TypeInv, Untouched
  <2>2. PICK i \in issues : i \in Findings(Analysis) /\ x.name = i.name
    BY <2>1, PlanFacts
  <2>3. options.baseline = "use" => Fingerprint(i) \notin Prints
    BY <1>1, <2>1, <2>2, IssueFacts
  <2>4. PICK c \in Candidates(Analysis) :
               /\ i.rule = c.rule /\ i.name = c.name /\ i.by = c.by /\ i.sites = c.sites
               /\ c.rule \notin options.settings.off /\ ~ Silenced(options.settings, i)
               /\ i.rule \in options.settings.rules
    BY <2>2, FindingFacts DEF Analysis
  <2>5. ~ IsSilenced(c)
    BY <2>3, <2>4 DEF IsSilenced, Silenced, Fingerprint
  <2> QED
    BY <2>2, <2>4, <2>5
<1>2. ASSUME FixInv, KeepsInv, Untouched, NEW n, n \notin Loud, NEW p \in Places
      PROVE  {e \in RangeOf(disk[p]) : e.name = n} = {e \in RangeOf(loaded[p]) : e.name = n}
  <2>1. n \notin NamesOf(plan)
    BY <1>1, <1>2 DEF NamesOf
  <2>2. Follows(loaded, disk, Made, Pending) /\ Made \subseteq plan
    BY <1>2, MadeFacts
  <2>3. ASSUME NEW e \in RangeOf(disk[p]), e.name = n PROVE e \in RangeOf(loaded[p])
    BY <2>1, <2>2, <2>3 DEF Follows, NamesOf
  <2>4. ASSUME NEW e \in RangeOf(loaded[p]), e.name = n PROVE e \in RangeOf(disk[p])
    <3>1. PICK i \in DOMAIN loaded[p] : e = loaded[p][i]
      BY DEF RangeOf
    <3> QED
      BY <1>2, <2>1, <2>4, <3>1 DEF KeepsInv, Keeps, Untouched
  <2> QED
    BY <2>3, <2>4
<1>3. FixInv /\ KeepsInv => SilencedLeftAlone
  BY <1>2 DEF SilencedLeftAlone
<1>4. Init => KeepsInv
  BY DEF Init, KeepsInv
<1> QED
  BY <1>3, <1>4, KeepsStep, RunInvariant, FixInvariant, PTL DEF Spec

-----------------------------------------------------------------------------
(* The exit status is success only when the edits resolved what counts.    *)
ExitInv ==
  exit = "success" /\ options.baseline # "update" /\ ~ options.settings.noExit
  => \A i \in issues : Counts(options.settings, i) => i \in Resolved

LEMMA ExitStep == RunInv /\ ExitInv /\ [Next]_vars => ExitInv'
<1> SUFFICES ASSUME RunInv, ExitInv, [Next]_vars PROVE ExitInv'
  OBVIOUS
<1>1. TypeOK /\ (pc # "done" => exit = "none")
  BY DEF RunInv, TypeInv, TypeOK
<1>2. CASE Finish
  <2>1. /\ UNCHANGED <<loaded, options, issues, applied>>
        /\ exit' = IF options.baseline = "update" THEN "success"
                   ELSE ExitStatus(options.settings, issues \ Resolved)
    BY <1>2 DEF Finish, doc, found
  <2>2. UNCHANGED <<Analysis, Resolved>>
    BY <2>1 DEF Analysis, Resolved
  <2> QED
    BY <2>1, <2>2 DEF ExitInv, ExitStatus
<1>3. CASE UNCHANGED vars
  <2>1. UNCHANGED <<exit, options, issues, Resolved>>
    BY <1>3 DEF vars, Analysis, Resolved
  <2> QED
    BY <2>1 DEF ExitInv
<1>4. CASE Analyse \/ InstallBaseline \/ BaselineFails \/ RunAgain
  <2>1. exit' \in {"none", "error"}
    BY <1>1, <1>4, AnalyseFacts DEF InstallBaseline, BaselineFails, RunAgain
  <2> QED
    BY <2>1 DEF ExitInv
<1>5. CASE Applying /\ ~ Finish
  <2>1. exit' = exit /\ pc # "done"
    <3>1. CASE WriteBaseline \/ WriteTemp \/ Crash
      BY <3>1 DEF WriteBaseline, WriteTemp, Crash
    <3>2. ASSUME NEW x \in plan, ApplyOne(x) \/ ReadOrWriteFails(x) \/ RenameFails(x)
          PROVE  exit' = exit /\ pc # "done"
      BY <3>2 DEF ApplyOne, Uncontained, Preview, Refuse, AlreadyThere, ReadAndEdit, Rename, Performing,
                  ReadOrWriteFails, RenameFails
    <3>3. ASSUME NEW p \in Places, UserInserts(p) PROVE exit' = exit /\ pc # "done"
      BY <3>3 DEF UserInserts
    <3> QED
      BY <1>5, <3>1, <3>2, <3>3 DEF Applying
  <2> QED
    BY <1>1, <2>1 DEF ExitInv
<1> QED
  BY <1>2, <1>3, <1>4, <1>5, NextIs DEF Settled

(* The exit status follows the files: a run that ends with success has     *)
(* edited away every finding it reported that counts                       *)
(* (exit_status_after_fix).                                                *)
THEOREM SuccessIsEdited == Spec => []SuccessMeansEdited
<1>1. ASSUME FixInv, Untouched, NEW i \in issues, i \in Resolved
      PROVE  HasFix(Analysis, i) /\ EditedAway(i)
  <2> DEFINE x == FixFor(Analysis, i)
  <2>1. HasFix(Analysis, i) /\ x \in applied /\ ~ options.dryRun
    BY <1>1 DEF Resolved
  <2>2. Follows(loaded, disk, Made, Pending) /\ x \in Made /\ x \in plan
    BY <1>1, <2>1, MadeFacts DEF OnceDone
  <2>3. i \in Findings(Analysis)
    BY <1>1, <2>2, IssueFacts DEF Untouched
  <2>4. Analysis.manifest \in Documents /\ Analysis.imports \subseteq STRING \X STRING
    BY <1>1 DEF FixInv, RunInv, TypeInv, TypeOK, Analysis, Options
  <2>5. /\ x.name = i.name /\ x.rule = i.rule /\ x.rule \in Rules
        /\ x.kind = CASE x.rule \in {2, 9} -> "remove" [] x.rule = 3 -> "add" [] x.rule = 5 -> "move"
    BY <2>1, <2>3, <2>4, FixFacts, ZenonT(60) DEF Edits
  <2> HIDE DEF x
  <2>6. (i.rule \in {2, 5, 9} => Removes(x)) /\ (i.rule \in {3, 5} => x.kind # "remove")
    BY <2>5 DEF Removes
  <2>7. i.rule \in {2, 5, 9} => Gone(x.place, x.index)
    BY <2>2, <2>6 DEF Follows, Gone
  <2>8. i.rule \in {3, 5} => i.name \in NamesIn(disk["runtime"])
    BY <2>2, <2>5, <2>6 DEF Follows
  <2> QED
    BY <2>1, <2>7, <2>8 DEF EditedAway, x
<1>2. FixInv /\ ExitInv => SuccessMeansEdited
  BY <1>1 DEF SuccessMeansEdited, ExitInv
<1>3. Init => ExitInv
  BY DEF Init, ExitInv
<1> QED
  BY <1>2, <1>3, ExitStep, RunInvariant, FixInvariant, PTL DEF Spec

-----------------------------------------------------------------------------
(* A gap keeps an unused declaration, and a repeated one goes only where   *)
(* another stays.                                                          *)
LEMMA UsedIsNotUnused ==
  ASSUME FixInv, Untouched, NEW x \in plan, x.name \in Used
  PROVE  x.rule # 2
<1> SUFFICES ASSUME x.rule = 2 PROVE FALSE
  OBVIOUS
<1>1. TypeOK /\ IssuesInv
  BY DEF FixInv, RunInv, TypeInv
<1>2. PICK i \in issues : /\ i \in Findings(Analysis) /\ HasFix(Analysis, i)
                          /\ x.name = i.name /\ x.rule = i.rule
  BY <1>1, PlanFacts
<1>3. x.name \notin Imported(Analysis)
  BY <1>1, PlanFacts DEF UnusedNames
<1>4. PICK u \in options.unseen : u.kind \in {"unreadCode", "unresolvedImport", "stringRef"} /\ u.name = x.name
  BY <1>3 DEF Used
<1>5. u \in Gaps(Analysis)
  BY DEF Gaps, Analysis
<1>6. Reaches(u, i) /\ u.kind \in HintKinds(2) \cup CapKinds(2)
  BY <1>2, <1>4 DEF Reaches, HintKinds, CapKinds
<1> QED
  BY <1>2, <1>5, <1>6, GapLowers

(* What goes of a distribution the project uses is the one repeated line.  *)
LEMMA OnlyTheDuplicateGoes ==
  ASSUME FixInv, Untouched, NEW n \in Used, n \notin {x.name : x \in {x \in plan : x.kind # "remove"}},
         NEW p \in Places, NEW i \in DOMAIN loaded[p], loaded[p][i].name = n, Gone(p, i)
  PROVE  /\ \E x \in plan : x.rule = 9 /\ x.name = n /\ Site(x) = <<p, i>>
         /\ <<p, i>> \in Removable(Analysis, n)
<1>1. Follows(loaded, disk, Made, Pending) /\ PlanOk(loaded, plan) /\ Made \subseteq plan
      /\ TypeOK /\ IssuesInv
  BY MadeFacts DEF FixInv, RunInv, TypeInv
<1>2. PICK x \in Made : Accounts(loaded, Made, x, p, i)
  BY <1>1 DEF Follows, Gone
<1>3. x \in plan /\ x.place = p /\ x.name = n
  BY <1>1, <1>2 DEF Accounts, PlanOk, Targets, Removes
<1>4. ASSUME NEW y \in plan, y.name = n PROVE y.rule = 9
  <2>1. y.rule \in Rules /\ y.rule # 2 /\ y.kind = "remove"
    BY <1>1, <1>4, PlanFacts, UsedIsNotUnused DEF Edits
  <2>2. y.kind = CASE y.rule \in {2, 9} -> "remove" [] y.rule = 3 -> "add" [] y.rule = 5 -> "move"
    BY <1>1, PlanFacts
  <2> QED
    BY <2>1, <2>2 DEF Rules
<1>5. ASSUME NEW y \in plan, y.name = n PROVE y = x
  <2>1. \E f, g : x = FixFor(Analysis, f) /\ y = FixFor(Analysis, g) /\ f.rule = 9 /\ g.rule = 9 /\ f.name = g.name
    BY <1>1, <1>3, <1>4, <1>5, PlanFacts
  <2> QED
    BY <2>1 DEF FixFor
<1>6. ~ Taken(Made, x)
  <2> SUFFICES ASSUME NEW y \in Made \ {x}, Removes(y), SameTarget(x, y) PROVE FALSE
    BY DEF Taken
  <2>1. Removes(x) /\ y \in plan
    BY <1>1, <1>2 DEF Accounts
  <2>2. y.name = x.name
    BY <1>1, <1>3, <2>1 DEF PlanOk, Targets, Removes, SameTarget
  <2> QED
    BY <1>3, <1>5, <2>1, <2>2
<1>7. Site(x) = <<p, i>>
  BY <1>2, <1>6 DEF Accounts, Site
<1> QED
  BY <1>1, <1>3, <1>4, <1>7, PlanFacts

(* A distribution the project uses, and that --fix neither adds nor moves, *)
(* is installed as before in every context (removable_among, apply_gaps).  *)
THEOREM UsedKeep == Spec => []UsedKeepTheirInstall
<1>1. ASSUME FixInv, Untouched, NEW n \in Used,
             n \notin {x.name : x \in {x \in plan : x.kind # "remove"}}, NEW c
      PROVE  Installs(disk, n, c) = Installs(loaded, n, c)
  <2>1. Follows(loaded, disk, Made, Pending) /\ Made \subseteq plan /\ loaded \in Documents
    BY <1>1, MadeFacts DEF FixInv, RunInv, TypeInv, TypeOK
  <2>2. ASSUME NEW p \in Places, c \in Contexts(Analysis, p), NEW e \in RangeOf(disk[p]), e.name = n
        PROVE  e \in RangeOf(loaded[p])
    BY <1>1, <2>1, <2>2 DEF Follows
  <2>3. ASSUME NEW p \in Places, c \in Contexts(Analysis, p), NEW e \in RangeOf(loaded[p]), e.name = n
        PROVE  \E q \in Places : /\ c \in Contexts(Analysis, q)
                                 /\ \E f \in RangeOf(disk[q]) : f.name = n /\ f.spec = e.spec
    <3>1. PICK i \in DOMAIN loaded[p] : e = loaded[p][i]
      BY DEF RangeOf
    <3>2. CASE ~ Gone(p, i)
      BY <2>3, <3>1, <3>2 DEF Gone
    <3>3. CASE Gone(p, i)
      <4>7. loaded[p][i].name = n
        BY <2>3, <3>1
      <4>8. \E x \in plan : x.rule = 9 /\ x.name = n /\ Site(x) = <<p, i>>
        BY <1>1, <3>3, <4>7, OnlyTheDuplicateGoes, ZenonT(60)
      <4>1. PICK x \in plan : x.rule = 9 /\ x.name = n /\ Site(x) = <<p, i>>
        BY <4>8
      <4>2. <<p, i>> \in Removable(Analysis, n) /\ Analysis.manifest = loaded
        BY <1>1, <2>3, <3>1, <3>3, OnlyTheDuplicateGoes DEF Analysis
      <4>3. PICK t \in SitesOf(Analysis, n) \ {<<p, i>>} :
               c \in Contexts(Analysis, t[1]) /\ EntryAt(Analysis, t).spec = e.spec
        BY <2>3, <3>1, <4>2 DEF Removable, RepeatedIn, EntryAt
      <4>4. /\ t = <<t[1], t[2]>> /\ t[1] \in Places /\ t[2] \in DOMAIN loaded[t[1]]
            /\ loaded[t[1]][t[2]].name = n /\ loaded[t[1]][t[2]].spec = e.spec
        BY <2>1, <4>2, <4>3, SitesOfFacts, LineFacts DEF EntryAt
      <4>5. ~ Gone(t[1], t[2])
        <5> SUFFICES ASSUME Gone(t[1], t[2]) PROVE FALSE
          OBVIOUS
        <5>1. PICK y \in plan : y.rule = 9 /\ y.name = n /\ Site(y) = <<t[1], t[2]>>
          BY <1>1, <4>4, OnlyTheDuplicateGoes
        <5>2. x = y
          <6>1. TypeOK /\ IssuesInv
            BY <1>1 DEF FixInv, RunInv, TypeInv
          <6>2. \E f, g : /\ x = FixFor(Analysis, f) /\ y = FixFor(Analysis, g)
                         /\ f.rule = 9 /\ g.rule = 9 /\ f.name = g.name
            BY <4>1, <5>1, <6>1, PlanFacts
          <6> QED
            BY <6>2 DEF FixFor
        <5> QED
          BY <4>1, <4>3, <4>4, <5>1, <5>2
      <4>6. loaded[t[1]][t[2]] \in RangeOf(disk[t[1]])
        BY <4>5 DEF Gone
      <4> QED
        BY <4>3, <4>4, <4>6
    <3> QED
      BY <3>2, <3>3
  <2> QED
    BY <2>2, <2>3 DEF Installs
<1>2. FixInv => UsedKeepTheirInstall
  BY <1>1 DEF UsedKeepTheirInstall
<1> QED
  BY <1>2, FixInvariant, PTL

-----------------------------------------------------------------------------
(* A preview and the run after it plan the same edits, and nothing but its *)
(* place outside the root keeps a planned edit from being made.            *)
AnalysisUnder(d, o) ==
  [manifest |-> d, imports |-> o.imports, unseen |-> o.unseen, shared |-> o.shared,
   settings |-> o.settings, addMissing |-> o.addMissing]

PlanUnder(d, o, prints) ==
  LET all == Findings(AnalysisUnder(d, o))
  IN  PlanFixes(AnalysisUnder(d, o), IF o.baseline = "use" THEN Unrecorded(prints, all) ELSE all)

PreviewInv ==
  budget = NoBudget =>
    /\ pc # "crashed" /\ ~ Failed
    /\ pc = "done" => Pending = {} /\ (options.baseline = "update" => exit = "success")
    /\ plan # {} => options.fix
    /\ pc # "analyse" /\ options.hashed = {} /\ DistinctTargets => \A x \in skipped : ~ Contained(x)
    /\ \A x \in promised : Contained(x)
    /\ options.dryRun => \A x \in applied : Contained(x)
    /\ pc # "analyse" /\ options.dryRun => disk = loaded
    /\ promised # {} => ~ options.dryRun /\ options.fix /\ options.baseline # "update"
    /\ pc = "analyse" /\ promised # {} =>
          disk = Tagged(disk) /\ promised \subseteq PlanUnder(disk, options, Prints)
    /\ pc # "analyse" => promised \subseteq plan

LEMMA NothingSpent ==
  ASSUME TypeInv, [Next]_vars, budget' = NoBudget
  PROVE  /\ budget = NoBudget /\ ~ Crash /\ ~ BaselineFails
         /\ \A x : ~ ReadOrWriteFails(x) /\ ~ RenameFails(x)
         /\ \A p : ~ UserInserts(p)
<1>1. budget.faults \in Nat /\ budget.crashes \in Nat /\ budget.edits \in Nat
      /\ budget \in [faults : Nat, crashes : Nat, edits : Nat]
  BY DEF TypeInv
<1>2. /\ NoBudget.faults = 0 /\ NoBudget.crashes = 0 /\ NoBudget.edits = 0
  BY DEF NoBudget
<1>3. /\ ~ Crash /\ ~ BaselineFails
      /\ \A x : ~ ReadOrWriteFails(x) /\ ~ RenameFails(x)
      /\ \A p : ~ UserInserts(p)
  BY <1>1, <1>2 DEF Crash, BaselineFails, ReadOrWriteFails, RenameFails, UserInserts
<1>4. UNCHANGED budget
  <2>1. CASE Applying
    BY <1>3, <2>1 DEF Applying, WriteBaseline, WriteTemp, Finish, ApplyOne, Uncontained, Preview, Refuse,
                      AlreadyThere, ReadAndEdit, Rename
  <2>2. CASE Analyse \/ InstallBaseline \/ RunAgain
    BY <2>2, AnalyseFacts DEF InstallBaseline, RunAgain
  <2> QED
    BY <1>3, <2>1, <2>2, NextIs DEF Settled, vars
<1> QED
  BY <1>3, <1>4

LEMMA TargetStays ==
  ASSUME FixInv, Untouched, DistinctTargets, NEW x \in Pending, x.kind # "add"
  PROVE  NamesTarget(disk, x)
<1>1. Follows(loaded, disk, Made, Pending) /\ PlanOk(loaded, plan) /\ Made \subseteq plan /\ x \in plan
  BY MadeFacts DEF Pending
<1>2. ~ Taken(Made, x)
  BY <1>1 DEF Taken, DistinctTargets, Removes
<1>3. x.index \in DOMAIN loaded[x.place] /\ loaded[x.place][x.index].name = x.name
  BY <1>1 DEF PlanOk, Targets
<1>4. x.index \in DOMAIN disk[x.place] /\ disk[x.place][x.index] = loaded[x.place][x.index]
  BY <1>1, <1>2, <1>3 DEF Follows, InPosition, Removes
<1>5. Readable(loaded[x.place][x.index])
  <2>1. TypeOK /\ IssuesInv /\ Analysis.manifest \in Documents
    BY DEF FixInv, RunInv, TypeInv, TypeOK, Analysis
  <2>2. Readable(EntryAt(Analysis, Site(x)))
    BY <1>1, <2>1, PlanFacts, SitesOfFacts
  <2> QED
    BY <2>2 DEF EntryAt, Site, Analysis
<1> QED
  BY <1>3, <1>4, <1>5 DEF NamesTarget

LEMMA PlanIsUnder ==
  ASSUME IssuesInv, pc # "analyse", ~ Failed
  PROVE  plan \subseteq PlanUnder(loaded, options, Prints)
<1>1. AnalysisUnder(loaded, options) = Analysis
  BY DEF AnalysisUnder, Analysis
<1>2. plan \subseteq PlanFixes(Analysis, Expected)
  BY DEF IssuesInv
<1> QED
  BY <1>1, <1>2 DEF PlanUnder, Expected

LEMMA PreviewStep == FixInv /\ PreviewInv /\ [Next]_vars => PreviewInv'
<1> SUFFICES ASSUME FixInv, PreviewInv, [Next]_vars, budget' = NoBudget PROVE PreviewInv'
  BY DEF PreviewInv
<1>1. /\ TypeInv /\ TypeOK /\ IssuesInv /\ (pc # "analyse" => Untouched)
      /\ (pc # "done" => exit = "none")
  BY NothingSpent DEF FixInv, RunInv, TypeInv, TypeOK, Untouched, NoBudget
<1>2. /\ budget = NoBudget /\ ~ Crash /\ ~ BaselineFails
      /\ \A x : ~ ReadOrWriteFails(x) /\ ~ RenameFails(x)
      /\ \A p : ~ UserInserts(p)
  BY <1>1, NothingSpent
<1>3. CASE WriteBaseline \/ WriteTemp \/ Finish
  <2>1. /\ UNCHANGED <<disk, loaded, options, plan, applied, skipped, promised, baseline>>
        /\ pc # "analyse" /\ pc' \notin {"analyse", "crashed"} /\ (pc' = "done" => Finish)
    BY <1>3 DEF WriteBaseline, WriteTemp, Finish, doc, found
  <2>2. Finish => /\ exit' # "error" /\ Pending = {}
                  /\ options.baseline = "update" => exit' = "success"
    BY DEF Finish, ExitStatus
  <2> QED
    BY <1>2, <2>1, <2>2 DEF PreviewInv, Failed, DistinctTargets, Contained, Pending
<1>4. ASSUME NEW x \in plan, ApplyOne(x) PROVE PreviewInv'
  <2>1. /\ UNCHANGED <<loaded, options, plan, promised, baseline>>
        /\ pc # "analyse" /\ pc' \in {"apply", "write"}
    BY <1>4 DEF ApplyOne, Uncontained, Preview, Refuse, AlreadyThere, ReadAndEdit, Rename, Performing,
                Skip, Succeed, doc, found
  <2>2. options.hashed = {} /\ DistinctTargets => \A y \in skipped' : ~ Contained(y)
    <3>1. CASE Uncontained(x)
      BY <1>2, <2>1, <3>1 DEF Uncontained, Skip, PreviewInv
    <3>2. CASE Refuse(x)
      BY <1>1, <2>1, <3>2, TargetStays DEF Refuse, Refuses, Performing, IsNext
    <3>3. CASE ~ Uncontained(x) /\ ~ Refuse(x)
      <4>1. UNCHANGED skipped
        BY <1>4, <3>3 DEF ApplyOne, Preview, AlreadyThere, ReadAndEdit, Rename
      <4> QED
        BY <1>2, <2>1, <4>1 DEF PreviewInv
    <3> QED
      BY <3>1, <3>2, <3>3
  <2>3. options.dryRun => disk' = loaded /\ \A y \in applied' : Contained(y)
    <3>1. CASE Rename(x)
      BY <1>1, <2>1, <3>1 DEF Rename, FixInv, EditInv
    <3>2. CASE Preview(x)
      BY <1>2, <2>1, <3>2 DEF Preview, Succeed, doc, PreviewInv
    <3>3. CASE ~ Rename(x) /\ ~ Preview(x)
      BY <1>2, <1>4, <2>1, <3>3
      DEF ApplyOne, Uncontained, Refuse, AlreadyThere, ReadAndEdit, Performing, Skip, doc, PreviewInv
    <3> QED
      BY <3>1, <3>2, <3>3
  <2> QED
    BY <1>2, <2>1, <2>2, <2>3 DEF PreviewInv, Failed, DistinctTargets, Contained
<1>5. CASE Analyse
  <2>1. /\ UNCHANGED <<options, baseline, applied, skipped, promised>> /\ pc = "analyse"
        /\ disk' = Tagged(disk) /\ loaded' = disk' /\ pc' \in {"record", "apply"}
        /\ (plan' # {} => options.fix)
    BY <1>5, AnalyseFacts DEF Planned
  <2>2. applied = {} /\ skipped = {}
    BY <1>1, <2>1 DEF TypeOK, IssuesInv
  <2>3. ASSUME promised # {} PROVE promised \subseteq plan'
    <3>1. /\ options.fix /\ options.baseline # "update" /\ disk = Tagged(disk)
          /\ promised \subseteq PlanUnder(disk, options, Prints)
      BY <1>2, <2>1, <2>3 DEF PreviewInv
    <3>2. plan' = PlanFixes(Analysis', Expected')
      BY <1>5, <3>1, AnalyseFacts DEF Planned
    <3>3. Analysis' = AnalysisUnder(disk, options) /\ Prints' = Prints
      BY <2>1, <3>1 DEF Analysis, AnalysisUnder, Prints
    <3>4. Expected' = IF options.baseline = "use" THEN Unrecorded(Prints, Findings(Analysis'))
                                                  ELSE Findings(Analysis')
      BY <2>1, <3>3 DEF Expected
    <3> QED
      BY <3>1, <3>2, <3>3, <3>4 DEF PlanUnder
  <2> QED
    BY <1>2, <2>1, <2>2, <2>3 DEF PreviewInv, Failed, Contained
<1>6. CASE InstallBaseline
  <2>1. /\ UNCHANGED <<disk, loaded, options, applied, skipped, promised>>
        /\ pc = "install" /\ pc' = "apply" /\ plan = {} /\ (plan' # {} => options.fix)
    BY <1>1, <1>6 DEF InstallBaseline, doc, Planned, IssuesInv
  <2>2. applied = {} /\ skipped = {} /\ promised = {}
    BY <1>1, <1>2, <2>1 DEF TypeOK, PreviewInv
  <2> QED
    BY <1>2, <2>1, <2>2 DEF PreviewInv, Failed, Contained
<1>7. CASE RunAgain
  <2>1. /\ pc = "done" /\ UNCHANGED <<disk, baseline>> /\ options' \in Commands /\ pc' = "analyse"
        /\ plan' = {} /\ applied' = {} /\ skipped' = {}
        /\ promised' = IF options.dryRun /\ ~ HasRecorded THEN applied ELSE {}
    BY <1>2, <1>7 DEF RunAgain, PreviewInv, doc
  <2>2. options \in Options
    BY <1>1 DEF TypeOK
  <2>3. ASSUME promised' # {}
        PROVE  /\ options' = [options EXCEPT !.dryRun = FALSE] /\ options.fix
               /\ options.baseline # "update" /\ promised' = applied /\ options.dryRun
    BY <1>1, <1>2, <2>1, <2>3 DEF Commands, HasRecorded, PreviewInv, TypeOK
  <2>4. ASSUME promised' # {}
        PROVE  /\ \A x \in promised' : Contained(x)'
               /\ ~ options'.dryRun /\ options'.fix /\ options'.baseline # "update"
               /\ disk' = Tagged(disk') /\ promised' \subseteq PlanUnder(disk', options', Prints')
    <3>1. /\ options'.outside = options.outside /\ ~ options'.dryRun /\ options'.fix
          /\ options'.baseline = options.baseline /\ options'.imports = options.imports
          /\ options'.unseen = options.unseen /\ options'.shared = options.shared
          /\ options'.settings = options.settings /\ options'.addMissing = options.addMissing
      BY <2>2, <2>3, <2>4 DEF Options
    <3>2. \A x \in promised' : Contained(x)'
      BY <1>2, <2>3, <2>4, <3>1 DEF PreviewInv, Contained
    <3>3. disk = loaded /\ loaded = Tagged(Stripped(loaded))
      BY <1>2, <2>1, <2>3, <2>4 DEF PreviewInv, FixInv, BaselineInv
    <3>4. loaded = Tagged(loaded)
      <4>1. Tagged(Tagged(Stripped(loaded))) = Tagged(Stripped(loaded))
        BY DEF Tagged
      <4> QED
        BY <3>3, <4>1
    <3>5. disk' = Tagged(disk')
      <4>1. Tagged(disk') = Tagged(disk)
        BY <2>1
      <4> QED
        BY <2>1, <3>3, <3>4, <4>1
    <3>6. applied \subseteq PlanUnder(loaded, options, Prints)
      BY <1>1, <1>2, <2>1, PlanIsUnder DEF TypeOK, PreviewInv
    <3>7. PlanUnder(loaded, options', Prints) = PlanUnder(loaded, options, Prints)
      <4>1. AnalysisUnder(loaded, options') = AnalysisUnder(loaded, options)
        BY <3>1 DEF AnalysisUnder
      <4> QED
        BY <3>1, <4>1 DEF PlanUnder
    <3>8. Prints' = Prints
      BY <2>1 DEF Prints
    <3> QED
      BY <2>1, <2>3, <2>4, <3>1, <3>2, <3>3, <3>5, <3>6, <3>7, <3>8
  <2> QED
    BY <2>1, <2>4 DEF PreviewInv, Failed
<1>8. CASE UNCHANGED vars
  <2>1. UNCHANGED <<disk, loaded, options, plan, applied, skipped, promised, baseline, pc, exit>>
        /\ UNCHANGED Prints
    BY <1>8 DEF vars, Prints
  <2> QED
    BY <1>2, <2>1 DEF PreviewInv, Failed, DistinctTargets, Contained, Pending
<1> QED
  BY <1>2, <1>3, <1>4, <1>5, <1>6, <1>7, <1>8, NextIs DEF Applying, Settled

(* "so a preview never promises an edit the real run refuses" (apply.rs),  *)
(* where no file pins hashes and no two edits name one entry.              *)
THEOREM PreviewIsKept == Spec => []PreviewKeptUnlessPinned
<1>1. FixInv /\ PreviewInv => PreviewKeptUnlessPinned
  <2> SUFFICES ASSUME FixInv, PreviewInv, options.hashed = {}, DistinctTargets, pc = "done",
                      ~ options.dryRun, budget = NoBudget
               PROVE  promised \subseteq applied
    BY DEF PreviewKeptUnlessPinned, PreviewKept
  <2>1. promised \subseteq plan /\ \A x \in promised : x \notin skipped
    BY DEF PreviewInv
  <2>2. Pending = {}
    BY DEF PreviewInv
  <2> QED
    BY <2>1, <2>2 DEF Pending
<1>2. Init => PreviewInv
  BY DEF Init, PreviewInv, Failed
<1> QED
  BY <1>1, <1>2, PreviewStep, FixInvariant, PTL DEF Spec

=============================================================================
