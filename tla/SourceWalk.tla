----------------------------- MODULE SourceWalk -----------------------------
(***************************************************************************)
(* Walks over overlapping trees (src/sources/walk.rs) that share the       *)
(* ignore files they read (SourcesCache, src/sources/cache.rs).  A walk is *)
(* known by the directory it starts from.  It reads the ignore files of    *)
(* its root and of the directories above, then goes through the entries    *)
(* depth first, in the order the filesystem lists them, and its filter     *)
(* keeps the rules of the directories it is in on a stack.  An ignore file *)
(* is parsed outside the lock and may be edited at any moment.             *)
(***************************************************************************)
EXTENDS IgnoreRules

CONSTANTS
  Walks,     \* directories that are walked, each at most once
  Excluded,  \* entries the exclude globs match
  Unread,    \* the memo of a directory nobody has read
  Readings,  \* of a directory, what its ignore files can be
  MaxEdits   \* bound: edits of ignore files

ASSUME WalksAssumption == Walks \subseteq Dirs

ASSUME ReadingsAssumption ==
  \A d \in Dirs : Unread \notin Readings[d] /\ \A rules \in Readings[d] : rules.git \in BOOLEAN

AreIgnoreFiles(files) == files \in [Dirs -> UNION {Readings[d] : d \in Dirs}]
                           /\ \A d \in Dirs : files[d] \in Readings[d]

IsListing(list) ==
  /\ list \in [Dirs -> Seq(Entries)]
  /\ \A d \in Dirs : \A i \in 1 .. Len(list[d]) : Parent[list[d][i]] = d

VARIABLES
  disk,   \* the ignore files of each directory
  listing, \* the order in which the filesystem lists a directory
  edits,  \* the number of edits
  memo,   \* SourcesCache.dirs
  walk    \* the state of each walk, see NotBegun

walkVars == <<disk, listing, edits, memo, walk>>

(* need: directories whose rules it asks the cache for; reading: what it   *)
(* parsed itself, outside the lock; ancestors: the rules above its root;   *)
(* open: the directories it is in, with the entries left; stack: what its  *)
(* filter holds; seen: what became of an entry.                            *)
NotBegun ==
  [at |-> "idle", need |-> << >>, reading |-> Unread, ancestors |-> << >>, open |-> << >>,
   stack |-> << >>, seen |-> [e \in Entries |-> "unseen"]]

(* The ignore files, the order of the entries and the edits are a           *)
(* project's.                                                              *)
NothingRead ==
  /\ memo = [d \in Dirs |-> Unread]
  /\ walk = [w \in Walks |-> NotBegun]

(* Mutant: a walk reads nothing above its root.                            *)
AncestorsNone(w) == << >>

AncestorsOf(w) == Above(w)

(* collect_files: root_gitignore_warning, SourcesCache::ancestors.         *)
Begin(w) ==
  /\ walk[w].at = "idle"
  /\ walk' = [walk EXCEPT ![w] =
       [@ EXCEPT !.at = "walking", !.need = <<w>> \o AncestorsOf(w),
                 !.open = <<[dir |-> w, left |-> listing[w]]>>]]
  /\ UNCHANGED <<disk, listing, edits, memo>>

Reads(w) == walk[w].at = "walking" /\ walk[w].need # << >>
Wanted(w) == Head(walk[w].need)

(* What the cache answers; the rules above the root are kept.              *)
Given(w, rules) ==
  [walk[w] EXCEPT !.need = Tail(@), !.reading = Unread,
                  !.ancestors = IF IsUnder(Wanted(w), w) THEN @ ELSE Append(@, rules)]

(* SourcesCache::dir, first under the lock.                                *)
Lookup(w) ==
  /\ Reads(w) /\ walk[w].reading = Unread
  /\ memo[Wanted(w)] # Unread
  /\ walk' = [walk EXCEPT ![w] = Given(w, memo[Wanted(w)])]
  /\ UNCHANGED <<disk, listing, edits, memo>>

Miss(w) ==
  /\ Reads(w) /\ memo[Wanted(w)] = Unread
  /\ walk' = [walk EXCEPT ![w].at = "parsing"]
  /\ UNCHANGED <<disk, listing, edits, memo>>

(* DirIgnore::read, outside the lock.                                      *)
Parse(w) ==
  /\ walk[w].at = "parsing" /\ walk[w].reading = Unread
  /\ walk' = [walk EXCEPT ![w].reading = disk[Wanted(w)]]
  /\ UNCHANGED <<disk, listing, edits, memo>>

(* Mutant: the last of two racing walks overwrites the first.              *)
InsertOver(w) ==
  LET d == Wanted(w)
  IN /\ walk[w].at = "parsing" /\ walk[w].reading # Unread
     /\ memo' = [memo EXCEPT ![d] = walk[w].reading]
     /\ walk' = [walk EXCEPT ![w] = [Given(w, memo'[d]) EXCEPT !.at = "walking"]]
     /\ UNCHANGED <<disk, listing, edits>>

(* or_insert: the first of two racing walks decides for both.              *)
Insert(w) ==
  LET d == Wanted(w)
  IN /\ walk[w].at = "parsing" /\ walk[w].reading # Unread
     /\ memo' = [memo EXCEPT ![d] = IF @ = Unread THEN walk[w].reading ELSE @]
     /\ walk' = [walk EXCEPT ![w] = [Given(w, memo'[d]) EXCEPT !.at = "walking"]]
     /\ UNCHANGED <<disk, listing, edits>>

----------------------------------------------------------------------------
(* GitignoreFilter::skips: the directories the walk has left are dropped.  *)
Keeps(stack, parent, k) ==
  /\ k = 0 \/ IsUnder(parent, stack[k].dir)
  /\ \A j \in k + 1 .. Len(stack) : ~ IsUnder(parent, stack[j].dir)

(* Mutant: only the directory it was in last is dropped.                   *)
KeptButLast(stack, parent) ==
  IF stack = << >> \/ IsUnder(parent, stack[Len(stack)].dir) THEN stack
  ELSE SubSeq(stack, 1, Len(stack) - 1)

Kept(stack, parent) ==
  SubSeq(stack, 1, CHOOSE k \in 0 .. Len(stack) : Keeps(stack, parent, k))

Held(d) == [dir |-> d, rules |-> memo[d]]

(* The directories entered since are added, with what the cache says.      *)
Synced(w, parent) ==
  LET kept  == Kept(walk[w].stack, parent)
      rooted == IF kept = << >> THEN <<Held(w)>> ELSE kept
      top   == rooted[Len(rooted)].dir
      below == SubSeq(PathTo[parent], Depth(top) + 1, Depth(parent))
  IN rooted \o [i \in 1 .. Len(below) |-> Held(below[i])]

RulesOn(stack) == [i \in 1 .. Len(stack) |-> stack[i].rules]

FilterSkips(w, stack, e) ==
  /\ IsUnder(Parent[e], stack[Len(stack)].dir)
  /\ GitignoreSkips(RulesOn(stack), walk[w].ancestors, e, Kind[e] = "dir")

(* WalkIgnore::skips, which asks the cache for the whole chain.            *)
ChainSkips(w, e, isDir) ==
  LET chain == ChainTo(w, Parent[e])
  IN GitignoreSkips([i \in 1 .. Len(chain) |-> memo[chain[i]]], walk[w].ancestors, e, isDir)

AtEntry(w, e) ==
  /\ walk[w].at = "walking" /\ walk[w].need = << >> /\ walk[w].open # << >>
  /\ walk[w].open[Len(walk[w].open)].left # << >>
  /\ e = Head(walk[w].open[Len(walk[w].open)].left)

Taken(w, e, as) ==
  [walk[w] EXCEPT !.open[Len(walk[w].open)].left = Tail(@), !.seen[e] = as]

(* configure_walker: the exclude globs come before the ignore files.       *)
Prune(w, e) ==
  /\ AtEntry(w, e) /\ e \in Excluded
  /\ walk' = [walk EXCEPT ![w] = Taken(w, e, "pruned")]
  /\ UNCHANGED <<disk, listing, edits, memo>>

(* filter_entry, and what collect_files does with the entry: it warns of a *)
(* link unless the link is ignored as a directory, and asks for the rules  *)
(* of a directory, which is gone through next.                             *)
Meet(w, e) ==
  LET stack == Synced(w, Parent[e])
      as == IF FilterSkips(w, stack, e) THEN "skipped"
            ELSE IF Kind[e] = "link" /\ ~ ChainSkips(w, e, TRUE) THEN "named"
            ELSE "kept"
      taken == [Taken(w, e, as) EXCEPT !.stack = stack]
  IN /\ AtEntry(w, e) /\ e \notin Excluded
     /\ walk' = [walk EXCEPT ![w] =
          IF as = "kept" /\ Kind[e] = "dir"
          THEN [taken EXCEPT !.need = <<e>>, !.open = Append(@, [dir |-> e, left |-> listing[e]])]
          ELSE taken]
     /\ UNCHANGED <<disk, listing, edits, memo>>

Leave(w) ==
  LET open == walk[w].open
  IN /\ walk[w].at = "walking" /\ walk[w].need = << >>
     /\ open # << >> /\ open[Len(open)].left = << >>
     /\ walk' = [walk EXCEPT ![w].open = SubSeq(open, 1, Len(open) - 1),
                             ![w].at = IF Len(open) = 1 THEN "done" ELSE @]
     /\ UNCHANGED <<disk, listing, edits, memo>>

WalkStep(w) ==
  \/ Lookup(w) \/ Miss(w) \/ Parse(w) \/ Insert(w) \/ Leave(w)
  \/ \E e \in Entries : Prune(w, e) \/ Meet(w, e)

(* The user edits the ignore files of a directory.                         *)
EditIgnore(d) ==
  /\ edits < MaxEdits /\ edits' = edits + 1
  /\ \E rules \in Readings[d] \ {disk[d]} : disk' = [disk EXCEPT ![d] = rules]
  /\ UNCHANGED <<listing, memo, walk>>

----------------------------------------------------------------------------
WalkTypeOK ==
  /\ \A d \in Dirs : disk[d] \in Readings[d] /\ memo[d] \in Readings[d] \cup {Unread}
  /\ edits \in 0 .. MaxEdits
  /\ \A w \in Walks : walk[w].at \in {"idle", "walking", "parsing", "done"}

(* "A racing walk computes the same value" (src/sources/cache.rs 130): two *)
(* walks that race to read an ignore file that is edited in between go by  *)
(* one reading of it, and keep to it.                                      *)
OneReading ==
  \A w \in Walks :
     /\ \A i \in 1 .. Len(walk[w].stack) : walk[w].stack[i].rules = memo[walk[w].stack[i].dir]
     /\ \A i \in 1 .. Len(walk[w].ancestors) : walk[w].ancestors[i] = memo[Above(w)[i]]

(* What a walk that is over made of the entries.                           *)
Judged(w) ==
  {e \in Entries : walk[w].at = "done" /\ walk[w].seen[e] \notin {"unseen", "pruned"}}

(* What git's rules make of an entry.  A walk follows no link, and warns   *)
(* of one unless it is ignored, as a file or as the directory it may be.   *)
Fate(w, e) ==
  IF IsIgnored(memo, w, e, Kind[e] = "dir") THEN "skipped"
  ELSE IF Kind[e] = "link" /\ ~ IsIgnored(memo, w, e, TRUE) THEN "named"
  ELSE "kept"

(* Whatever the order in which a walk meets the entries, what it makes of  *)
(* one follows from the rules of the directories around that entry.        *)
WalkFollowsGit == \A w \in Walks : \A e \in Judged(w) : walk[w].seen[e] = Fate(w, e)

Over(w, m) == w # m /\ IsUnder(m, w)
InRepository(d) == memo[d] # Unread /\ memo[d].git

(* A member's own walk and the walk of the tree around it agree on every   *)
(* entry of the member, in a repository (#757); outside of one each reads  *)
(* the rules below its own root (#1220).                                   *)
WalksAgree ==
  \A w, m \in Walks :
     Over(w, m) /\ (\E i \in 1 .. Depth(m) : InRepository(PathTo[m][i])) =>
        \A e \in Judged(w) \cap Judged(m) : walk[w].seen[e] = walk[m].seen[e]
=============================================================================
