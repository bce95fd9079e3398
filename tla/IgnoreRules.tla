----------------------------- MODULE IgnoreRules -----------------------------
(***************************************************************************)
(* What the ignore files of a tree say of an entry (gitignore_skips and    *)
(* MatchState, src/sources/cache.rs).  The tree is made of the directory   *)
(* Top, a filesystem root, and of entries with their parents.  The         *)
(* patterns of an ignore file say of an entry nothing, that it is ignored, *)
(* that it is if it is a directory, or that it is kept.                    *)
(***************************************************************************)
EXTENDS Integers, Sequences

CONSTANTS
  Top,      \* the filesystem root
  Entries,  \* everything below it
  Parent,   \* of an entry, the directory it is in
  Kind,     \* of an entry: "dir", "file" or "link"
  Verdict   \* of an ignore file, what it says of each entry

Dirs == {Top} \cup {e \in Entries : Kind[e] = "dir"}

(* Every entry is in a directory, and going up from it one comes to Top.   *)
ASSUME TreeAssumption ==
  /\ Top \notin Entries /\ Parent \in [Entries -> Dirs]
  /\ \A S \in SUBSET Entries : S # {} => \E e \in S : Parent[e] \notin S

(* The directories from the filesystem root down to d.                     *)
PathTo[d \in Dirs] == IF d = Top THEN <<d>> ELSE Append(PathTo[Parent[d]], d)

Depth(d) == Len(PathTo[d])
IsUnder(d, root) == Depth(root) <= Depth(d) /\ PathTo[d][Depth(root)] = root

(* The walked directories from root down to d, and the directories above   *)
(* root, closest first.                                                    *)
ChainTo(root, d) == SubSeq(PathTo[d], Depth(root), Depth(d))
Above(root) == [i \in 1 .. Depth(root) - 1 |-> PathTo[root][Depth(root) - i]]

Says(file, e, isDir) ==
  IF Verdict[file][e] = "ignoreDir" THEN IF isDir THEN "ignore" ELSE "none"
  ELSE Verdict[file][e]

Unmatched == [gitignore |-> "none", exclude |-> "none", sawGit |-> FALSE]

Or(match, other) == IF match = "none" THEN other ELSE match

(* MatchState::visit: nothing above a repository is read.                  *)
Visit(state, dir, e, isDir) ==
  [gitignore |-> IF state.sawGit THEN state.gitignore
                 ELSE Or(state.gitignore, Says(dir.gitignore, e, isDir)),
   exclude   |-> IF state.sawGit THEN state.exclude
                 ELSE Or(state.exclude, Says(dir.exclude, e, isDir)),
   sawGit    |-> state.sawGit \/ dir.git]

(* The state after the directories of a sequence, closest first.           *)
Visited(dirs, e, isDir) ==
  LET after[i \in 0 .. Len(dirs)] ==
        IF i = 0 THEN Unmatched ELSE Visit(after[i - 1], dirs[i], e, isDir)
  IN after[Len(dirs)]

Closest(chain) == [i \in 1 .. Len(chain) |-> chain[Len(chain) + 1 - i]]

(* Without a repository git reads nothing; the .gitignore files still      *)
(* apply, from the walk root down.                                         *)
PlainlySkips(chain, e, isDir) ==
  \E i \in 1 .. Len(chain) :
     /\ Says(chain[i].gitignore, e, isDir) = "ignore"
     /\ \A j \in i + 1 .. Len(chain) : Says(chain[j].gitignore, e, isDir) = "none"

(* gitignore_skips: chain leads from the walk root down to the parent of   *)
(* e, ancestors from the walk root up.                                     *)
GitignoreSkips(chain, ancestors, e, isDir) ==
  IF \A i \in 1 .. Len(chain) + Len(ancestors) : ~ (chain \o ancestors)[i].git
  THEN PlainlySkips(chain, e, isDir)
  ELSE LET state == Visited(Closest(chain) \o ancestors, e, isDir)
       IN Or(state.gitignore, state.exclude) = "ignore"

----------------------------------------------------------------------------
(* The reference: what git does with the rules of the directories.  Those  *)
(* that rule an entry are around it and within every repository around it, *)
(* and without a repository within the walk; the closest that says         *)
(* anything of it decides, any .gitignore before any exclude.              *)
Around(e) == {d \in Dirs : IsUnder(Parent[e], d)}
Repositories(rules, e) == {d \in Around(e) : rules[d].git}

Ruling(rules, root, e) ==
  IF Repositories(rules, e) = {} THEN {d \in Around(e) : IsUnder(d, root)}
  ELSE {d \in Around(e) : \A g \in Repositories(rules, e) : IsUnder(d, g)}

ClosestIgnores(verdict, ruling) ==
  \E d \in ruling : /\ verdict[d] = "ignore"
                    /\ \A c \in ruling \ {d} : IsUnder(c, d) => verdict[c] = "none"

IsIgnored(rules, root, e, isDir) ==
  LET ruling    == Ruling(rules, root, e)
      gitignore == [d \in ruling |-> Says(rules[d].gitignore, e, isDir)]
      exclude   == [d \in ruling |-> Says(rules[d].exclude, e, isDir)]
  IN \/ ClosestIgnores(gitignore, ruling)
     \/ /\ Repositories(rules, e) # {} /\ \A d \in ruling : gitignore[d] = "none"
        /\ ClosestIgnores(exclude, ruling)
=============================================================================
