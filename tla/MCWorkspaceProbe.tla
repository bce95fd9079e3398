--------------------------- MODULE MCWorkspaceProbe --------------------------
(***************************************************************************)
(* The root R, below T, holds the member M, which holds the member S.      *)
(***************************************************************************)
EXTENDS WorkspaceProbe, TLC

CONSTANTS T, R, M, S, a, b, c, l, x

MCEntries == {R, M, S, a, b, c, l, x}
MCParent == (R :> T) @@ (a :> R) @@ (M :> R) @@ (b :> M) @@ (l :> M) @@ (S :> M) @@ (c :> S)
              @@ (x :> S)
MCKind == [e \in MCEntries |-> IF e \in {R, M, S} THEN "dir" ELSE IF e = l THEN "link" ELSE "file"]

(* Ignore files: a, b and c are files of one name.                         *)
Of(set, verdict) == [e \in MCEntries |-> IF e \in set THEN verdict ELSE "none"]

MCVerdict ==
  [none   |-> Of({}, "none"), ignore |-> Of({a, b, c}, "ignore"), keep |-> Of({a, b, c}, "keep"),
   dirS   |-> Of({S}, "ignoreDir"), dirL |-> Of({l}, "ignoreDir"),
   all |-> Of(MCEntries, "ignore")]

Rule(gitignore, exclude, git) == [gitignore |-> gitignore, exclude |-> exclude, git |-> git]

Patterns(d) == {"none", "ignore", "keep"} \cup (IF d = R THEN {"dirS", "dirL"} ELSE {})

Rules(d) ==
  {Rule(f, "none", git) : f \in Patterns(d), git \in BOOLEAN}
    \cup {Rule(f, "ignore", TRUE) : f \in {"none", "keep"}}

MCReadings == [d \in {T, R, M, S} |-> Rules(d) \cup {Rule("all", "none", FALSE)}]

NoFault == [d \in {R, M, S} |-> "none"]

Listed(inR, inM) == T :> <<R>> @@ R :> inR @@ M :> inM @@ S :> <<x, c>>
DirsFirst == Listed(<<M, a>>, <<S, b, l>>)
DirsLast  == Listed(<<M, a>>, <<b, l, S>>)

Project(members, fault, tree, order, spent) ==
  [members |-> members, fault |-> fault, production |-> FALSE, disk |-> tree, listing |-> order,
   edits |-> spent]

(* One walk, of the root or of a member, over every kind of tree.          *)
Trees ==
  {T :> k @@ R :> m @@ M :> n @@ S :> o :
     k \in {r \in Rules(T) : r.exclude = "none" /\ r.gitignore # "keep"},
     m \in Rules(R), n \in Rules(M),
     o \in {r \in Rules(S) : ~ r.git}}

Alone ==
  {Project(<< >>, NoFault, tree, order, 1) : tree \in Trees, order \in {DirsFirst, DirsLast}}
    \cup {Project(<<M>>, [NoFault EXCEPT ![R] = "glob"], tree, DirsFirst, 1) : tree \in Trees}

(* The walks of the root and of a member, while the user edits a file.     *)
Calm(git) ==
  T :> Rule("none", "none", FALSE) @@ R :> Rule("keep", "none", git)
    @@ M :> Rule("ignore", "none", FALSE) @@ S :> Rule("none", "none", FALSE)

Edited == {Project(<<M>>, NoFault, Calm(git), DirsFirst, 0) : git \in BOOLEAN}

(* Faults of three threads, and what --production drops, where every walk  *)
(* is over soon.                                                           *)
Barren == [d \in {T, R, M, S} |-> Rule("all", "none", FALSE)]

Faulty ==
  {Project(<<M, S>>, R :> r @@ M :> m @@ S :> s, Barren, DirsFirst, 1) :
     r \in {"none", "glob", "panic"},
     m \in {"none", "gone", "config", "manifest", "glob", "panic"},
     s \in {"none", "gone", "manifest", "panic"}}

Plain == [d \in {T, R, M, S} |-> Rule("none", "none", FALSE)]

Production ==
  {[Project(members, NoFault, Plain, DirsFirst, 1) EXCEPT !.production = TRUE] :
     members \in {<<M, S>>, <<S, M>>}}

MCProjects == Alone \cup Edited \cup Faulty \cup Production

Names == {"m", "s"}
Using(ofR, ofM, ofS) == R :> ofR @@ M :> ofM @@ S :> ofS
MCManifests ==
  {[name |-> M :> "m" @@ S :> n, published |-> p, runtime |-> Using(u[1], u[2], u[3]),
    dev |-> Using(u[4], u[5], {})] :
     n \in Names, p \in SUBSET {M},
     u \in (SUBSET Names) \X {{}, {"s"}} \X {{}, {"m"}} \X (SUBSET Names) \X {{}, {"s"}}}
=============================================================================
