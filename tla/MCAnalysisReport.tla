-------------------------- MODULE MCAnalysisReport --------------------------
(***************************************************************************)
(* The walks of MCReachabilityBfs over code without references, and small  *)
(* packages whose files define, import and star-import one name: a is the  *)
(* package's root, d a test of it or a helper no test imports.             *)
(***************************************************************************)
EXTENDS MCReachabilityBfs, AnalysisReport

CONSTANTS n, k, w1, w2

MCNames == {n, k}
MCWorkers == {w1, w2}

None == [f \in Files |-> {}]

NoAll == [state |-> "absent", names |-> {}]
Listing(names) == [state |-> "known", names |-> names]

Inert ==
    [named |-> Files, stars |-> None, defines |-> None, binds |-> None,
     all |-> [f \in Files |-> NoAll], uses |-> [f \in Files |-> <<>>],
     order |-> <<a, b, c, d>>, production |-> FALSE, tests |-> {}, rooted |-> {},
     private |-> {}, inits |-> {}, library |-> {}, unshipped |-> {}, wheels |-> {},
     surface |-> Files, inside |-> None, reexports |-> None, declared |-> None,
     outside |-> {}]

On(files, name) == [f \in Files |-> IF f \in files THEN {name} ELSE {}]

(* A library's package under --production, its test d held back. *)
Package ==
    [Inert EXCEPT !.named = {a, b, c}, !.tests = {d}, !.surface = {a, b, c},
                  !.rooted = {d}, !.library = Files, !.production = TRUE]

Alls ==
    {[f \in Files |-> NoAll]}
        \cup {[f \in Files |-> IF f = l[1] THEN Listing({l[2]}) ELSE NoAll] :
                 l \in {<<a, n>>, <<b, k>>, <<c, k>>}}

(* Every way a, b and c star-import each other but in a cycle through a. *)
Starred ==
    {[Package EXCEPT !.production = p, !.stars = (a :> x @@ b :> y @@ c :> z @@ d :> {}),
                     !.defines = On(def, n), !.binds = On(def, n), !.all = all,
                     !.uses = [f \in Files |-> IF f = d THEN <<<<u, n>>>> ELSE <<>>]] :
        x \in SUBSET {b, c}, y \in {{}, {c}}, z \in {{}, {b}},
        def \in {{b}, {c}, {b, c}, {a, b}}, all \in Alls, u \in {a, c}, p \in BOOLEAN}

(* The helper that no test imports, and a private module of the package. *)
Helped ==
    {[Package EXCEPT !.rooted = r, !.private = p, !.all = all,
                     !.stars = [f \in Files |-> IF f = c THEN {b} ELSE {}],
                     !.defines = On(def, n), !.binds = On(def, n),
                     !.uses = (a :> <<<<b, k>>>> @@ b :> <<>> @@ c :> x
                               @@ d :> <<u>>)] :
        r \in {{}, {d}}, p \in {{}, {b}, {c}}, all \in Alls, def \in {{b}, {b, c}},
        x \in {<<>>, <<<<c, n>>, <<b, n>>>>}, u \in {<<b, n>>, <<b, k>>, <<c, n>>}}

(* The root imports a name from b for others, in an app and in a library. *)
Reexporting ==
    {[Package EXCEPT !.library = l, !.production = p, !.inits = {a}, !.wheels = w,
                     !.rooted = r, !.defines = On({b}, n), !.binds = On({a, b}, n),
                     !.stars = [f \in Files |-> IF f = c THEN {a} ELSE {}],
                     !.reexports = On({a}, n), !.declared = On(y, n), !.inside = On(i, n),
                     !.uses = (a :> <<<<b, n>>>> @@ b :> <<>> @@ c :> <<>> @@ d :> u)] :
        l \in {{}, Files}, p \in BOOLEAN, w \in {{}, {a, b}}, r \in {{}, {d}},
        y \in {{}, {a}}, i \in {{}, {a}, {b}},
        u \in {<<>>, <<<<a, n>>>>, <<<<c, n>>, <<b, n>>>>}}

PackageCodes == Starred \cup Helped \cup Reexporting

(* The import sites of code: what a file star-imports and what it refers to. *)
SitesOf(x) ==
    [f \in Files |->
        LET starred == SelectSeq(<<a, b, c>>, LAMBDA t : t \in x.stars[f])
        IN  [i \in DOMAIN starred |-> ImportOf(starred[i], Plain)]
            \o [i \in DOMAIN x.uses[f] |-> ImportOf(x.uses[f][i][1], Plain)]]

ProjectOf(x) ==
    [roots |-> IF ~x.production /\ x.rooted # {}
               THEN <<Root(a, FALSE), Root(d, FALSE)>> ELSE <<Root(a, FALSE)>>,
     plugin_refs |-> <<>>, framework |-> <<>>, sites |-> SitesOf(x),
     runtime |-> {a, b, c}, library |-> x.library, submodule |-> {}]

PackageProjects == {ProjectOf(x) : x \in PackageCodes}

AllProjects == MCProjects \cup PackageProjects

MCCodes == PackageCodes \cup {Inert}

MCCodesOf(p) ==
    IF p \in PackageProjects THEN {x \in PackageCodes : ProjectOf(x) = p} ELSE {Inert}
=============================================================================
