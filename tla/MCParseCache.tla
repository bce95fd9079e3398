---------------------------- MODULE MCParseCache ----------------------------
(* Two runs work on one source, or one on two: the second goes before      *)
(* anything else happens, or stays.  Runs are interchangeable, and so are  *)
(* contexts.                                                               *)
EXTENDS ParseCache, TLC

Symmetry == Permutations(Runs) \cup Permutations(Contexts)

Second == "g"

Pristine == clock = 0 /\ written = 1 /\ \A c \in Contexts : bundles[c] = {}

OneRun == \E r \in Runs : \A q \in Runs \ {r} : run[q] = Gone

Narrow ==
  /\ \/ Exists(fs[Second]) = Exists(fs'[Second])
     \/ Pristine /\ run' = [r \in Runs |-> Gone]
  /\ Exists(fs'[Second]) => OneRun' /\ written' <= 2

=============================================================================
