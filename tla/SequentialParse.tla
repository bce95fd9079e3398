--------------------------- MODULE SequentialParse ---------------------------
(***************************************************************************)
(* What parse_project_sources_with_cache of src/parser/parse.rs promises   *)
(* its caller, however the work is spread over threads: the modules of all *)
(* sources in discovery order, or the failure of a source before which     *)
(* everything could be read, as if the sources were read one by one; or a  *)
(* panic of the parser or of a refused thread.                             *)
(***************************************************************************)
EXTENDS Naturals

CONSTANT N          \* the number of sources

Running == [kind |-> "running"]
Panicked == [kind |-> "panicked"]
Failed(i) == [kind |-> "failed", source |-> i]
Delivered(modules) == [kind |-> "delivered", modules |-> modules]

VARIABLES
  cached,       \* the sources whose module the bundle held
  missing,      \* the sources that cannot be read (any more)
  panics,       \* the sources the parser panics on
  scarce,       \* whether the system may refuse a thread
  read,         \* the sources parsed so far
  outcome       \* what the caller gets

vars == <<cached, missing, panics, scarce, read, outcome>>

ToRead == 1..N \ cached

Init ==
  /\ cached \in SUBSET (1..N) /\ missing \in SUBSET (1..N)
  /\ panics \in SUBSET (1..N) /\ scarce \in BOOLEAN
  /\ read = {} /\ outcome = Running

Vanish ==
  /\ \E i \in 1..N : missing' = missing \cup {i}
  /\ UNCHANGED <<cached, panics, scarce, read, outcome>>

Ends(how) == outcome = Running /\ outcome' = how /\ UNCHANGED <<cached, missing, panics, scarce, read>>

Read ==
  /\ outcome = Running
  /\ \E i \in ToRead \ (missing \cup panics) : read' = read \cup {i}
  /\ UNCHANGED <<cached, missing, panics, scarce, outcome>>

Fail == \E i \in ToRead \cap missing : {j \in ToRead : j < i} \subseteq read /\ Ends(Failed(i))

Unwind == (panics \cap ToRead # {} \/ scarce) /\ Ends(Panicked)

Deliver == ToRead \subseteq read /\ Ends(Delivered([i \in 1..N |-> i]))

Next == Vanish \/ Read \/ Fail \/ Unwind \/ Deliver

Spec == Init /\ [][Next]_vars /\ WF_vars(Read \/ Fail \/ Unwind \/ Deliver)
=============================================================================
