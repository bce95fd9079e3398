----------------------------- MODULE OrderedMap -----------------------------
(***************************************************************************)
(* What src/parallel.rs promises its callers: a map over the items returns *)
(* the results in item order, as the sequential map does, or unwinds the   *)
(* caller when the work panics on some item or a thread cannot be started. *)
(***************************************************************************)
EXTENDS Naturals, Sequences

CONSTANTS
    N,          \* the number of items
    Work        \* Work[i] is the result of the work on item i

Running == [kind |-> "running"]
Panicked == [kind |-> "panicked"]
Returned(results) == [kind |-> "returned", results |-> results]

VARIABLES
    panics,     \* the items the work panics on
    scarce,     \* whether the system may refuse a thread
    outcome     \* what the call returns

Init ==
    /\ panics \in SUBSET (1..N)
    /\ scarce \in BOOLEAN
    /\ outcome = Running

Return ==
    /\ outcome = Running
    /\ panics = {}
    /\ outcome' = Returned([i \in 1..N |-> Work[i]])
    /\ UNCHANGED <<panics, scarce>>

Unwind ==
    /\ outcome = Running
    /\ panics # {} \/ scarce
    /\ outcome' = Panicked
    /\ UNCHANGED <<panics, scarce>>

vars == <<panics, scarce, outcome>>

Next == Return \/ Unwind

SafeSpec == Init /\ [][Next]_vars
Spec == SafeSpec /\ WF_vars(Next)
=============================================================================
