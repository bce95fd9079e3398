---------------------------- MODULE ParallelFold ----------------------------
(***************************************************************************)
(* map_on and fold_on of src/parallel.rs: workers, the calling thread      *)
(* among them, claim items from one shared cursor until it passes the last *)
(* one; the caller then joins the helpers, rethrows a panic if any worker  *)
(* had one, and otherwise sorts what the workers did by item index.        *)
(***************************************************************************)
EXTENDS Integers, Sequences, FiniteSets

CONSTANTS
    N,              \* the number of items
    Work,           \* Work[i] is the result of the work on item i
    Helpers,        \* the threads fold_on may spawn besides the caller
    Caller          \* the calling thread

ASSUME SizeAssumption == N \in Nat
ASSUME CallerAssumption == Caller \notin Helpers
ASSUME HelpersAssumption == IsFiniteSet(Helpers)

Threads == Helpers \cup {Caller}

VARIABLES
    panics,     \* the items `work` panics on, chosen at the start
    scarce,     \* whether scope.spawn may panic for want of a thread
    cursor,     \* the index the next claim takes
    pc,         \* what each thread is doing
    item,       \* the item a thread has claimed
    done,       \* each worker's batch of (index, result), in order
    handles,    \* helpers spawned and not joined yet, in spawning order
    payload,    \* "panic" once a worker the caller joined, or the caller itself, panicked
    outcome     \* what map_on returns to its caller

vars == <<panics, scarce, cursor, pc, item, done, handles, payload, outcome>>

OM == INSTANCE OrderedMap

States == {"unspawned", "claim", "work", "finished", "panicked"}

CallerStates == {"spawn", "claim", "work", "join"}

Entry == [index : 1..N, result : {Work[i] : i \in 1..N}]

TypeOK ==
    /\ panics \subseteq 1..N
    /\ scarce \in BOOLEAN
    /\ cursor \in Nat \ {0}
    /\ pc \in [Threads -> States \cup CallerStates \cup {"stopped"}]
    /\ item \in [Threads -> Nat]
    /\ done \in [Threads -> Seq(Entry)]
    /\ handles \in Seq(Helpers)
    /\ payload \in {"none", "panic"}
    /\ outcome.kind \in {"running", "returned", "panicked"}

Init ==
    /\ panics \in SUBSET (1..N)
    /\ scarce \in BOOLEAN
    /\ cursor = 1
    /\ pc = [t \in Threads |-> IF t = Caller THEN "spawn" ELSE "unspawned"]
    /\ item = [t \in Threads |-> 0]
    /\ done = [t \in Threads |-> <<>>]
    /\ handles = <<>>
    /\ payload = "none"
    /\ outcome = OM!Running

Become(t, state) == pc' = [pc EXCEPT ![t] = state]

-----------------------------------------------------------------------------
(* The caller spawns the helpers one after the other; each starts at once. *)
Spawn(h) ==
    /\ pc[Caller] = "spawn"
    /\ pc[h] = "unspawned"
    /\ Become(h, "claim")
    /\ handles' = Append(handles, h)
    /\ UNCHANGED <<panics, scarce, cursor, item, done, payload, outcome>>

(* scope.spawn panics: the caller unwinds, but the scope still waits for   *)
(* the helpers spawned so far.                                             *)
SpawnFails ==
    /\ scarce
    /\ pc[Caller] = "spawn"
    /\ \E h \in Helpers : pc[h] = "unspawned"
    /\ payload' = "panic"
    /\ Become(Caller, "join")
    /\ UNCHANGED <<panics, scarce, cursor, item, done, handles, outcome>>

CallerWorks ==
    /\ pc[Caller] = "spawn"
    /\ \A h \in Helpers : pc[h] # "unspawned"
    /\ Become(Caller, "claim")
    /\ UNCHANGED <<panics, scarce, cursor, item, done, handles, payload, outcome>>

-----------------------------------------------------------------------------
(* A thread that stops: the caller goes on to join, a helper ends. *)
Stop(t, how) ==
    /\ Become(t, IF t = Caller THEN "join" ELSE how)
    /\ payload' = IF t = Caller /\ how = "panicked" THEN "panic" ELSE payload

(* cursor.fetch_add and items.get. *)
Claim(t) ==
    /\ pc[t] = "claim"
    /\ cursor' = cursor + 1
    /\ IF cursor <= N
       THEN /\ item' = [item EXCEPT ![t] = cursor]
            /\ Become(t, "work")
            /\ UNCHANGED payload
       ELSE /\ Stop(t, "finished")
            /\ UNCHANGED item
    /\ UNCHANGED <<panics, scarce, done, handles, outcome>>

DoWork(t) ==
    /\ pc[t] = "work"
    /\ IF item[t] \in panics
       THEN /\ Stop(t, "panicked")
            /\ UNCHANGED done
       ELSE /\ done' = [done EXCEPT ![t] =
                           Append(@, [index |-> item[t], result |-> Work[item[t]]])]
            /\ Become(t, "claim")
            /\ UNCHANGED payload
    /\ UNCHANGED <<panics, scarce, cursor, item, handles, outcome>>

-----------------------------------------------------------------------------
(* ScopedJoinHandle::join waits for the helper and yields its panic. *)
Join ==
    /\ pc[Caller] = "join"
    /\ handles # <<>>
    /\ pc[Head(handles)] \in {"finished", "panicked"}
    /\ payload' = IF pc[Head(handles)] = "panicked" THEN "panic" ELSE payload
    /\ handles' = Tail(handles)
    /\ UNCHANGED <<panics, scarce, cursor, pc, item, done, outcome>>

(* Mutant: a panicking caller does not wait for the helpers.               *)
FinishedOnPanic == pc[Caller] = "join" /\ (handles = <<>> \/ payload = "panic")

Finished == pc[Caller] = "join" /\ handles = <<>>

(* Everything the workers did: a place in some worker's batch each. *)
Places == UNION {{t} \X (1..Len(done[t])) : t \in Threads}

At(p) == done[p[1]][p[2]]

(* resume_unwind with a worker's payload. *)
Unwind ==
    /\ Finished
    /\ payload = "panic"
    /\ outcome' = OM!Panicked
    /\ Become(Caller, "stopped")
    /\ UNCHANGED <<panics, scarce, cursor, item, done, handles, payload>>

(* Mutant: the batches are concatenated and not sorted.                    *)
IsListing(s) == \A i, j \in 1..Len(s) : s[i] = s[j] => i = j

(* The batches are concatenated, sorted by index and stripped of it. *)
IsSorting(s) ==
    /\ \A i, j \in 1..Len(s) : s[i] = s[j] => i = j
    /\ \A i \in 1..Len(s) - 1 : At(s[i]).index <= At(s[i + 1]).index

Return ==
    /\ Finished
    /\ payload = "none"
    /\ \E s \in [1..Cardinality(Places) -> Places] :
          /\ IsSorting(s)
          /\ outcome' = OM!Returned([i \in 1..Len(s) |-> At(s[i]).result])
    /\ Become(Caller, "stopped")
    /\ UNCHANGED <<panics, scarce, cursor, item, done, handles, payload>>

Stopped == pc[Caller] = "stopped" /\ UNCHANGED vars

Next ==
    \/ \E h \in Helpers : Spawn(h)
    \/ SpawnFails \/ CallerWorks
    \/ \E t \in Threads : Claim(t) \/ DoWork(t)
    \/ Join \/ Unwind \/ Return \/ Stopped

(* The operating system runs every started thread. *)
Fairness ==
    /\ \A t \in Threads : WF_vars(Claim(t) \/ DoWork(t))
    /\ WF_vars((\E h \in Helpers : Spawn(h)) \/ CallerWorks \/ Join \/ Unwind \/ Return)

Spec == Init /\ [][Next]_vars /\ Fairness

-----------------------------------------------------------------------------
Busy(t) == pc[t] = "work"

(* No item is worked on twice: one thread is at work on it or has it in    *)
(* its batch, once, although all claim from one counter.                   *)
HandedOutOnce ==
    \A t, u \in Threads :
        /\ \A i \in 1..Len(done[t]), j \in 1..Len(done[u]) :
              done[t][i].index = done[u][j].index => t = u /\ i = j
        /\ Busy(t) => \A j \in 1..Len(done[u]) : item[t] # done[u][j].index
        /\ Busy(t) /\ Busy(u) /\ item[t] = item[u] => t = u

(* No thread is still running when the call is over, though the caller may *)
(* have panicked while helpers were at work: the borrows they hold end.    *)
NoThreadOutlivesCall ==
    outcome.kind # "running" =>
        \A h \in Helpers : pc[h] \in {"unspawned", "finished", "panicked"}

(* A batch-wise return has every item with its own result: none is lost    *)
(* when a worker finishes early, and none is returned past a panic.        *)
NothingLost ==
    outcome.kind = "returned" =>
        \A i \in 1..N :
            \E t \in Threads : \E k \in 1..Len(done[t]) :
                done[t][k] = [index |-> i, result |-> Work[i]]

(* The call returns what the sequential map returns, or unwinds exactly    *)
(* when some item's work panics or a thread was refused; and it ends.      *)
ImplementsMap == OM!Spec
=============================================================================
