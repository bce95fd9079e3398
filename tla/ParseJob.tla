------------------------------ MODULE ParseJob ------------------------------
(***************************************************************************)
(* run_parse_job and run_worker of src/parser/parse.rs: the sources whose  *)
(* module was not in the cache are parsed by workers that claim them from  *)
(* one shared cursor.  A worker that cannot read a source stops there; the *)
(* caller, which only waits, joins all workers, then merges what they      *)
(* parsed in the order they were spawned and keeps the earliest failure.   *)
(*                                                                         *)
(* While the job runs, sources may vanish (and stay away), the parser may  *)
(* panic on a source, and the system may refuse a thread.                  *)
(***************************************************************************)
EXTENDS Integers, Sequences, FiniteSets

CONSTANTS
  N,            \* the number of sources, in discovery order, stubs left out
  Workers       \* the threads of a parallel job

ASSUME SourcesAssumption == N \in Nat
ASSUME WorkersAssumption == Workers # {}

VARIABLES
  cached,       \* the sources drain_cache found in the bundle
  panics,       \* the sources the parser panics on
  scarce,       \* whether scope.spawn may panic for want of a thread
  parallel,     \* whether worker_count asks for more than one thread
  outstanding,  \* the sources to parse, in discovery order
  missing,      \* the sources that cannot be read
  cursor,       \* the position in outstanding the next claim takes
  pc,           \* what each worker is doing
  item,         \* the position a worker has claimed
  done,         \* each worker's batch of (index, module)
  handles,      \* the workers spawned and not merged yet, in spawning order
  caller,       \* what the calling thread is doing
  parsed,       \* the batches merged so far
  first_error,  \* the earliest failure merged so far, 0 if none
  outcome       \* what the caller of the job gets

given == <<cached, panics, scarce, parallel, outstanding>>
vars == <<given, missing, cursor, pc, item, done, handles, caller, parsed, first_error, outcome>>

Indices(batch) == {batch[k].index : k \in 1..Len(batch)}

(* The sources parsed so far, merged or not. *)
ReadSoFar == Indices(parsed) \cup UNION {Indices(done[w]) : w \in Workers}

SP == INSTANCE SequentialParse WITH read <- ReadSoFar

WorkerStates == {"unspawned", "claim", "work", "finished", "failed", "panicked"}

Entry == [index : 1..N, module : 1..N]

TypeOK ==
  /\ cached \subseteq 1..N /\ panics \subseteq 1..N /\ missing \subseteq 1..N
  /\ scarce \in BOOLEAN /\ parallel \in BOOLEAN
  /\ outstanding \in Seq(1..N)
  /\ cursor \in Nat \ {0}
  /\ pc \in [Workers -> WorkerStates]
  /\ item \in [Workers -> Nat]
  /\ done \in [Workers -> Seq(Entry)]
  /\ handles \in Seq(Workers)
  /\ caller \in {"sequential", "spawn", "join", "merge", "unwind", "stopped"}
  /\ parsed \in Seq(Entry)
  /\ first_error \in 0..N
  /\ outcome.kind \in {"running", "delivered", "failed", "panicked"}

(* The slots that drain_cache left empty, in order. *)
IsOutstanding(s) ==
  /\ {s[k] : k \in 1..Len(s)} = 1..N \ cached
  /\ \A j, k \in 1..Len(s) : j < k => s[j] < s[k]

(* worker_count goes by the number of files; its threshold is left open. *)
Init ==
  /\ cached \in SUBSET (1..N) /\ missing \in SUBSET (1..N)
  /\ panics \in SUBSET (1..N) /\ scarce \in BOOLEAN
  /\ outstanding \in UNION {[1..n -> 1..N] : n \in 0..N} /\ IsOutstanding(outstanding)
  /\ parallel \in BOOLEAN /\ (parallel => Len(outstanding) > 1)
  /\ cursor = 1
  /\ pc = [w \in Workers |-> "unspawned"]
  /\ item = [w \in Workers |-> 0]
  /\ done = [w \in Workers |-> <<>>]
  /\ handles = <<>>
  /\ caller = IF parallel THEN "spawn" ELSE "sequential"
  /\ parsed = <<>> /\ first_error = 0
  /\ outcome = SP!Running

(* The user removes a source. *)
Vanish ==
  /\ outcome = SP!Running
  /\ \E i \in 1..N \ missing : missing' = missing \cup {i}
  /\ UNCHANGED <<given, cursor, pc, item, done, handles, caller, parsed, first_error, outcome>>

Module(i) == [index |-> i, module |-> i]

Ends(how) == outcome' = how /\ caller' = "stopped"

-----------------------------------------------------------------------------
(* A single worker is the calling thread itself: it stops at the first     *)
(* source that fails.                                                      *)
SequentialStep ==
  /\ caller = "sequential" /\ cursor <= Len(outstanding)
  /\ LET i == outstanding[cursor]
     IN \/ /\ i \in missing
           /\ Ends(SP!Failed(i))
           /\ UNCHANGED <<cursor, parsed>>
        \/ /\ i \notin missing /\ i \in panics
           /\ Ends(SP!Panicked)
           /\ UNCHANGED <<cursor, parsed>>
        \/ /\ i \notin missing \cup panics
           /\ parsed' = Append(parsed, Module(i))
           /\ cursor' = cursor + 1
           /\ UNCHANGED <<caller, outcome>>
  /\ UNCHANGED <<given, missing, pc, item, done, handles, first_error>>

SequentialEnd ==
  /\ caller = "sequential" /\ cursor > Len(outstanding)
  /\ caller' = "merge"
  /\ UNCHANGED <<given, missing, cursor, pc, item, done, handles, parsed, first_error, outcome>>

-----------------------------------------------------------------------------
Spawn(w) ==
  /\ caller = "spawn" /\ pc[w] = "unspawned"
  /\ pc' = [pc EXCEPT ![w] = "claim"]
  /\ handles' = Append(handles, w)
  /\ UNCHANGED <<given, missing, cursor, item, done, caller, parsed, first_error, outcome>>

(* scope.spawn panics: the scope still waits for the workers it has. *)
SpawnFails ==
  /\ scarce /\ caller = "spawn" /\ \E w \in Workers : pc[w] = "unspawned"
  /\ caller' = "unwind"
  /\ UNCHANGED <<given, missing, cursor, pc, item, done, handles, parsed, first_error, outcome>>

AllSpawned ==
  /\ caller = "spawn" /\ \A w \in Workers : pc[w] # "unspawned"
  /\ caller' = "join"
  /\ UNCHANGED <<given, missing, cursor, pc, item, done, handles, parsed, first_error, outcome>>

Claim(w) ==
  /\ pc[w] = "claim"
  /\ cursor' = cursor + 1
  /\ IF cursor <= Len(outstanding)
     THEN /\ item' = [item EXCEPT ![w] = cursor]
          /\ pc' = [pc EXCEPT ![w] = "work"]
     ELSE /\ pc' = [pc EXCEPT ![w] = "finished"]
          /\ UNCHANGED item
  /\ UNCHANGED <<given, missing, done, handles, caller, parsed, first_error, outcome>>

(* run_one: read the source, then parse it. *)
Work(w) ==
  /\ pc[w] = "work"
  /\ LET i == outstanding[item[w]]
     IN \/ /\ i \in missing
           /\ pc' = [pc EXCEPT ![w] = "failed"]
           /\ UNCHANGED done
        \/ /\ i \notin missing /\ i \in panics
           /\ pc' = [pc EXCEPT ![w] = "panicked"]
           /\ UNCHANGED done
        \/ /\ i \notin missing \cup panics
           /\ done' = [done EXCEPT ![w] = Append(@, Module(i))]
           /\ pc' = [pc EXCEPT ![w] = "claim"]
  /\ UNCHANGED <<given, missing, cursor, item, handles, caller, parsed, first_error, outcome>>

-----------------------------------------------------------------------------
Ended(w) == pc[w] \in {"finished", "failed", "panicked"}

AllEnded == \A k \in 1..Len(handles) : Ended(handles[k])

Joined ==
  /\ caller = "join" /\ AllEnded
  /\ caller' = "merge"
  /\ UNCHANGED <<given, missing, cursor, pc, item, done, handles, parsed, first_error, outcome>>

Unwound ==
  /\ caller = "unwind" /\ AllEnded
  /\ Ends(SP!Panicked)
  /\ UNCHANGED <<given, missing, cursor, pc, item, done, handles, parsed, first_error>>

(* Mutant: the failure merged last is kept.                                *)
LaterFailure(current, candidate) == candidate

(* 0 stands for no failure yet. *)
EarlierFailure(current, candidate) ==
  IF current # 0 /\ current < candidate THEN current ELSE candidate

(* One batch per step, in spawning order; a worker's panic is rethrown.    *)
Merge ==
  /\ caller = "merge" /\ handles # <<>>
  /\ LET w == Head(handles)
     IN \/ /\ pc[w] = "finished"
           /\ parsed' = parsed \o done[w]
           /\ UNCHANGED <<caller, first_error, outcome>>
        \/ /\ pc[w] = "failed"
           /\ first_error' = EarlierFailure(first_error, outstanding[item[w]])
           /\ UNCHANGED <<caller, parsed, outcome>>
        \/ /\ pc[w] = "panicked"
           /\ Ends(SP!Panicked)
           /\ UNCHANGED <<parsed, first_error>>
  /\ handles' = Tail(handles)
  /\ UNCHANGED <<given, missing, cursor, pc, item, done>>

(* The module in each slot, 0 if there is none. *)
Slot(i) ==
  IF i \in cached THEN i
  ELSE LET here == {k \in 1..Len(parsed) : parsed[k].index = i}
       IN IF here = {} THEN 0 ELSE parsed[CHOOSE k \in here : \A l \in here : l <= k].module

(* The slots that are not empty, in order. *)
Flattened ==
  LET full == {i \in 1..N : Slot(i) # 0}
      Nth(k) == CHOOSE i \in full : Cardinality({j \in full : j < i}) = k - 1
  IN [k \in 1..Cardinality(full) |-> Slot(Nth(k))]

Report ==
  /\ caller = "merge" /\ handles = <<>>
  /\ Ends(IF first_error # 0 THEN SP!Failed(first_error)
          ELSE SP!Delivered(Flattened))
  /\ UNCHANGED <<given, missing, cursor, pc, item, done, handles, parsed, first_error>>

Stopped == caller = "stopped" /\ UNCHANGED vars

-----------------------------------------------------------------------------
CallerStep ==
  \/ SequentialStep \/ SequentialEnd
  \/ \E w \in Workers : Spawn(w)
  \/ AllSpawned \/ Joined \/ Unwound \/ Merge \/ Report

Next ==
  \/ Vanish \/ SpawnFails \/ CallerStep
  \/ \E w \in Workers : Claim(w) \/ Work(w)
  \/ Stopped

(* The system runs every thread it started. *)
Fairness == WF_vars(CallerStep) /\ \A w \in Workers : WF_vars(Claim(w) \/ Work(w))

Spec == Init /\ [][Next]_vars /\ Fairness

-----------------------------------------------------------------------------
(* Whatever the scheduling, the failure that is reported is the earliest:  *)
(* all sources before it have been parsed, or came from the cache.         *)
EarliestFailureReported ==
  outcome.kind = "failed" => {i \in 1..N \ cached : i < outcome.source} \subseteq ReadSoFar

(* Workers finish in any order, yet every source is returned once, in      *)
(* discovery order, with the module of its own file.                       *)
DeliveredInOrder == outcome.kind = "delivered" => outcome.modules = [i \in 1..N |-> i]

(* No worker is still parsing, and borrowing the sources, when the job     *)
(* has returned, failed or unwound.                                        *)
NoWorkerOutlivesJob ==
  outcome.kind # "running" => \A w \in Workers : pc[w] \notin {"claim", "work"}

(* The job ends, and as if the sources were read one after the other.      *)
ImplementsSequential == SP!Spec
=============================================================================
