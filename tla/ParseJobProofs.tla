--------------------------- MODULE ParseJobProofs ---------------------------
(***************************************************************************)
(* Proofs about ParseJob, for any number of sources and workers: the       *)
(* failure reported is the earliest, no worker outlives the job, and every *)
(* step is a step of SequentialParse or changes nothing it can see.        *)
(***************************************************************************)
EXTENDS ParseJob, FiniteSetTheorems, WellFoundedInduction, TLAPS

Positions == 1..Len(outstanding)

Elements(s) == {s[k] : k \in 1..Len(s)}
Handled == Elements(handles)

Active(w) == pc[w] \in {"claim", "work"}
Holds(w) == pc[w] \in {"work", "failed", "panicked"}

(* What drain_cache left is listed in order. *)
ListInv ==
  /\ cached \subseteq 1..N /\ outstanding \in Seq(1..N)
  /\ IsOutstanding(outstanding)

(* A worker holds a position before the cursor, and its state tells how    *)
(* reading that source went.                                               *)
ClaimInv ==
  \A w \in Workers :
    /\ Holds(w) => item[w] \in Positions /\ item[w] < cursor
    /\ pc[w] = "failed" => outstanding[item[w]] \in missing
    /\ pc[w] = "panicked" => outstanding[item[w]] \in panics

(* Every claimed source is read, or held by a worker. *)
AccountedInv ==
  \A k \in Positions :
    k < cursor => outstanding[k] \in ReadSoFar \/ \E w \in Workers : Holds(w) /\ item[w] = k

(* A result carries the slot and the module of one outstanding source. *)
GoodBatch(batch) ==
  \A k \in 1..Len(batch) : batch[k].index = batch[k].module /\ batch[k].index \in 1..N

BatchInv ==
  /\ GoodBatch(parsed)
  /\ \A w \in Workers : GoodBatch(done[w]) /\ (pc[w] = "unspawned" => done[w] = <<>>)

(* A worker that is not waited for any more has left what it did with the  *)
(* caller.                                                                 *)
Merged(w) ==
  \/ pc[w] = "finished" /\ Indices(done[w]) \subseteq Indices(parsed)
  \/ pc[w] = "failed" /\ first_error # 0 /\ first_error <= outstanding[item[w]]

HandleInv ==
  /\ ~parallel => handles = <<>> /\ \A w \in Workers : pc[w] = "unspawned"
  /\ parallel /\ caller \in {"join", "merge"} => \A w \in Workers : pc[w] # "unspawned"
  /\ caller # "stopped" => \A w \in Workers : pc[w] = "unspawned" \/ w \in Handled \/ Merged(w)
  /\ caller \in {"merge", "stopped"} => \A w \in Workers : ~Active(w)

(* Who finds nothing left has seen the cursor run past the end. *)
EndInv ==
  /\ \A w \in Workers : pc[w] = "finished" => cursor > Len(outstanding)
  /\ caller = "merge" /\ ~parallel => cursor > Len(outstanding)

ErrorInv ==
  first_error # 0 => \E w \in Workers : pc[w] = "failed" /\ outstanding[item[w]] = first_error

CallerInv ==
  /\ caller = "sequential" => ~parallel
  /\ caller \in {"spawn", "join", "unwind"} => parallel
  /\ caller = "unwind" => scarce
  /\ caller = "stopped" <=> outcome.kind # "running"
  /\ outcome.kind = "running" => outcome = SP!Running

JobInv ==
  /\ TypeOK
  /\ ListInv
  /\ ClaimInv
  /\ AccountedInv
  /\ BatchInv
  /\ HandleInv
  /\ EndInv
  /\ ErrorInv
  /\ CallerInv
  /\ EarliestFailureReported

-----------------------------------------------------------------------------
LEMMA IndicesEmpty == Indices(<<>>) = {}
BY DEF Indices

LEMMA IndicesAppend ==
  ASSUME NEW s \in Seq(Entry), NEW e \in Entry
  PROVE  /\ Append(s, e) \in Seq(Entry)
         /\ Indices(Append(s, e)) = Indices(s) \cup {e.index}
         /\ GoodBatch(s) /\ e.index = e.module => GoodBatch(Append(s, e))
<1>1. /\ Append(s, e) \in Seq(Entry)
      /\ Len(s) \in Nat /\ Len(Append(s, e)) = Len(s) + 1
      /\ \A k \in 1..Len(s) : Append(s, e)[k] = s[k]
      /\ Append(s, e)[Len(s) + 1] = e
  OBVIOUS
<1>2. 1..Len(Append(s, e)) = 1..Len(s) \cup {Len(s) + 1}
  BY <1>1
<1>3. Indices(Append(s, e)) = Indices(s) \cup {e.index}
  BY <1>1, <1>2 DEF Indices
<1>4. e.index \in 1..N
  BY DEF Entry
<1> QED
  BY <1>1, <1>2, <1>3, <1>4 DEF GoodBatch

LEMMA IndicesConcat ==
  ASSUME NEW s \in Seq(Entry), NEW t \in Seq(Entry)
  PROVE  /\ s \o t \in Seq(Entry)
         /\ Indices(s \o t) = Indices(s) \cup Indices(t)
         /\ GoodBatch(s) /\ GoodBatch(t) => GoodBatch(s \o t)
<1>1. /\ s \o t \in Seq(Entry)
      /\ Len(s) \in Nat /\ Len(t) \in Nat /\ Len(s \o t) = Len(s) + Len(t)
      /\ \A k \in 1..Len(s) : (s \o t)[k] = s[k]
      /\ \A k \in 1..Len(t) : (s \o t)[Len(s) + k] = t[k]
  OBVIOUS
<1>2. ASSUME NEW k \in 1..Len(s \o t)
      PROVE  k \in 1..Len(s) \/ \E l \in 1..Len(t) : k = Len(s) + l
  <2>1. CASE k <= Len(s)
    BY <1>1, <2>1
  <2>2. CASE k > Len(s)
    <3>1. k - Len(s) \in 1..Len(t) /\ k = Len(s) + (k - Len(s))
      BY <1>1, <2>2
    <3> QED
      BY <3>1
  <2> QED
    BY <1>1, <2>1, <2>2
<1>3. Indices(s \o t) \subseteq Indices(s) \cup Indices(t)
  BY <1>1, <1>2 DEF Indices
<1>4. Indices(s) \subseteq Indices(s \o t)
  BY <1>1 DEF Indices
<1>5. \A l \in 1..Len(t) : Len(s) + l \in 1..Len(s \o t)
  BY <1>1
<1>6. Indices(t) \subseteq Indices(s \o t)
  BY <1>1, <1>5 DEF Indices
<1>7. GoodBatch(s) /\ GoodBatch(t) => GoodBatch(s \o t)
  BY <1>1, <1>2 DEF GoodBatch
<1> QED
  BY <1>1, <1>3, <1>4, <1>6, <1>7

LEMMA ReadFrame ==
  ASSUME UNCHANGED <<parsed, done>>
  PROVE  ReadSoFar' = ReadSoFar
BY DEF ReadSoFar, Indices

LEMMA JobInvInit == Init => JobInv
<1> SUFFICES ASSUME Init
             PROVE  JobInv
  OBVIOUS
<1>1. outstanding \in Seq(1..N)
  BY SourcesAssumption DEF Init
<1>2. \A w \in Workers : pc[w] = "unspawned" /\ done[w] = <<>>
  BY DEF Init
<1>3. TypeOK
  <2>1. cached \subseteq 1..N /\ panics \subseteq 1..N /\ missing \subseteq 1..N
    BY DEF Init
  <2>2. scarce \in BOOLEAN /\ parallel \in BOOLEAN
    BY DEF Init
  <2>3. cursor \in Nat \ {0} /\ item \in [Workers -> Nat] /\ first_error \in 0..N
    BY SourcesAssumption DEF Init
  <2>4. pc \in [Workers -> WorkerStates]
    BY DEF Init, WorkerStates
  <2>5. done \in [Workers -> Seq(Entry)] /\ handles \in Seq(Workers) /\ parsed \in Seq(Entry)
    BY DEF Init
  <2>6. caller \in {"sequential", "spawn", "join", "merge", "unwind", "stopped"}
    BY <2>2 DEF Init
  <2>7. outcome.kind \in {"running", "delivered", "failed", "panicked"}
    BY DEF Init, SP!Running
  <2> QED
    BY <1>1, <2>1, <2>2, <2>3, <2>4, <2>5, <2>6, <2>7 DEF TypeOK
<1>4. ListInv
  BY <1>1 DEF Init, ListInv
<1>5. ClaimInv /\ AccountedInv
  BY <1>1, <1>2 DEF Init, ClaimInv, AccountedInv, Holds, Positions
<1>6. BatchInv
  BY <1>2 DEF Init, BatchInv, GoodBatch
<1>7. HandleInv
  BY <1>2 DEF Init, HandleInv, Active
<1>8. EndInv /\ ErrorInv /\ CallerInv /\ EarliestFailureReported
  BY <1>2 DEF Init, EndInv, ErrorInv, CallerInv, EarliestFailureReported, SP!Running
<1> QED
  BY <1>3, <1>4, <1>5, <1>6, <1>7, <1>8 DEF JobInv

-----------------------------------------------------------------------------
(* Steps of the caller that touch no source and no batch. *)
LEMMA CallerFrame ==
  ASSUME JobInv, UNCHANGED <<given, missing, cursor, pc, item, done, parsed>>
  PROVE  /\ ListInv' /\ ClaimInv' /\ AccountedInv' /\ BatchInv'
         /\ \A w \in Workers : pc'[w] = "finished" => cursor' > Len(outstanding')
<1>1. ListInv'
  BY DEF JobInv, ListInv, IsOutstanding, given
<1>2. ClaimInv'
  BY DEF JobInv, ClaimInv, Holds, Positions, given
<1>3. AccountedInv'
  BY ReadFrame DEF JobInv, AccountedInv, Holds, Positions, given
<1>4. BatchInv'
  BY DEF JobInv, BatchInv, GoodBatch
<1> QED
  BY <1>1, <1>2, <1>3, <1>4 DEF JobInv, EndInv, given

LEMMA MergedFrame ==
  ASSUME UNCHANGED <<item, done, parsed, first_error, outstanding>>,
         NEW w \in Workers, pc'[w] = pc[w]
  PROVE  Merged(w)' <=> Merged(w)
BY DEF Merged, Indices

LEMMA HandleFrame ==
  ASSUME UNCHANGED <<pc, item, done, parsed, first_error, outstanding, handles>>
  PROVE  Handled' = Handled /\ \A w \in Workers : Merged(w)' <=> Merged(w)
BY MergedFrame DEF Handled, Elements

LEMMA VanishKeeps == JobInv /\ Vanish => JobInv'
<1> SUFFICES ASSUME JobInv, Vanish
             PROVE  JobInv'
  OBVIOUS
<1>1. PICK i \in 1..N \ missing : missing' = missing \cup {i}
  BY DEF Vanish
<1>2. UNCHANGED <<given, cursor, pc, item, done, handles, caller, parsed, first_error, outcome>>
  BY DEF Vanish
<1>3. TypeOK'
  BY <1>1, <1>2 DEF JobInv, TypeOK, given
<1>4. ListInv' /\ BatchInv'
  BY <1>2 DEF JobInv, ListInv, IsOutstanding, given, BatchInv, GoodBatch
<1>5. ClaimInv'
  BY <1>1, <1>2 DEF JobInv, ClaimInv, Holds, Positions, given
<1>6. AccountedInv' /\ EarliestFailureReported'
  BY <1>2, ReadFrame DEF JobInv, AccountedInv, Holds, Positions, given, EarliestFailureReported
<1>7. HandleInv'
  BY <1>2, HandleFrame DEF JobInv, HandleInv, Active, given
<1>8. EndInv' /\ ErrorInv' /\ CallerInv'
  BY <1>2 DEF JobInv, EndInv, ErrorInv, CallerInv, given
<1> QED
  BY <1>3, <1>4, <1>5, <1>6, <1>7, <1>8 DEF JobInv

LEMMA SequentialStepKeeps == JobInv /\ SequentialStep => JobInv'
<1> SUFFICES ASSUME JobInv, SequentialStep
             PROVE  JobInv'
  OBVIOUS
<1> DEFINE i == outstanding[cursor]
<1>1. /\ caller = "sequential" /\ cursor <= Len(outstanding)
      /\ UNCHANGED <<given, missing, pc, item, done, handles, first_error>>
  BY DEF SequentialStep
<1>2. /\ cursor \in Nat \ {0} /\ parsed \in Seq(Entry) /\ Len(outstanding) \in Nat
      /\ outstanding \in Seq(1..N)
  BY DEF JobInv, TypeOK
<1>3. cursor \in Positions /\ i \in 1..N
  BY <1>1, <1>2, SourcesAssumption DEF Positions
<1>4. /\ ~parallel /\ handles = <<>> /\ outcome = SP!Running
      /\ \A w \in Workers : pc[w] = "unspawned"
  BY <1>1 DEF JobInv, CallerInv, HandleInv
<1>5. /\ IsOutstanding(outstanding) /\ cached \subseteq 1..N
      /\ first_error = 0
  BY <1>4 DEF JobInv, ListInv, ErrorInv
<1>6. {j \in 1..N \ cached : j < i} \subseteq ReadSoFar
  <2> SUFFICES ASSUME NEW j \in 1..N \ cached, j < i
               PROVE  j \in ReadSoFar
    OBVIOUS
  <2>1. PICK k \in Positions : outstanding[k] = j
    BY <1>5 DEF IsOutstanding, Positions
  <2>2. k < cursor
    <3>1. cursor < k => i < outstanding[k]
      BY <1>3, <1>5 DEF IsOutstanding, Positions
    <3>2. outstanding[k] \in Int /\ i \in Int /\ k \in Int
      BY <1>2, <1>3, SourcesAssumption DEF Positions
    <3> QED
      BY <2>1, <3>1, <3>2, <1>2
  <2> QED
    BY <2>1, <2>2, <1>4 DEF JobInv, AccountedInv, Holds
<1>7. CASE i \in missing /\ Ends(SP!Failed(i)) /\ UNCHANGED <<cursor, parsed>>
  <2>1. outcome' = [kind |-> "failed", source |-> i] /\ caller' = "stopped"
    BY <1>7 DEF Ends, SP!Failed
  <2>2. TypeOK'
    BY <1>1, <1>7, <2>1 DEF JobInv, TypeOK, given
  <2>3. ListInv' /\ ClaimInv' /\ AccountedInv' /\ BatchInv'
    BY <1>1, <1>7, CallerFrame
  <2>4. HandleInv' /\ EndInv' /\ ErrorInv' /\ CallerInv'
    BY <1>1, <1>4, <1>5, <2>1, <1>7 DEF JobInv, HandleInv, Active, EndInv, ErrorInv, CallerInv, given
  <2>5. EarliestFailureReported'
    BY <1>1, <1>6, <1>7, <2>1, ReadFrame DEF EarliestFailureReported, given
  <2> QED
    BY <2>2, <2>3, <2>4, <2>5 DEF JobInv
<1>8. CASE Ends(SP!Panicked) /\ UNCHANGED <<cursor, parsed>>
  <2>1. outcome' = [kind |-> "panicked"] /\ caller' = "stopped"
    BY <1>8 DEF Ends, SP!Panicked
  <2>2. TypeOK'
    BY <1>1, <1>8, <2>1 DEF JobInv, TypeOK, given
  <2>3. ListInv' /\ ClaimInv' /\ AccountedInv' /\ BatchInv'
    BY <1>1, <1>8, CallerFrame
  <2>4. HandleInv' /\ EndInv' /\ ErrorInv' /\ CallerInv' /\ EarliestFailureReported'
    BY <1>1, <1>4, <1>5, <2>1, <1>8
    DEF JobInv, HandleInv, Active, EndInv, ErrorInv, CallerInv, given, EarliestFailureReported
  <2> QED
    BY <2>2, <2>3, <2>4 DEF JobInv
<1>9. CASE parsed' = Append(parsed, Module(i)) /\ cursor' = cursor + 1 /\ UNCHANGED <<caller, outcome>>
  <2>1. Module(i) \in Entry /\ Module(i).index = i /\ Module(i).module = i
    BY <1>3 DEF Module, Entry
  <2>2. /\ parsed' \in Seq(Entry) /\ Indices(parsed') = Indices(parsed) \cup {i}
        /\ GoodBatch(parsed) => GoodBatch(parsed')
    BY <1>2, <1>9, <2>1, IndicesAppend
  <2>3. TypeOK'
    BY <1>1, <1>2, <1>9, <2>2 DEF JobInv, TypeOK, given
  <2>4. ListInv'
    BY <1>1 DEF JobInv, ListInv, IsOutstanding, given
  <2>5. ClaimInv' /\ BatchInv'
    BY <1>1, <1>4, <2>2 DEF JobInv, ClaimInv, Holds, BatchInv, GoodBatch, given
  <2>6. ReadSoFar' = ReadSoFar \cup {i}
    BY <1>1, <2>2 DEF ReadSoFar
  <2>7. AccountedInv'
    <3> SUFFICES ASSUME NEW k \in Positions, k < cursor + 1
                 PROVE  outstanding[k] \in ReadSoFar'
      BY <1>1, <1>9 DEF AccountedInv, Positions, given
    <3>1. CASE k = cursor
      BY <3>1, <2>6
    <3>2. CASE k < cursor
      BY <3>2, <2>6, <1>4 DEF JobInv, AccountedInv, Holds
    <3> QED
      BY <3>1, <3>2, <1>2 DEF Positions
  <2>8. HandleInv' /\ EndInv' /\ ErrorInv' /\ CallerInv'
    BY <1>1, <1>4, <1>5, <1>9 DEF JobInv, HandleInv, Active, EndInv, ErrorInv, CallerInv, given
  <2>9. EarliestFailureReported'
    BY <1>4, <1>9 DEF EarliestFailureReported, SP!Running
  <2> QED
    BY <2>3, <2>4, <2>5, <2>7, <2>8, <2>9 DEF JobInv
<1> QED
  BY <1>7, <1>8, <1>9 DEF SequentialStep

LEMMA SequentialEndKeeps == JobInv /\ SequentialEnd => JobInv'
<1> SUFFICES ASSUME JobInv, SequentialEnd
             PROVE  JobInv'
  OBVIOUS
<1>1. /\ caller = "sequential" /\ cursor > Len(outstanding) /\ caller' = "merge"
      /\ UNCHANGED <<given, missing, cursor, pc, item, done, handles, parsed, first_error, outcome>>
  BY DEF SequentialEnd
<1>2. ~parallel /\ \A w \in Workers : pc[w] = "unspawned"
  BY <1>1 DEF JobInv, CallerInv, HandleInv
<1>3. TypeOK'
  BY <1>1 DEF JobInv, TypeOK, given
<1>4. ListInv' /\ ClaimInv' /\ AccountedInv' /\ BatchInv'
  BY <1>1, CallerFrame
<1>5. HandleInv' /\ EndInv' /\ ErrorInv' /\ CallerInv'
  BY <1>1, <1>2 DEF JobInv, HandleInv, Active, EndInv, ErrorInv, CallerInv, given
<1>6. EarliestFailureReported'
  BY <1>1, ReadFrame DEF JobInv, EarliestFailureReported, given
<1> QED
  BY <1>3, <1>4, <1>5, <1>6 DEF JobInv

LEMMA AppendWorker ==
  ASSUME NEW S, NEW s \in Seq(S), NEW x \in S
  PROVE  /\ Append(s, x) \in Seq(S)
         /\ Elements(Append(s, x)) = Elements(s) \cup {x}
<1>1. /\ Append(s, x) \in Seq(S)
      /\ Len(s) \in Nat /\ Len(Append(s, x)) = Len(s) + 1
      /\ \A k \in 1..Len(s) : Append(s, x)[k] = s[k]
      /\ Append(s, x)[Len(s) + 1] = x
  OBVIOUS
<1>2. 1..Len(Append(s, x)) = 1..Len(s) \cup {Len(s) + 1}
  BY <1>1
<1> QED
  BY <1>1, <1>2 DEF Elements

LEMMA SpawnKeeps == ASSUME JobInv, NEW w \in Workers, Spawn(w)  PROVE JobInv'
<1>1. /\ caller = "spawn" /\ pc[w] = "unspawned"
      /\ pc' = [pc EXCEPT ![w] = "claim"]
      /\ handles' = Append(handles, w)
      /\ UNCHANGED <<given, missing, cursor, item, done, caller, parsed, first_error, outcome>>
  BY DEF Spawn
<1>2. handles \in Seq(Workers) /\ pc \in [Workers -> WorkerStates]
  BY DEF JobInv, TypeOK
<1>3. /\ pc'[w] = "claim" /\ \A v \in Workers : v # w => pc'[v] = pc[v]
      /\ pc' \in [Workers -> WorkerStates]
  BY <1>1, <1>2 DEF WorkerStates
<1>4. handles' \in Seq(Workers) /\ Handled' = Handled \cup {w}
  BY <1>1, <1>2, AppendWorker DEF Handled
<1>5. parallel /\ outcome = SP!Running
  BY <1>1 DEF JobInv, CallerInv
<1>6. TypeOK'
  BY <1>1, <1>3, <1>4 DEF JobInv, TypeOK, given
<1>7. ListInv' /\ BatchInv'
  BY <1>1, <1>3 DEF JobInv, ListInv, IsOutstanding, given, BatchInv, GoodBatch
<1>8. ClaimInv'
  BY <1>1, <1>3 DEF JobInv, ClaimInv, Holds, Positions, given
<1>9. AccountedInv'
  BY <1>1, <1>3, ReadFrame DEF JobInv, AccountedInv, Holds, Positions, given
<1>10. HandleInv'
  <2>1. ASSUME NEW v \in Workers, v # w
        PROVE  Merged(v) => Merged(v)'
    BY <1>1, <1>3, <2>1, MergedFrame DEF given
  <2> QED
    BY <1>1, <1>3, <1>4, <1>5, <2>1 DEF JobInv, HandleInv, given
<1>11. EndInv' /\ ErrorInv' /\ CallerInv' /\ EarliestFailureReported'
  BY <1>1, <1>3, <1>5
  DEF JobInv, EndInv, ErrorInv, CallerInv, EarliestFailureReported, given, SP!Running
<1> QED
  BY <1>6, <1>7, <1>8, <1>9, <1>10, <1>11 DEF JobInv

(* The caller goes on to the next phase. *)
LEMMA PhaseKeeps ==
  ASSUME JobInv, parallel, caller' \in {"join", "merge", "unwind"}, caller # "stopped",
         UNCHANGED <<given, missing, cursor, pc, item, done, handles, parsed, first_error, outcome>>,
         caller' = "unwind" => scarce,
         caller' = "merge" => \A w \in Workers : ~Active(w),
         caller' \in {"join", "merge"} => \A w \in Workers : pc[w] # "unspawned"
  PROVE  JobInv'
<1>1. TypeOK'
  BY DEF JobInv, TypeOK, given
<1>2. ListInv' /\ ClaimInv' /\ AccountedInv' /\ BatchInv'
  BY CallerFrame
<1>3. HandleInv'
  BY HandleFrame DEF JobInv, HandleInv, Active, given
<1>4. EndInv' /\ ErrorInv' /\ CallerInv'
  BY DEF JobInv, EndInv, ErrorInv, CallerInv, given
<1>5. EarliestFailureReported'
  BY ReadFrame DEF JobInv, EarliestFailureReported, given
<1> QED
  BY <1>1, <1>2, <1>3, <1>4, <1>5 DEF JobInv

LEMMA SpawnFailsKeeps == JobInv /\ SpawnFails => JobInv'
<1> SUFFICES ASSUME JobInv, SpawnFails
             PROVE  JobInv'
  OBVIOUS
<1>1. parallel
  BY DEF JobInv, CallerInv, SpawnFails
<1> QED
  BY <1>1, PhaseKeeps DEF SpawnFails

LEMMA AllSpawnedKeeps == JobInv /\ AllSpawned => JobInv'
<1> SUFFICES ASSUME JobInv, AllSpawned
             PROVE  JobInv'
  OBVIOUS
<1>1. parallel
  BY DEF JobInv, CallerInv, AllSpawned
<1> QED
  BY <1>1, PhaseKeeps DEF AllSpawned

(* When every handle has ended, no worker is active. *)
LEMMA AllEndedEnds ==
  ASSUME JobInv, AllEnded, caller # "stopped", NEW w \in Workers
  PROVE  ~Active(w)
<1>1. pc[w] = "unspawned" \/ w \in Handled \/ Merged(w)
  BY DEF JobInv, HandleInv
<1>2. w \in Handled => Ended(w)
  BY DEF AllEnded, Handled, Elements
<1> QED
  BY <1>1, <1>2 DEF Active, Ended, Merged

LEMMA JoinedKeeps == JobInv /\ Joined => JobInv'
<1> SUFFICES ASSUME JobInv, Joined
             PROVE  JobInv'
  OBVIOUS
<1>1. parallel
  BY DEF JobInv, CallerInv, Joined
<1>2. \A w \in Workers : pc[w] # "unspawned"
  BY <1>1 DEF JobInv, HandleInv, Joined
<1>3. \A w \in Workers : ~Active(w)
  BY AllEndedEnds DEF Joined
<1> QED
  BY <1>1, <1>2, <1>3, PhaseKeeps DEF Joined

(* A job that ends without a failure to report. *)
LEMMA StopKeeps ==
  ASSUME JobInv, \A w \in Workers : ~Active(w), caller' = "stopped",
         UNCHANGED <<given, missing, cursor, pc, item, done, parsed, first_error>>,
         ~parallel => handles' = <<>>, handles' \in Seq(Workers),
         outcome'.kind \in {"delivered", "panicked"}
  PROVE  JobInv'
<1>1. TypeOK'
  BY DEF JobInv, TypeOK, given
<1>2. ListInv' /\ ClaimInv' /\ AccountedInv' /\ BatchInv'
  BY CallerFrame
<1>3. HandleInv' /\ EndInv' /\ ErrorInv' /\ CallerInv' /\ EarliestFailureReported'
  BY DEF JobInv, HandleInv, Active, EndInv, ErrorInv, CallerInv, EarliestFailureReported, given
<1> QED
  BY <1>1, <1>2, <1>3 DEF JobInv

LEMMA UnwoundKeeps == JobInv /\ Unwound => JobInv'
<1> SUFFICES ASSUME JobInv, Unwound
             PROVE  JobInv'
  OBVIOUS
<1>1. \A w \in Workers : ~Active(w)
  BY AllEndedEnds DEF Unwound
<1>2. handles \in Seq(Workers) /\ (~parallel => handles = <<>>)
  BY DEF JobInv, TypeOK, HandleInv
<1> QED
  BY <1>1, <1>2, StopKeeps DEF Unwound, Ends, SP!Panicked

-----------------------------------------------------------------------------
(* Steps of a worker. *)
LEMMA WorkerFrame ==
  ASSUME JobInv, NEW w \in Workers, Active(w),
         UNCHANGED <<given, missing, handles, caller, parsed, first_error, outcome>>,
         \A v \in Workers : v # w => pc'[v] = pc[v] /\ item'[v] = item[v] /\ done'[v] = done[v],
         pc'[w] # "unspawned", cursor' \in Nat, cursor \in Nat, cursor' >= cursor,
         pc'[w] = "finished" => cursor' > Len(outstanding)
  PROVE  ListInv' /\ HandleInv' /\ EndInv' /\ ErrorInv' /\ CallerInv' /\ EarliestFailureReported'
<1>1. ListInv'
  BY DEF JobInv, ListInv, IsOutstanding, given
<1>2. /\ caller \notin {"merge", "stopped", "sequential"} /\ parallel
      /\ w \in Handled
      /\ outcome = SP!Running
  BY DEF JobInv, HandleInv, CallerInv, TypeOK, Active, Merged
<1>3. Handled' = Handled
  BY DEF Handled, Elements
<1>4. ASSUME NEW v \in Workers, v # w
      PROVE  Merged(v) => Merged(v)'
  <2>1. pc'[v] = pc[v] /\ item'[v] = item[v] /\ done'[v] = done[v]
    BY <1>4
  <2> QED
    BY <2>1, ZenonT(60) DEF Merged, Indices, given
<1>5. HandleInv'
  BY <1>2, <1>3, <1>4 DEF JobInv, HandleInv, Active, given
<1>6. EndInv'
  <2>1. Len(outstanding) \in Nat
    BY DEF JobInv, TypeOK
  <2> QED
    BY <1>2, <2>1 DEF JobInv, EndInv, given
<1>7. ErrorInv'
  BY DEF JobInv, ErrorInv, Active, given
<1>8. CallerInv' /\ EarliestFailureReported'
  BY <1>2 DEF JobInv, CallerInv, EarliestFailureReported, given, SP!Running
<1> QED
  BY <1>1, <1>5, <1>6, <1>7, <1>8

LEMMA ClaimKeeps == ASSUME JobInv, NEW w \in Workers, Claim(w)  PROVE JobInv'
<1>1. /\ pc[w] = "claim" /\ cursor' = cursor + 1
      /\ UNCHANGED <<given, missing, done, handles, caller, parsed, first_error, outcome>>
  BY DEF Claim
<1>2. /\ pc \in [Workers -> WorkerStates] /\ item \in [Workers -> Nat]
      /\ cursor \in Nat \ {0} /\ Len(outstanding) \in Nat
  BY DEF JobInv, TypeOK
<1>3. /\ cursor <= Len(outstanding) => item' = [item EXCEPT ![w] = cursor] /\ pc' = [pc EXCEPT ![w] = "work"]
      /\ cursor > Len(outstanding) => item' = item /\ pc' = [pc EXCEPT ![w] = "finished"]
  BY <1>2 DEF Claim
<1>4. \A v \in Workers : v # w => pc'[v] = pc[v] /\ item'[v] = item[v] /\ done'[v] = done[v]
  BY <1>1, <1>2, <1>3
<1>5. /\ cursor <= Len(outstanding) => item'[w] = cursor /\ pc'[w] = "work"
      /\ cursor > Len(outstanding) => pc'[w] = "finished"
  BY <1>2, <1>3
<1>6. TypeOK'
  <2>1. pc' \in [Workers -> WorkerStates] /\ item' \in [Workers -> Nat]
    BY <1>2, <1>3 DEF WorkerStates
  <2> QED
    BY <1>1, <1>2, <2>1 DEF JobInv, TypeOK, given
<1>7. ListInv' /\ HandleInv' /\ EndInv' /\ ErrorInv' /\ CallerInv' /\ EarliestFailureReported'
  BY <1>1, <1>2, <1>4, <1>5, WorkerFrame DEF Active
<1>8. BatchInv'
  <2>1. \A v \in Workers : pc'[v] = "unspawned" => pc[v] = "unspawned"
    BY <1>4, <1>5, <1>2
  <2> QED
    BY <1>1, <2>1 DEF JobInv, BatchInv, GoodBatch
<1>9. ClaimInv'
  <2> SUFFICES ASSUME NEW v \in Workers
               PROVE  /\ Holds(v)' => item'[v] \in Positions /\ item'[v] < cursor'
                      /\ pc'[v] = "failed" => outstanding[item'[v]] \in missing
                      /\ pc'[v] = "panicked" => outstanding[item'[v]] \in panics
    BY <1>1 DEF ClaimInv, Positions, given
  <2>1. CASE v = w
    BY <1>1, <1>2, <1>5, <2>1 DEF Holds, Positions
  <2>2. CASE v # w
    <3>1. Holds(v)' <=> Holds(v)
      BY <1>4, <2>2 DEF Holds
    <3>2. item[v] \in Nat
      BY <1>2
    <3> QED
      BY <1>1, <1>2, <1>4, <2>2, <3>1, <3>2 DEF JobInv, ClaimInv, Positions
  <2> QED
    BY <2>1, <2>2
<1>10. AccountedInv'
  <2> SUFFICES ASSUME NEW k \in Positions, k < cursor + 1
               PROVE  outstanding[k] \in ReadSoFar \/ \E v \in Workers : Holds(v)' /\ item'[v] = k
    BY <1>1, ReadFrame DEF AccountedInv, Positions, given
  <2>1. CASE k = cursor
    BY <1>5, <2>1, <1>2 DEF Holds, Positions
  <2>2. CASE k < cursor
    <3>1. ASSUME NEW v \in Workers, Holds(v), item[v] = k
          PROVE  Holds(v)' /\ item'[v] = k
      BY <1>1, <1>4, <3>1 DEF Holds
    <3> QED
      BY <2>2, <3>1 DEF JobInv, AccountedInv
  <2> QED
    BY <2>1, <2>2, <1>2 DEF Positions
<1> QED
  BY <1>6, <1>7, <1>8, <1>9, <1>10 DEF JobInv

LEMMA WorkKeeps == ASSUME JobInv, NEW w \in Workers, Work(w)  PROVE JobInv'
<1> DEFINE i == outstanding[item[w]]
<1>1. /\ pc[w] = "work"
      /\ UNCHANGED <<given, missing, cursor, item, handles, caller, parsed, first_error, outcome>>
  BY DEF Work
<1>2. /\ pc \in [Workers -> WorkerStates] /\ done \in [Workers -> Seq(Entry)]
      /\ cursor \in Nat /\ outstanding \in Seq(1..N) /\ Len(outstanding) \in Nat
  BY DEF JobInv, TypeOK
<1>3. item[w] \in Positions /\ item[w] < cursor
  BY <1>1 DEF JobInv, ClaimInv, Holds
<1>4. i \in 1..N
  BY <1>2, <1>3, SourcesAssumption DEF Positions
<1>5. \/ i \in missing /\ pc' = [pc EXCEPT ![w] = "failed"] /\ done' = done
      \/ i \in panics /\ pc' = [pc EXCEPT ![w] = "panicked"] /\ done' = done
      \/ pc' = [pc EXCEPT ![w] = "claim"] /\ done' = [done EXCEPT ![w] = Append(@, Module(i))]
  BY DEF Work
<1>6. Module(i) \in Entry /\ Module(i).index = i /\ Module(i).module = i
  BY <1>4 DEF Module, Entry
<1>7. \A v \in Workers : v # w => pc'[v] = pc[v] /\ item'[v] = item[v] /\ done'[v] = done[v]
  BY <1>1, <1>2, <1>5
<1>8. \/ i \in missing /\ pc'[w] = "failed" /\ done'[w] = done[w]
      \/ i \in panics /\ pc'[w] = "panicked" /\ done'[w] = done[w]
      \/ pc'[w] = "claim" /\ done'[w] = Append(done[w], Module(i))
  BY <1>2, <1>5
<1>9. /\ done'[w] \in Seq(Entry)
      /\ GoodBatch(done[w]) => GoodBatch(done'[w])
      /\ Indices(done[w]) \subseteq Indices(done'[w])
      /\ pc'[w] = "claim" => i \in Indices(done'[w])
  <2> HIDE DEF i
  <2>1. done[w] \in Seq(Entry)
    BY <1>2
  <2>2. CASE done'[w] = done[w] /\ pc'[w] # "claim"
    BY <2>1, <2>2
  <2>3. CASE done'[w] = Append(done[w], Module(i))
    <3> DEFINE batch == Append(done[w], Module(i))
    <3>1. batch \in Seq(Entry)
      BY <2>1, <1>6, IndicesAppend
    <3>2. Indices(batch) = Indices(done[w]) \cup {i}
      BY <2>1, <1>6, IndicesAppend
    <3>3. GoodBatch(done[w]) => GoodBatch(batch)
      BY <2>1, <1>6, IndicesAppend
    <3> HIDE DEF batch
    <3>4. done'[w] = batch
      BY <2>3 DEF batch
    <3> QED
      BY <3>1, <3>2, <3>3, <3>4
  <2> QED
    BY <1>8, <2>2, <2>3
<1>10. TypeOK'
  <2>1. pc' \in [Workers -> WorkerStates]
    BY <1>2, <1>5 DEF WorkerStates
  <2>2. done' \in [Workers -> Seq(Entry)]
    BY <1>2, <1>5, <1>9
  <2> QED
    BY <1>1, <2>1, <2>2 DEF JobInv, TypeOK, given
<1>11. ListInv' /\ HandleInv' /\ EndInv' /\ ErrorInv' /\ CallerInv' /\ EarliestFailureReported'
  BY <1>1, <1>2, <1>7, <1>8, WorkerFrame DEF Active
<1>12. BatchInv'
  <2>1. GoodBatch(parsed') /\ \A v \in Workers : GoodBatch(done'[v])
    BY <1>1, <1>7, <1>9 DEF JobInv, BatchInv
  <2>2. \A v \in Workers : pc'[v] = "unspawned" => done'[v] = <<>>
    BY <1>7, <1>8 DEF JobInv, BatchInv
  <2> QED
    BY <2>1, <2>2 DEF BatchInv, GoodBatch
<1>13. ClaimInv'
  BY <1>1, <1>3, <1>7, <1>8 DEF JobInv, ClaimInv, Holds, Positions, given
<1>14. \A v \in Workers : Indices(done[v]) \subseteq Indices(done'[v])
  BY <1>7, <1>9
<1>15. ReadSoFar' = Indices(parsed) \cup UNION {Indices(done'[v]) : v \in Workers}
  BY <1>1 DEF ReadSoFar
<1>16. ReadSoFar \subseteq ReadSoFar' /\ (pc'[w] = "claim" => i \in ReadSoFar')
  BY <1>9, <1>14, <1>15 DEF ReadSoFar
<1>17. AccountedInv'
  <2> SUFFICES ASSUME NEW k \in Positions, k < cursor
               PROVE  outstanding[k] \in ReadSoFar' \/ \E v \in Workers : Holds(v)' /\ item[v] = k
    BY <1>1 DEF AccountedInv, Positions, given
  <2>1. CASE outstanding[k] \in ReadSoFar
    BY <2>1, <1>16
  <2>2. ASSUME NEW v \in Workers, Holds(v), item[v] = k
        PROVE  outstanding[k] \in ReadSoFar' \/ Holds(v)'
    <3>1. CASE v = w
      BY <1>8, <1>16, <2>2, <3>1 DEF Holds
    <3>2. CASE v # w
      BY <1>7, <2>2, <3>2 DEF Holds
    <3> QED
      BY <3>1, <3>2
  <2> QED
    BY <2>1, <2>2 DEF JobInv, AccountedInv
<1> QED
  BY <1>10, <1>11, <1>12, <1>13, <1>17 DEF JobInv

-----------------------------------------------------------------------------
(* The end of the job. *)
LEMMA HeadTail ==
  ASSUME NEW S, NEW s \in Seq(S), s # <<>>
  PROVE  /\ Head(s) \in S /\ Tail(s) \in Seq(S)
         /\ Elements(s) = {Head(s)} \cup Elements(Tail(s))
<1>1. /\ Len(s) \in Nat \ {0} /\ Tail(s) \in Seq(S) /\ Len(Tail(s)) = Len(s) - 1
      /\ \A k \in 1..Len(Tail(s)) : Tail(s)[k] = s[k + 1]
      /\ Head(s) = s[1] /\ Head(s) \in S
  OBVIOUS
<1>2. ASSUME NEW k \in 1..Len(s)
      PROVE  k = 1 \/ \E l \in 1..Len(Tail(s)) : k = l + 1
  <2>1. k # 1 => k - 1 \in 1..Len(Tail(s)) /\ k = (k - 1) + 1
    BY <1>1
  <2> QED
    BY <2>1
<1>3. 1 \in 1..Len(s) /\ \A l \in 1..Len(Tail(s)) : l + 1 \in 1..Len(s)
  BY <1>1
<1> QED
  BY <1>1, <1>2, <1>3 DEF Elements

(* EarlierFailure keeps the smaller of two failures. *)
LEMMA EarlierFailureMin ==
  ASSUME NEW a \in Nat, NEW b \in Nat \ {0}
  PROVE  /\ EarlierFailure(a, b) \in {a, b} /\ EarlierFailure(a, b) # 0
         /\ EarlierFailure(a, b) <= b
         /\ a # 0 => EarlierFailure(a, b) <= a
BY DEF EarlierFailure

LEMMA MergeKeeps == JobInv /\ Merge => JobInv'
<1> SUFFICES ASSUME JobInv, Merge
             PROVE  JobInv'
  OBVIOUS
<1>1. /\ caller = "merge" /\ handles # <<>> /\ handles' = Tail(handles)
      /\ UNCHANGED <<given, missing, cursor, pc, item, done>>
  BY DEF Merge
<1>2. /\ handles \in Seq(Workers) /\ parsed \in Seq(Entry) /\ done \in [Workers -> Seq(Entry)]
      /\ first_error \in 0..N /\ outstanding \in Seq(1..N)
  BY DEF JobInv, TypeOK
<1>3. PICK w \in Workers : w = Head(handles)
  BY <1>1, <1>2, HeadTail
<1>4. handles' \in Seq(Workers) /\ Handled = {w} \cup Handled'
  BY <1>1, <1>2, <1>3, HeadTail DEF Handled
<1>5. /\ parallel /\ outcome = SP!Running
      /\ \A v \in Workers : ~Active(v) /\ pc[v] # "unspawned"
  BY <1>1, <1>3 DEF JobInv, HandleInv, CallerInv
<1>6. \A v \in Workers : v \in Handled' \/ Merged(v) \/ v = w
  BY <1>1, <1>4, <1>5 DEF JobInv, HandleInv
<1>7. CASE pc[w] = "finished" /\ parsed' = parsed \o done[w] /\ UNCHANGED <<caller, first_error, outcome>>
  <2>1. /\ parsed' \in Seq(Entry) /\ Indices(parsed') = Indices(parsed) \cup Indices(done[w])
        /\ GoodBatch(parsed) /\ GoodBatch(done[w]) => GoodBatch(parsed')
    BY <1>2, <1>7, IndicesConcat
  <2>2. TypeOK'
    BY <1>1, <1>4, <1>7, <2>1 DEF JobInv, TypeOK, given
  <2>3. ListInv' /\ ClaimInv'
    BY <1>1 DEF JobInv, ListInv, IsOutstanding, given, ClaimInv, Holds, Positions
  <2>4. BatchInv'
    <3>1. /\ GoodBatch(parsed')
          /\ \A v \in Workers : GoodBatch(done[v]) /\ (pc[v] = "unspawned" => done[v] = <<>>)
      BY <2>1 DEF JobInv, BatchInv
    <3> QED
      BY <1>1, <3>1 DEF BatchInv, GoodBatch
  <2>5. ReadSoFar' = Indices(parsed') \cup UNION {Indices(done[v]) : v \in Workers}
    BY <1>1 DEF ReadSoFar
  <2>6. ReadSoFar \subseteq ReadSoFar'
    BY <2>1, <2>5 DEF ReadSoFar
  <2>7. AccountedInv'
    BY <1>1, <2>6 DEF JobInv, AccountedInv, Positions, Holds, given
  <2>8. ASSUME NEW v \in Workers, Merged(v) \/ v = w
        PROVE  Merged(v)'
    <3>1. Indices(done[v])' = Indices(done[v])
      BY <1>1 DEF Indices
    <3> QED
      BY <1>1, <1>7, <2>1, <2>8, <3>1 DEF Merged, given
  <2>9. HandleInv'
    BY <1>1, <1>5, <1>6, <1>7, <2>8 DEF HandleInv, Active, given
  <2>10. EndInv' /\ ErrorInv' /\ CallerInv' /\ EarliestFailureReported'
    BY <1>1, <1>5, <1>7
    DEF JobInv, EndInv, ErrorInv, CallerInv, EarliestFailureReported, given, SP!Running
  <2> QED
    BY <2>2, <2>3, <2>4, <2>7, <2>9, <2>10 DEF JobInv
<1>8. CASE /\ pc[w] = "failed"
           /\ first_error' = EarlierFailure(first_error, outstanding[item[w]])
           /\ UNCHANGED <<caller, parsed, outcome>>
  <2>1. item[w] \in Positions /\ outstanding[item[w]] \in 1..N
    BY <1>2, <1>8, SourcesAssumption DEF JobInv, ClaimInv, Holds, Positions
  <2>2. first_error \in Nat /\ outstanding[item[w]] \in Nat \ {0}
    BY <1>2, <2>1, SourcesAssumption
  <2>3. /\ first_error' \in {first_error, outstanding[item[w]]} /\ first_error' # 0
        /\ first_error' <= outstanding[item[w]]
        /\ first_error # 0 => first_error' <= first_error
    BY <1>8, <2>2, EarlierFailureMin
  <2>4. first_error' \in 0..N
    BY <1>2, <2>1, <2>3, SourcesAssumption
  <2>5. TypeOK'
    BY <1>1, <1>4, <1>8, <2>4 DEF JobInv, TypeOK, given
  <2>6. ListInv' /\ ClaimInv' /\ AccountedInv' /\ BatchInv'
    BY <1>1, <1>8, CallerFrame
  <2>7. ASSUME NEW v \in Workers, Merged(v) \/ v = w
        PROVE  Merged(v)'
    <3>1. Indices(done[v])' = Indices(done[v]) /\ Indices(parsed)' = Indices(parsed)
      BY <1>1, <1>8 DEF Indices
    <3>2. pc[v] = "failed" => outstanding[item[v]] \in Nat
      BY <1>2, SourcesAssumption DEF JobInv, ClaimInv, Holds, Positions
    <3>3. first_error' \in Nat
      BY <2>4, SourcesAssumption
    <3> QED
      BY <1>1, <1>8, <2>2, <2>3, <2>7, <3>1, <3>2, <3>3 DEF Merged, given
  <2>8. HandleInv'
    BY <1>1, <1>5, <1>6, <1>8, <2>7 DEF HandleInv, Active, given
  <2>9. EndInv' /\ CallerInv' /\ EarliestFailureReported'
    BY <1>1, <1>5, <1>8 DEF JobInv, EndInv, CallerInv, EarliestFailureReported, given, SP!Running
  <2>10. ErrorInv'
    BY <1>1, <1>8, <2>3 DEF JobInv, ErrorInv, given
  <2> QED
    BY <2>5, <2>6, <2>8, <2>9, <2>10 DEF JobInv
<1>9. CASE Ends(SP!Panicked) /\ UNCHANGED <<parsed, first_error>>
  BY <1>1, <1>4, <1>5, <1>9, StopKeeps DEF Ends, SP!Panicked
<1> QED
  BY <1>3, <1>7, <1>8, <1>9 DEF Merge

(* When the last batch is merged, a failure is the earliest there is. *)
LEMMA FirstErrorIsEarliest ==
  ASSUME JobInv, caller = "merge", handles = <<>>, first_error # 0
  PROVE  /\ {j \in 1..N \ cached : j < first_error} \subseteq ReadSoFar
         /\ first_error \in missing /\ first_error \in 1..N \ cached
<1>1. PICK w \in Workers : pc[w] = "failed" /\ outstanding[item[w]] = first_error
  BY DEF JobInv, ErrorInv
<1>2. item[w] \in Positions /\ item[w] < cursor /\ first_error \in missing
  BY <1>1 DEF JobInv, ClaimInv, Holds
<1>3. /\ outstanding \in Seq(1..N) /\ Len(outstanding) \in Nat /\ cursor \in Nat
      /\ IsOutstanding(outstanding)
  BY DEF JobInv, TypeOK, ListInv
<1>4. first_error \in 1..N \ cached
  BY <1>1, <1>2, <1>3 DEF IsOutstanding, Positions
<1>5. \A v \in Workers : Merged(v)
  <2>1. Handled = {}
    BY DEF Handled, Elements
  <2>2. parallel
    BY <1>1 DEF JobInv, HandleInv
  <2> QED
    BY <2>1, <2>2 DEF JobInv, HandleInv
<1>6. ASSUME NEW j \in 1..N \ cached, j < first_error
      PROVE  j \in ReadSoFar
  <2>1. PICK k \in Positions : outstanding[k] = j
    BY <1>3 DEF IsOutstanding, Positions
  <2>2. k \in Int /\ item[w] \in Int /\ j \in Int /\ first_error \in Int
    BY <1>2, <1>4, SourcesAssumption DEF Positions
  <2>3. k < item[w]
    <3>1. item[w] < k => first_error < j
      BY <1>1, <1>2, <1>3, <2>1 DEF IsOutstanding, Positions
    <3>2. item[w] = k => first_error = j
      BY <1>1, <2>1
    <3> QED
      BY <1>6, <2>2, <3>1, <3>2
  <2>4. k < cursor
    BY <1>2, <1>3, <2>2, <2>3
  <2>5. ASSUME NEW v \in Workers, Holds(v), item[v] = k
        PROVE  FALSE
    <3>1. first_error <= outstanding[k]
      BY <1>5, <2>5 DEF Merged, Holds
    <3> QED
      BY <1>6, <2>1, <2>2, <3>1
  <2> QED
    BY <2>1, <2>4, <2>5 DEF JobInv, AccountedInv
<1> QED
  BY <1>2, <1>4, <1>6

LEMMA ReportKeeps == JobInv /\ Report => JobInv'
<1> SUFFICES ASSUME JobInv, Report
             PROVE  JobInv'
  OBVIOUS
<1>1. /\ caller = "merge" /\ handles = <<>> /\ caller' = "stopped"
      /\ UNCHANGED <<given, missing, cursor, pc, item, done, handles, parsed, first_error>>
  BY DEF Report, Ends
<1>2. /\ handles \in Seq(Workers)
      /\ \A w \in Workers : ~Active(w)
  BY <1>1 DEF JobInv, TypeOK, HandleInv
<1>3. CASE first_error = 0
  <2>1. outcome'.kind = "delivered"
    BY <1>3 DEF Report, Ends, SP!Delivered
  <2> QED
    BY <1>1, <1>2, <2>1, StopKeeps
<1>4. CASE first_error # 0
  <2>1. outcome' = [kind |-> "failed", source |-> first_error]
    BY <1>4 DEF Report, Ends, SP!Failed
  <2>2. {j \in 1..N \ cached : j < first_error} \subseteq ReadSoFar
    BY <1>1, <1>4, FirstErrorIsEarliest
  <2>3. TypeOK'
    BY <1>1, <2>1 DEF JobInv, TypeOK, given
  <2>4. ListInv' /\ ClaimInv' /\ AccountedInv' /\ BatchInv'
    BY <1>1, CallerFrame
  <2>5. HandleInv' /\ EndInv' /\ ErrorInv' /\ CallerInv'
    BY <1>1, <1>2, <2>1 DEF JobInv, HandleInv, Active, EndInv, ErrorInv, CallerInv, given
  <2>6. EarliestFailureReported'
    BY <1>1, <2>1, <2>2, ReadFrame DEF EarliestFailureReported, given
  <2> QED
    BY <2>3, <2>4, <2>5, <2>6 DEF JobInv
<1> QED
  BY <1>3, <1>4

LEMMA UnchangedKeeps == JobInv /\ UNCHANGED vars => JobInv'
<1> SUFFICES ASSUME JobInv, UNCHANGED vars
             PROVE  JobInv'
  OBVIOUS
<1> USE DEF vars, given
<1>1. TypeOK'
  BY DEF JobInv, TypeOK
<1>2. ListInv' /\ ClaimInv' /\ AccountedInv' /\ BatchInv'
  BY CallerFrame
<1>3. HandleInv' /\ EndInv' /\ ErrorInv' /\ CallerInv'
  BY HandleFrame DEF JobInv, HandleInv, Active, EndInv, ErrorInv, CallerInv
<1>4. EarliestFailureReported'
  BY ReadFrame DEF JobInv, EarliestFailureReported
<1> QED
  BY <1>1, <1>2, <1>3, <1>4 DEF JobInv

LEMMA JobInvNext == JobInv /\ [Next]_vars => JobInv'
<1> SUFFICES ASSUME JobInv, [Next]_vars
             PROVE  JobInv'
  OBVIOUS
<1>1. CASE Vanish
  BY <1>1, VanishKeeps
<1>2. CASE SpawnFails
  BY <1>2, SpawnFailsKeeps
<1>3. CASE SequentialStep
  BY <1>3, SequentialStepKeeps
<1>4. CASE SequentialEnd
  BY <1>4, SequentialEndKeeps
<1>5. ASSUME NEW w \in Workers, Spawn(w)
      PROVE  JobInv'
  BY <1>5, SpawnKeeps
<1>6. CASE AllSpawned
  BY <1>6, AllSpawnedKeeps
<1>7. CASE Joined
  BY <1>7, JoinedKeeps
<1>8. CASE Unwound
  BY <1>8, UnwoundKeeps
<1>9. CASE Merge
  BY <1>9, MergeKeeps
<1>10. CASE Report
  BY <1>10, ReportKeeps
<1>11. ASSUME NEW w \in Workers, Claim(w)
       PROVE  JobInv'
  BY <1>11, ClaimKeeps
<1>12. ASSUME NEW w \in Workers, Work(w)
       PROVE  JobInv'
  BY <1>12, WorkKeeps
<1>13. CASE UNCHANGED vars
  BY <1>13, UnchangedKeeps
<1> QED
  BY <1>1, <1>2, <1>3, <1>4, <1>5, <1>6, <1>7, <1>8, <1>9, <1>10, <1>11, <1>12, <1>13
  DEF Next, CallerStep, Stopped

(* The variables keep their types, whatever the interleaving of            *)
(* run_parse_job and its workers.                                          *)
THEOREM TypeCorrect == Spec => []TypeOK
<1>1. JobInv => TypeOK
  BY DEF JobInv
<1> QED
  BY JobInvInit, JobInvNext, <1>1, PTL DEF Spec

(* However the workers are scheduled, run_parse_job reports the failure    *)
(* that reading one source after the other would have met first.           *)
THEOREM EarliestFailure == Spec => []EarliestFailureReported
<1>1. JobInv => EarliestFailureReported
  BY DEF JobInv
<1> QED
  BY JobInvInit, JobInvNext, <1>1, PTL DEF Spec

(* When run_parse_job has returned, failed or unwound, no worker runs.     *)
THEOREM NoWorkerSurvives == Spec => []NoWorkerOutlivesJob
<1>1. JobInv => NoWorkerOutlivesJob
  BY DEF JobInv, NoWorkerOutlivesJob, CallerInv, HandleInv, Active
<1> QED
  BY JobInvInit, JobInvNext, <1>1, PTL DEF Spec

-----------------------------------------------------------------------------
(* Refinement.                                                             *)
LEMMA Least ==
  ASSUME NEW S \in SUBSET Nat, S # {}
  PROVE  \E n \in S : \A m \in S : n <= m
<1> DEFINE R == {ss \in Nat \X Nat : ss[1] < ss[2]}
<1>1. IsWellFoundedOn(R, Nat)
  BY NatLessThanWellFounded DEF OpToRel
<1>2. PICK x \in S : \A y \in S : ~ (<<y, x>> \in R)
  BY <1>1, WFMin
<1>3. \A y \in S : ~(y < x)
  BY <1>2
<1> QED
  BY <1>3

LEMMA Greatest ==
  ASSUME NEW n \in Nat, NEW S \in SUBSET (1..n), S # {}
  PROVE  \E k \in S : \A l \in S : l <= k
<1> DEFINE T == {n - k : k \in S}
<1>1. T \subseteq Nat
  <2> SUFFICES ASSUME NEW k \in S
               PROVE  n - k \in Nat
    OBVIOUS
  <2>1. k \in 1..n
    OBVIOUS
  <2> QED
    BY <2>1
<1>2. T # {}
  OBVIOUS
<1>3. PICK t \in T : \A u \in T : t <= u
  <2> HIDE DEF T
  <2> QED
    BY <1>1, <1>2, Least
<1>4. PICK k \in S : t = n - k
  BY <1>3
<1>5. \A l \in S : n - k <= n - l
  BY <1>3, <1>4
<1>6. \A l \in S : l \in Int
  OBVIOUS
<1>7. \A l \in S : l <= k
  BY <1>5, <1>6
<1> QED
  BY <1>7

(* When the last batch is merged without a failure, every source is read   *)
(* and its slot holds its own module.                                      *)
LEMMA EverySlotFilled ==
  ASSUME JobInv, caller = "merge", handles = <<>>, first_error = 0
  PROVE  /\ 1..N \ cached \subseteq ReadSoFar
         /\ \A i \in 1..N : Slot(i) = i
<1>1. /\ outstanding \in Seq(1..N) /\ Len(outstanding) \in Nat /\ cursor \in Nat
      /\ IsOutstanding(outstanding) /\ parsed \in Seq(Entry)
  BY DEF JobInv, TypeOK, ListInv
<1>2. \A w \in Workers : /\ ~Holds(w)
                         /\ Indices(done[w]) \subseteq Indices(parsed)
  <2>1. Handled = {}
    BY DEF Handled, Elements
  <2> SUFFICES ASSUME NEW w \in Workers
               PROVE  ~Holds(w) /\ Indices(done[w]) \subseteq Indices(parsed)
    OBVIOUS
  <2>2. pc[w] = "unspawned" \/ Merged(w)
    BY <2>1 DEF JobInv, HandleInv
  <2>3. pc[w] = "unspawned" => Indices(done[w]) = {}
    BY IndicesEmpty DEF JobInv, BatchInv
  <2> QED
    BY <2>2, <2>3 DEF Merged, Holds
<1>3. cursor > Len(outstanding)
  <2>1. CASE parallel
    <3>1. PICK w \in Workers : TRUE
      BY WorkersAssumption
    <3>2. pc[w] = "finished"
      BY <2>1, <1>2, <3>1 DEF JobInv, HandleInv, Merged, Holds, Handled, Elements
    <3> QED
      BY <3>1, <3>2 DEF JobInv, EndInv
  <2>2. CASE ~parallel
    BY <2>2 DEF JobInv, EndInv
  <2> QED
    BY <2>1, <2>2
<1>4. ASSUME NEW i \in 1..N \ cached
      PROVE  i \in Indices(parsed)
  <2>1. PICK k \in Positions : outstanding[k] = i
    BY <1>1 DEF IsOutstanding, Positions
  <2>2. k < cursor
    BY <1>1, <1>3 DEF Positions
  <2>3. i \in ReadSoFar
    BY <1>2, <2>1, <2>2 DEF JobInv, AccountedInv
  <2> QED
    BY <1>2, <2>3 DEF ReadSoFar
<1>5. ASSUME NEW i \in 1..N
      PROVE  Slot(i) = i
  <2>1. CASE i \in cached
    BY <2>1 DEF Slot
  <2>2. CASE i \notin cached
    <3> DEFINE here == {k \in 1..Len(parsed) : parsed[k].index = i}
               last == CHOOSE k \in here : \A l \in here : l <= k
    <3>1. here # {}
      BY <2>2, <1>4 DEF Indices
    <3>2. here \in SUBSET (1..Len(parsed)) /\ Len(parsed) \in Nat
      BY <1>1
    <3>3. \E k \in here : \A l \in here : l <= k
      <4> HIDE DEF here
      <4> QED
        BY <3>1, <3>2, Greatest
    <3>4. last \in here
      BY <3>3
    <3>5. parsed[last].module = i
      BY <3>4 DEF JobInv, BatchInv, GoodBatch
    <3>6. Slot(i) = parsed[last].module
      BY <2>2, <3>1 DEF Slot
    <3> QED
      BY <3>5, <3>6
  <2> QED
    BY <2>1, <2>2
<1> QED
  BY <1>4, <1>5 DEF ReadSoFar

LEMMA FlattenedIsIdentity ==
  ASSUME \A i \in 1..N : Slot(i) = i
  PROVE  Flattened = [i \in 1..N |-> i]
<1> DEFINE full == {i \in 1..N : Slot(i) # 0}
           Nth(k) == CHOOSE i \in full : Cardinality({j \in full : j < i}) = k - 1
<1>1. N \in Nat /\ full = 1..N
  BY SourcesAssumption
<1>2. Cardinality(full) = N
  <2>1. 1 \in Int /\ N \in Int /\ Cardinality(1..N) = IF 1 > N THEN 0 ELSE N - 1 + 1
    BY <1>1, FS_Interval
  <2>2. Cardinality(1..N) = N
    BY <1>1, <2>1
  <2> HIDE DEF full
  <2> QED
    BY <1>1, <2>2
<1>3. ASSUME NEW i \in 1..N
      PROVE  Cardinality({j \in full : j < i}) = i - 1
  <2>1. {j \in full : j < i} = 1..(i - 1)
    BY <1>1
  <2>2. Cardinality(1..(i - 1)) = i - 1
    BY <1>1, FS_Interval
  <2> QED
    BY <2>1, <2>2
<1>4. ASSUME NEW k \in 1..N
      PROVE  Nth(k) = k
  <2>1. Cardinality({j \in full : j < k}) = k - 1 /\ k \in full
    BY <1>1, <1>3
  <2>2. Nth(k) \in full /\ Cardinality({j \in full : j < Nth(k)}) = k - 1
    BY <2>1
  <2>3. PICK n \in 1..N : n = Nth(k)
    BY <1>1, <2>2
  <2>4. Cardinality({j \in full : j < n}) = n - 1
    BY <1>3
  <2> HIDE DEF full, Nth
  <2>5. n - 1 = k - 1
    BY <2>2, <2>3, <2>4
  <2> QED
    BY <2>3, <2>5, <1>1
<1>5. Flattened = [k \in 1..Cardinality(full) |-> Slot(Nth(k))]
  BY DEF Flattened
<1> HIDE DEF full, Nth
<1> QED
  BY <1>2, <1>4, <1>5

LEMMA InitRefines == Init => SP!Init
<1> SUFFICES ASSUME Init
             PROVE  SP!Init
  OBVIOUS
<1>1. Indices(parsed) = {} /\ \A w \in Workers : Indices(done[w]) = {}
  BY IndicesEmpty DEF Init
<1>2. ReadSoFar = {}
  BY <1>1 DEF ReadSoFar
<1> QED
  BY <1>2 DEF Init, SP!Init

(* A step that SequentialParse does not see. *)
LEMMA Stutters ==
  ASSUME UNCHANGED <<given, missing, parsed, done, outcome>>
  PROVE  UNCHANGED SP!vars
BY ReadFrame DEF SP!vars, given

(* A source that is parsed is one that was to be read. *)
LEMMA ReadOne ==
  ASSUME JobInv, outcome = SP!Running, NEW i \in 1..N \ cached, i \notin missing \cup panics,
         UNCHANGED <<given, missing, outcome>>, ReadSoFar' = ReadSoFar \cup {i}
  PROVE  SP!Read
BY DEF SP!Read, SP!ToRead, given

LEMMA StepRefines == JobInv /\ [Next]_vars => [SP!Next]_(SP!vars)
<1> SUFFICES ASSUME JobInv, [Next]_vars
             PROVE  SP!Next \/ UNCHANGED SP!vars
  OBVIOUS
<1>1. CASE Vanish
  BY <1>1, ReadFrame DEF Vanish, SP!Next, SP!Vanish, given
<1>2. CASE SpawnFails \/ SequentialEnd \/ AllSpawned \/ Joined \/ UNCHANGED vars
  BY <1>2, Stutters DEF SpawnFails, SequentialEnd, AllSpawned, Joined, vars
<1>3. ASSUME NEW w \in Workers, Spawn(w) \/ Claim(w)
      PROVE  UNCHANGED SP!vars
  BY <1>3, Stutters DEF Spawn, Claim
<1>4. /\ outstanding \in Seq(1..N) /\ IsOutstanding(outstanding) /\ Len(outstanding) \in Nat
      /\ cursor \in Nat \ {0} /\ parsed \in Seq(Entry) /\ done \in [Workers -> Seq(Entry)]
      /\ handles \in Seq(Workers)
  BY DEF JobInv, TypeOK, ListInv
<1>5. \A k \in Positions : outstanding[k] \in 1..N \ cached
  BY <1>4 DEF IsOutstanding, Positions
<1>6. CASE SequentialStep
  <2> DEFINE i == outstanding[cursor]
  <2>1. /\ caller = "sequential" /\ cursor \in Positions
        /\ UNCHANGED <<given, missing, pc, item, done, handles, first_error>>
    BY <1>4, <1>6 DEF SequentialStep, Positions
  <2>2. i \in 1..N \ cached /\ outcome = SP!Running /\ SP!ToRead = 1..N \ cached
    BY <1>5, <2>1 DEF JobInv, CallerInv, SP!ToRead
  <2>3. CASE i \in missing /\ Ends(SP!Failed(i)) /\ UNCHANGED <<cursor, parsed>>
    <3>1. JobInv' /\ ReadSoFar' = ReadSoFar
      BY <1>6, <2>1, <2>3, SequentialStepKeeps, ReadFrame
    <3>2. outcome' = SP!Failed(i) /\ outcome'.kind = "failed" /\ outcome'.source = i
      BY <2>3 DEF Ends, SP!Failed
    <3>3. {j \in SP!ToRead : j < i} \subseteq ReadSoFar
      BY <2>1, <2>2, <3>1, <3>2 DEF JobInv, EarliestFailureReported, given
    <3>4. SP!Fail
      BY <2>1, <2>2, <2>3, <3>1, <3>2, <3>3 DEF SP!Fail, SP!Ends, given
    <3> QED
      BY <3>4 DEF SP!Next
  <2>4. CASE i \in panics /\ Ends(SP!Panicked) /\ UNCHANGED <<cursor, parsed>>
    <3>1. ReadSoFar' = ReadSoFar
      BY <2>1, <2>4, ReadFrame
    <3>2. panics \cap SP!ToRead # {}
      BY <2>2, <2>4
    <3>3. SP!Unwind
      BY <2>1, <2>2, <2>4, <3>1, <3>2 DEF SP!Unwind, SP!Ends, Ends, given
    <3> QED
      BY <3>3 DEF SP!Next
  <2>5. CASE i \notin missing \cup panics /\ parsed' = Append(parsed, Module(i)) /\ UNCHANGED outcome
    <3>1. Module(i) \in Entry /\ Module(i).index = i
      BY <2>2 DEF Module, Entry
    <3>2. Indices(parsed') = Indices(parsed) \cup {i}
      BY <1>4, <2>5, <3>1, IndicesAppend
    <3>3. ReadSoFar' = ReadSoFar \cup {i}
      BY <2>1, <3>2 DEF ReadSoFar
    <3>4. SP!Read
      BY <2>1, <2>2, <2>5, <3>3, ReadOne
    <3> QED
      BY <3>4 DEF SP!Next
  <2> QED
    BY <1>6, <2>3, <2>4, <2>5 DEF SequentialStep
<1>7. ASSUME NEW w \in Workers, Work(w)
      PROVE  SP!Next \/ UNCHANGED SP!vars
  <2> DEFINE i == outstanding[item[w]]
  <2>1. /\ pc[w] = "work"
        /\ UNCHANGED <<given, missing, item, handles, caller, parsed, outcome>>
    BY <1>7 DEF Work
  <2>2. i \in 1..N \ cached
    BY <1>5, <2>1 DEF JobInv, ClaimInv, Holds
  <2>3. outcome = SP!Running
    BY <2>1 DEF JobInv, CallerInv, HandleInv, Active
  <2>4. CASE UNCHANGED done
    BY <2>1, <2>4, Stutters
  <2>5. CASE i \notin missing \cup panics /\ done' = [done EXCEPT ![w] = Append(@, Module(i))]
    <3>1. Module(i) \in Entry /\ Module(i).index = i
      BY <2>2 DEF Module, Entry
    <3>2. done'[w] = Append(done[w], Module(i)) /\ \A v \in Workers : v # w => done'[v] = done[v]
      BY <1>4, <2>5
    <3>3. done[w] \in Seq(Entry)
      BY <1>4
    <3> HIDE DEF i
    <3>4. Indices(Append(done[w], Module(i))) = Indices(done[w]) \cup {i}
      BY <3>1, <3>3, IndicesAppend
    <3>5. Indices(done'[w]) = Indices(done[w]) \cup {i}
      BY <3>2, <3>4
    <3>6. ReadSoFar' = Indices(parsed) \cup UNION {Indices(done'[v]) : v \in Workers}
      BY <2>1 DEF ReadSoFar
    <3>7. ReadSoFar' = ReadSoFar \cup {i}
      BY <3>2, <3>5, <3>6 DEF ReadSoFar
    <3>8. SP!Read
      BY <2>1, <2>2, <2>3, <2>5, <3>7, ReadOne
    <3> QED
      BY <3>8 DEF SP!Next
  <2> QED
    BY <1>7, <2>4, <2>5 DEF Work
<1>8. CASE Unwound
  <2>1. scarce /\ outcome = SP!Running
    BY <1>8 DEF Unwound, JobInv, CallerInv
  <2>2. SP!Unwind
    BY <1>8, <2>1, ReadFrame DEF Unwound, SP!Unwind, SP!Ends, Ends, given
  <2> QED
    BY <2>2 DEF SP!Next
<1>9. CASE Merge
  <2>1. /\ caller = "merge" /\ handles # <<>> /\ outcome = SP!Running
        /\ UNCHANGED <<given, missing, item, pc, done>>
    BY <1>9 DEF Merge, JobInv, CallerInv
  <2>2. PICK w \in Workers : w = Head(handles)
    BY <1>4, <2>1, HeadTail
  <2>3. CASE parsed' = parsed \o done[w] /\ UNCHANGED outcome
    <3>1. Indices(parsed') = Indices(parsed) \cup Indices(done[w])
      BY <1>4, <2>2, <2>3, IndicesConcat
    <3>2. ReadSoFar' = Indices(parsed') \cup UNION {Indices(done[v]) : v \in Workers}
      BY <2>1 DEF ReadSoFar
    <3>3. ReadSoFar' = ReadSoFar
      BY <3>1, <3>2, <2>2 DEF ReadSoFar
    <3> QED
      BY <2>1, <2>3, <3>3 DEF SP!vars, given
  <2>4. CASE UNCHANGED <<parsed, outcome>>
    BY <2>1, <2>4, Stutters
  <2>5. CASE pc[w] = "panicked" /\ Ends(SP!Panicked) /\ UNCHANGED parsed
    <3>1. outstanding[item[w]] \in panics /\ outstanding[item[w]] \in 1..N \ cached
      BY <1>5, <2>5 DEF JobInv, ClaimInv, Holds
    <3>2. SP!Unwind
      BY <2>1, <2>5, <3>1, ReadFrame DEF SP!Unwind, SP!Ends, SP!ToRead, Ends, given
    <3> QED
      BY <3>2 DEF SP!Next
  <2> QED
    BY <1>9, <2>2, <2>3, <2>4, <2>5 DEF Merge
<1>10. CASE Report
  <2>1. /\ caller = "merge" /\ handles = <<>> /\ outcome = SP!Running /\ ReadSoFar' = ReadSoFar
        /\ UNCHANGED <<given, missing>>
    BY <1>10, ReadFrame DEF Report, JobInv, CallerInv
  <2>2. CASE first_error = 0
    <3>1. 1..N \ cached \subseteq ReadSoFar /\ Flattened = [i \in 1..N |-> i]
      BY <2>1, <2>2, EverySlotFilled, FlattenedIsIdentity
    <3>2. outcome' = SP!Delivered([i \in 1..N |-> i])
      BY <1>10, <2>2, <3>1 DEF Report, Ends
    <3>3. SP!Deliver
      BY <2>1, <3>1, <3>2 DEF SP!Deliver, SP!Ends, SP!ToRead, given
    <3> QED
      BY <3>3 DEF SP!Next
  <2>3. CASE first_error # 0
    <3>1. /\ {j \in 1..N \ cached : j < first_error} \subseteq ReadSoFar
          /\ first_error \in missing /\ first_error \in 1..N \ cached
      BY <2>1, <2>3, FirstErrorIsEarliest
    <3>2. outcome' = SP!Failed(first_error)
      BY <1>10, <2>3 DEF Report, Ends
    <3>3. SP!Fail
      BY <2>1, <3>1, <3>2 DEF SP!Fail, SP!Ends, SP!ToRead, given
    <3> QED
      BY <3>3 DEF SP!Next
  <2> QED
    BY <2>2, <2>3
<1> QED
  BY <1>1, <1>2, <1>3, <1>6, <1>7, <1>8, <1>9, <1>10 DEF Next, CallerStep, Stopped

(* The parallel job is the sequential one: every step of run_parse_job and *)
(* its workers is a step of SequentialParse, or one it does not see.       *)
THEOREM RefinesSequential == Spec => SP!Init /\ [][SP!Next]_(SP!vars)
BY JobInvInit, JobInvNext, InitRefines, StepRefines, PTL DEF Spec

(* However the workers finish, the modules run_parse_job delivers are      *)
(* those of all sources, in discovery order.                               *)
THEOREM DeliveryInOrder == Spec => []DeliveredInOrder
<1>1. Init => DeliveredInOrder
  BY DEF Init, DeliveredInOrder, SP!Running
<1>2. JobInv /\ DeliveredInOrder /\ [Next]_vars => DeliveredInOrder'
  <2> SUFFICES ASSUME JobInv, DeliveredInOrder, SP!Next \/ UNCHANGED SP!vars
               PROVE  DeliveredInOrder'
    BY StepRefines
  <2>1. CASE outcome' = outcome
    BY <2>1 DEF DeliveredInOrder
  <2>2. CASE SP!Fail \/ SP!Unwind
    <3>1. outcome'.kind \in {"failed", "panicked"}
      BY <2>2 DEF SP!Fail, SP!Unwind, SP!Ends, SP!Failed, SP!Panicked
    <3> QED
      BY <3>1 DEF DeliveredInOrder
  <2>3. CASE SP!Deliver
    <3>1. outcome'.modules = [i \in 1..N |-> i]
      BY <2>3 DEF SP!Deliver, SP!Ends, SP!Delivered
    <3> QED
      BY <3>1 DEF DeliveredInOrder
  <2> QED
    BY <2>1, <2>2, <2>3 DEF SP!Next, SP!Vanish, SP!Read, SP!vars
<1> QED
  BY JobInvInit, JobInvNext, <1>1, <1>2, PTL DEF Spec

=============================================================================
