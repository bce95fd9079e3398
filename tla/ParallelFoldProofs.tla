------------------------- MODULE ParallelFoldProofs -------------------------
(***************************************************************************)
(* Proofs about ParallelFold, for any number of items and helpers: no item *)
(* is worked on twice, none is lost from a returned map, no helper is      *)
(* running when the call is over, and the call is the sequential map: the  *)
(* batches have one place for each item, so sorting them puts each result  *)
(* at the index of its item.                                               *)
(***************************************************************************)
EXTENDS ParallelFold, FiniteSetTheorems, WellFoundedInduction, TLAPS

(* What a thread has claimed lies before the cursor. *)
ClaimInv ==
    /\ \A t \in Threads : Busy(t) => item[t] \in 1..N /\ item[t] < cursor
    /\ \A t \in Threads : \A i \in 1..Len(done[t]) : done[t][i].index < cursor

(* A panic is remembered: in the helper until it is joined, then in the    *)
(* caller.                                                                 *)
SomePanic == payload = "panic" \/ \E h \in Helpers : pc[h] = "panicked"

(* Every claimed item is in a batch, at work, or some thread has panicked. *)
Accounted ==
    \A i \in 1..N :
        i < cursor =>
            \/ \E t \in Threads : \E k \in 1..Len(done[t]) :
                  done[t][k] = [index |-> i, result |-> Work[i]]
            \/ \E t \in Threads : Busy(t) /\ item[t] = i
            \/ SomePanic

(* The helpers that may still be running are those not joined yet; the     *)
(* caller stops only when all are joined.                                  *)
Joinable == {handles[i] : i \in 1..Len(handles)}

PoolInv ==
    /\ pc[Caller] \in CallerStates \cup {"work", "stopped"}
    /\ \A h \in Helpers : /\ pc[h] \in States
                          /\ pc[h] # "unspawned" =>
                                \/ h \in Joinable
                                \/ pc[h] = "finished"
                                \/ pc[h] = "panicked" /\ payload = "panic"
    /\ outcome.kind # "running" => pc[Caller] = "stopped"
    /\ pc[Caller] = "stopped" => handles = <<>>
    /\ pc[Caller] \in {"join", "stopped"} => payload = "panic" \/ cursor > N

(* A map is returned only when nothing panicked. *)
ReturnInv == outcome.kind = "returned" => payload = "none"

FoldInv ==
    /\ TypeOK
    /\ ClaimInv
    /\ HandedOutOnce
    /\ Accounted
    /\ PoolInv
    /\ ReturnInv

-----------------------------------------------------------------------------
(* Adding an entry to a batch. *)
LEMMA AppendEntry ==
    ASSUME NEW S, NEW s \in Seq(S), NEW e \in S
    PROVE  /\ Append(s, e) \in Seq(S)
           /\ Len(s) \in Nat
           /\ Len(Append(s, e)) = Len(s) + 1
           /\ \A i \in 1..Len(s) : Append(s, e)[i] = s[i]
           /\ Append(s, e)[Len(s) + 1] = e
OBVIOUS

LEMMA FoldInvInit == Init => FoldInv
<1> SUFFICES ASSUME Init
             PROVE  FoldInv
  OBVIOUS
<1>1. /\ Caller \in Threads /\ Helpers \subseteq Threads
      /\ \A t \in Threads : done[t] = <<>> /\ pc[t] \in {"spawn", "unspawned"}
      /\ pc[Caller] = "spawn"
      /\ \A h \in Helpers : pc[h] = "unspawned"
  BY CallerAssumption DEF Init, Threads
<1>2. TypeOK
  <2>1. payload \in {"none", "panic"} /\ scarce \in BOOLEAN
    BY DEF Init
  <2>2. /\ done \in [Threads -> Seq(Entry)] /\ handles \in Seq(Helpers)
        /\ item \in [Threads -> Nat] /\ cursor \in Nat \ {0} /\ panics \subseteq 1..N
    BY DEF Init
  <2>3. pc \in [Threads -> States \cup CallerStates \cup {"stopped"}]
    BY DEF Init, States, CallerStates
  <2>4. outcome.kind \in {"running", "returned", "panicked"}
    BY DEF Init, OM!Running
  <2> QED
    BY <2>1, <2>2, <2>3, <2>4 DEF TypeOK
<1>3. ClaimInv /\ HandedOutOnce
  BY <1>1 DEF ClaimInv, HandedOutOnce, Busy
<1>4. Accounted
  BY DEF Init, Accounted
<1>5. PoolInv /\ ReturnInv
  BY <1>1 DEF Init, PoolInv, ReturnInv, OM!Running, States, CallerStates
<1> QED
  BY <1>2, <1>3, <1>4, <1>5 DEF FoldInv

-----------------------------------------------------------------------------
(* The steps that neither claim nor finish an item. *)
LEMMA UnclaimingKeeps ==
    ASSUME ClaimInv, HandedOutOnce, UNCHANGED <<cursor, item, done>>,
           \A t \in Threads : Busy(t)' => Busy(t)
    PROVE  ClaimInv' /\ HandedOutOnce'
BY DEF ClaimInv, HandedOutOnce

LEMMA AccountedKeeps ==
    ASSUME Accounted, UNCHANGED <<cursor, item, done>>,
           \A t \in Threads : Busy(t) => Busy(t)',
           SomePanic => SomePanic'
    PROVE  Accounted'
BY DEF Accounted

LEMMA SpawnKeeps == ASSUME FoldInv, NEW h \in Helpers, Spawn(h)  PROVE FoldInv'
<1>1. /\ pc[Caller] = "spawn" /\ pc[h] = "unspawned"
      /\ pc' = [pc EXCEPT ![h] = "claim"]
      /\ handles' = Append(handles, h)
      /\ UNCHANGED <<panics, scarce, cursor, item, done, payload, outcome>>
  BY DEF Spawn, Become
<1>2. h # Caller /\ h \in Threads /\ Caller \in Threads /\ Helpers \subseteq Threads
  BY CallerAssumption DEF Threads
<1>3. handles \in Seq(Helpers) /\ pc \in [Threads -> States \cup CallerStates \cup {"stopped"}]
  BY DEF FoldInv, TypeOK
<1>4. /\ handles' \in Seq(Helpers)
      /\ \A g \in Joinable : g \in Joinable'
      /\ h \in Joinable'
  BY <1>1, <1>3, AppendEntry DEF Joinable
<1>5. pc'[h] = "claim" /\ \A t \in Threads : t # h => pc'[t] = pc[t]
  BY <1>1, <1>2, <1>3
<1>6. TypeOK'
  BY <1>1, <1>2, <1>3, <1>4 DEF FoldInv, TypeOK, States
<1>7. ClaimInv' /\ HandedOutOnce'
  BY <1>1, <1>5, UnclaimingKeeps DEF FoldInv, Busy
<1>8. Accounted'
  BY <1>1, <1>2, <1>5, AccountedKeeps DEF FoldInv, Busy, SomePanic
<1>9. PoolInv' /\ ReturnInv'
  BY <1>1, <1>2, <1>4, <1>5 DEF FoldInv, PoolInv, ReturnInv, States
<1> QED
  BY <1>6, <1>7, <1>8, <1>9 DEF FoldInv

LEMMA SpawnFailsKeeps == FoldInv /\ SpawnFails => FoldInv'
<1> SUFFICES ASSUME FoldInv, SpawnFails
             PROVE  FoldInv'
  OBVIOUS
<1>1. /\ pc[Caller] = "spawn"
      /\ payload' = "panic"
      /\ pc' = [pc EXCEPT ![Caller] = "join"]
      /\ UNCHANGED <<panics, scarce, cursor, item, done, handles, outcome>>
  BY DEF SpawnFails, Become
<1>2. Caller \in Threads /\ \A h \in Helpers : h \in Threads /\ h # Caller
  BY CallerAssumption DEF Threads
<1>3. pc'[Caller] = "join" /\ \A t \in Threads : t # Caller => pc'[t] = pc[t]
  BY <1>1, <1>2 DEF FoldInv, TypeOK
<1>4. TypeOK'
  BY <1>1, <1>2 DEF FoldInv, TypeOK, CallerStates
<1>5. ClaimInv' /\ HandedOutOnce'
  BY <1>1, <1>3, UnclaimingKeeps DEF FoldInv, Busy
<1>6. Accounted'
  BY <1>1, <1>2, <1>3, AccountedKeeps DEF FoldInv, Busy, SomePanic
<1>7. outcome.kind = "running"
  BY <1>1 DEF FoldInv, PoolInv, TypeOK
<1>8. PoolInv' /\ ReturnInv'
  BY <1>1, <1>2, <1>3, <1>7 DEF FoldInv, PoolInv, ReturnInv, CallerStates, Joinable
<1> QED
  BY <1>4, <1>5, <1>6, <1>8 DEF FoldInv

LEMMA CallerWorksKeeps == FoldInv /\ CallerWorks => FoldInv'
<1> SUFFICES ASSUME FoldInv, CallerWorks
             PROVE  FoldInv'
  OBVIOUS
<1>1. /\ pc[Caller] = "spawn"
      /\ pc' = [pc EXCEPT ![Caller] = "claim"]
      /\ UNCHANGED <<panics, scarce, cursor, item, done, handles, payload, outcome>>
  BY DEF CallerWorks, Become
<1>2. Caller \in Threads /\ \A h \in Helpers : h \in Threads /\ h # Caller
  BY CallerAssumption DEF Threads
<1>3. pc'[Caller] = "claim" /\ \A t \in Threads : t # Caller => pc'[t] = pc[t]
  BY <1>1, <1>2 DEF FoldInv, TypeOK
<1>4. TypeOK'
  BY <1>1, <1>2 DEF FoldInv, TypeOK, CallerStates
<1>5. ClaimInv' /\ HandedOutOnce'
  BY <1>1, <1>3, UnclaimingKeeps DEF FoldInv, Busy
<1>6. Accounted'
  BY <1>1, <1>2, <1>3, AccountedKeeps DEF FoldInv, Busy, SomePanic
<1>7. PoolInv' /\ ReturnInv'
  BY <1>1, <1>2, <1>3 DEF FoldInv, PoolInv, ReturnInv, CallerStates, Joinable
<1> QED
  BY <1>4, <1>5, <1>6, <1>7 DEF FoldInv

-----------------------------------------------------------------------------
(* A thread stops: a panic is remembered, and nothing else is lost. *)
LEMMA ClaimKeeps == ASSUME FoldInv, NEW t \in Threads, Claim(t)  PROVE FoldInv'
<1>1. /\ pc[t] = "claim" /\ cursor' = cursor + 1
      /\ UNCHANGED <<panics, scarce, done, handles, outcome>>
  BY DEF Claim
<1>2. /\ Caller \in Threads /\ \A h \in Helpers : h \in Threads /\ h # Caller
      /\ t \in Helpers \/ t = Caller
  BY CallerAssumption DEF Threads
<1>3. /\ cursor \in Nat \ {0} /\ N \in Nat
      /\ item \in [Threads -> Nat]
      /\ pc \in [Threads -> States \cup CallerStates \cup {"stopped"}]
      /\ \A u \in Threads : \A i \in 1..Len(done[u]) : done[u][i].index \in 1..N
  <2>1. \A u \in Threads : \A i \in 1..Len(done[u]) : done[u][i] \in Entry
    BY DEF FoldInv, TypeOK
  <2> QED
    BY <2>1, SizeAssumption DEF FoldInv, TypeOK, Entry
<1>4. outcome.kind = "running"
  <2>1. handles = <<>> => Joinable = {}
    BY DEF Joinable
  <2>2. pc[Caller] # "stopped"
    BY <1>1, <1>2, <2>1 DEF FoldInv, PoolInv
  <2> QED
    BY <2>2 DEF FoldInv, PoolInv, TypeOK
<1>5. CASE cursor <= N
  <2>1. /\ item' = [item EXCEPT ![t] = cursor]
        /\ pc' = [pc EXCEPT ![t] = "work"]
        /\ UNCHANGED payload
    BY <1>5 DEF Claim, Become
  <2>2. /\ item'[t] = cursor /\ pc'[t] = "work"
        /\ \A u \in Threads : u # t => item'[u] = item[u] /\ pc'[u] = pc[u]
    BY <1>3, <2>1
  <2>3. TypeOK'
    BY <1>1, <1>3, <2>1 DEF FoldInv, TypeOK, States
  <2>4. ClaimInv'
    BY <1>1, <1>3, <1>5, <2>2 DEF FoldInv, ClaimInv, Busy
  <2>5. HandedOutOnce'
    <3>1. \A u \in Threads : Busy(u) => item[u] < cursor /\ item[u] \in Nat
      BY <1>3 DEF FoldInv, ClaimInv
    <3>2. \A u \in Threads : \A i \in 1..Len(done[u]) : done[u][i].index < cursor
      BY DEF FoldInv, ClaimInv
    <3>3. \A u \in Threads : u # t => Busy(u)' = Busy(u)
      BY <2>2 DEF Busy
    <3>4. ASSUME NEW u \in Threads, NEW v \in Threads
          PROVE  /\ \A i \in 1..Len(done[u]), j \in 1..Len(done[v]) :
                       done[u][i].index = done[v][j].index => u = v /\ i = j
                 /\ Busy(u)' => \A j \in 1..Len(done[v]) : item'[u] # done[v][j].index
                 /\ Busy(u)' /\ Busy(v)' /\ item'[u] = item'[v] => u = v
      <4>1. \A i \in 1..Len(done[u]), j \in 1..Len(done[v]) :
               done[u][i].index = done[v][j].index => u = v /\ i = j
        BY DEF FoldInv, HandedOutOnce
      <4>2. ASSUME Busy(u)', NEW j \in 1..Len(done[v])
            PROVE  item'[u] # done[v][j].index
        <5>1. CASE u = t
          BY <1>3, <2>2, <3>2, <5>1
        <5>2. CASE u # t
          BY <2>2, <3>3, <4>2, <5>2 DEF FoldInv, HandedOutOnce
        <5> QED
          BY <5>1, <5>2
      <4>3. ASSUME Busy(u)', Busy(v)', item'[u] = item'[v]
            PROVE  u = v
        <5>1. CASE u # t /\ v # t
          BY <2>2, <3>3, <4>3, <5>1 DEF FoldInv, HandedOutOnce
        <5>2. \A w \in Threads : w # t /\ Busy(w)' => item'[w] # cursor
          BY <1>3, <2>2, <3>1, <3>3
        <5> QED
          BY <2>2, <4>3, <5>1, <5>2
      <4> QED
        BY <4>1, <4>2, <4>3
    <3> QED
      BY <1>1, <3>4 DEF HandedOutOnce
  <2>6. Accounted'
    <3>1. SUFFICES ASSUME NEW i \in 1..N, i < cursor'
                   PROVE  \/ \E u \in Threads : \E k \in 1..Len(done[u]) :
                                done[u][k] = [index |-> i, result |-> Work[i]]
                          \/ \E u \in Threads : Busy(u)' /\ item'[u] = i
                          \/ SomePanic'
      BY <1>1 DEF Accounted
    <3>2. CASE i = cursor
      BY <2>2, <3>2 DEF Busy
    <3>3. CASE i < cursor
      <4>1. \A u \in Threads : Busy(u) => u # t
        BY <1>1 DEF Busy
      <4>2. SomePanic => SomePanic'
        BY <1>1, <1>2, <2>1, <2>2 DEF SomePanic
      <4> QED
        BY <2>2, <3>3, <4>1, <4>2 DEF FoldInv, Accounted, Busy
    <3> QED
      BY <1>1, <1>3, <3>1, <3>2, <3>3
  <2>7. PoolInv' /\ ReturnInv'
    <3>1. pc'[Caller] \in {"join", "stopped"} => payload' = "panic" \/ cursor' > N
      BY <1>1, <1>2, <1>3, <2>1, <2>2 DEF FoldInv, PoolInv
    <3> QED
      BY <1>1, <1>2, <1>4, <2>1, <2>2, <3>1
         DEF FoldInv, PoolInv, ReturnInv, States, CallerStates, Joinable
  <2> QED
    BY <2>3, <2>4, <2>5, <2>6, <2>7 DEF FoldInv
<1>6. CASE ~(cursor <= N)
  <2>1. /\ pc' = [pc EXCEPT ![t] = IF t = Caller THEN "join" ELSE "finished"]
        /\ UNCHANGED <<payload, item>>
    BY <1>6 DEF Claim, Stop, Become
  <2>2. /\ pc'[t] = IF t = Caller THEN "join" ELSE "finished"
        /\ \A u \in Threads : u # t => pc'[u] = pc[u]
    BY <1>3, <2>1
  <2>3. TypeOK'
    BY <1>1, <1>3, <2>1 DEF FoldInv, TypeOK, States, CallerStates
  <2>4. \A u \in Threads : Busy(u)' <=> Busy(u)
    BY <1>1, <2>2 DEF Busy
  <2>5. ClaimInv'
    <3>1. \A n \in Nat : n < cursor => n < cursor'
      BY <1>1, <1>3
    <3>2. cursor' \in Nat /\ cursor <= cursor' /\ item' = item /\ done' = done
      BY <1>1, <1>3, <2>1
    <3>3. ASSUME NEW u \in Threads, Busy(u)'
          PROVE  item'[u] \in 1..N /\ item'[u] < cursor'
      <4>1. item[u] \in 1..N /\ item[u] < cursor
        BY <2>4, <3>3 DEF FoldInv, ClaimInv
      <4> QED
        BY <1>3, <3>2, <4>1
    <3>4. ASSUME NEW u \in Threads, NEW i \in 1..Len(done[u])
          PROVE  done[u][i].index < cursor'
      <4>1. done[u][i].index < cursor
        BY DEF FoldInv, ClaimInv
      <4>2. done[u][i].index \in Nat
        BY <1>3
      <4> QED
        BY <1>3, <3>2, <4>1, <4>2
    <3> QED
      BY <3>2, <3>3, <3>4 DEF ClaimInv
  <2>6. HandedOutOnce'
    BY <1>1, <2>1, <2>4 DEF FoldInv, HandedOutOnce
  <2>7. Accounted'
    <3>1. SomePanic => SomePanic'
      BY <1>1, <1>2, <2>1, <2>2 DEF SomePanic
    <3>2. \A i \in 1..N : i < cursor
      BY <1>3, <1>6
    <3> QED
      BY <1>1, <2>1, <2>4, <3>1, <3>2 DEF FoldInv, Accounted
  <2>8. cursor' > N
    BY <1>1, <1>3, <1>6
  <2>9. PoolInv' /\ ReturnInv'
    BY <1>1, <1>2, <1>4, <2>1, <2>2, <2>8
       DEF FoldInv, PoolInv, ReturnInv, States, CallerStates, Joinable
  <2> QED
    BY <2>3, <2>5, <2>6, <2>7, <2>9 DEF FoldInv
<1> QED
  BY <1>5, <1>6

(* Finishing an item moves it from "at work" into the thread's batch. *)
LEMMA DoWorkKeeps == ASSUME FoldInv, NEW t \in Threads, DoWork(t)  PROVE FoldInv'
<1>1. /\ pc[t] = "work"
      /\ UNCHANGED <<panics, scarce, cursor, item, handles, outcome>>
  BY DEF DoWork
<1>2. /\ Caller \in Threads /\ \A h \in Helpers : h \in Threads /\ h # Caller
      /\ t \in Helpers \/ t = Caller
  BY CallerAssumption DEF Threads
<1>3. /\ cursor \in Nat \ {0} /\ N \in Nat
      /\ item[t] \in 1..N /\ item[t] < cursor
      /\ pc \in [Threads -> States \cup CallerStates \cup {"stopped"}]
      /\ done \in [Threads -> Seq(Entry)]
  BY <1>1, SizeAssumption DEF FoldInv, TypeOK, ClaimInv, Busy
<1>4. outcome.kind = "running"
  <2>1. handles = <<>> => Joinable = {}
    BY DEF Joinable
  <2>2. pc[Caller] # "stopped"
    BY <1>1, <1>2, <2>1 DEF FoldInv, PoolInv
  <2> QED
    BY <2>2 DEF FoldInv, PoolInv, TypeOK
<1>5. CASE item[t] \in panics
  <2>1. /\ pc' = [pc EXCEPT ![t] = IF t = Caller THEN "join" ELSE "panicked"]
        /\ payload' = IF t = Caller THEN "panic" ELSE payload
        /\ UNCHANGED done
    BY <1>5 DEF DoWork, Stop, Become
  <2>2. /\ pc'[t] = IF t = Caller THEN "join" ELSE "panicked"
        /\ \A u \in Threads : u # t => pc'[u] = pc[u]
    BY <1>3, <2>1
  <2>3. TypeOK'
    BY <1>1, <1>3, <2>1 DEF FoldInv, TypeOK, States, CallerStates
  <2>4. ClaimInv' /\ HandedOutOnce'
    BY <1>1, <2>1, <2>2, UnclaimingKeeps DEF FoldInv, Busy
  <2>5. SomePanic'
    BY <1>2, <2>1, <2>2 DEF SomePanic
  <2>6. Accounted'
    BY <2>5 DEF Accounted
  <2>7. PoolInv' /\ ReturnInv'
    BY <1>1, <1>2, <1>4, <2>1, <2>2
       DEF FoldInv, PoolInv, ReturnInv, States, CallerStates, Joinable
  <2> QED
    BY <2>3, <2>4, <2>6, <2>7 DEF FoldInv
<1>6. CASE item[t] \notin panics
  <2> DEFINE e == [index |-> item[t], result |-> Work[item[t]]]
  <2>1. /\ done' = [done EXCEPT ![t] = Append(done[t], e)]
        /\ pc' = [pc EXCEPT ![t] = "claim"]
        /\ UNCHANGED payload
    BY <1>6 DEF DoWork, Become
  <2>2. e \in Entry /\ e.index = item[t]
    BY <1>3 DEF Entry
  <2>3. /\ pc'[t] = "claim"
        /\ \A u \in Threads : u # t => pc'[u] = pc[u] /\ done'[u] = done[u]
        /\ done'[t] = Append(done[t], e)
    BY <1>3, <2>1
  <2>4. /\ done'[t] \in Seq(Entry)
        /\ Len(done[t]) \in Nat
        /\ Len(done'[t]) = Len(done[t]) + 1
        /\ \A i \in 1..Len(done[t]) : done'[t][i] = done[t][i]
        /\ done'[t][Len(done[t]) + 1] = e
    <3> HIDE DEF e
    <3> QED
      BY <1>3, <2>2, <2>3, AppendEntry
  <2>5. \A i \in 1..Len(done'[t]) : i \in 1..Len(done[t]) \/ i = Len(done[t]) + 1
    BY <2>4
  <2>6. TypeOK'
    <3>1. done' \in [Threads -> Seq(Entry)]
      BY <1>3, <2>1, <2>3, <2>4
    <3> QED
      BY <1>1, <1>3, <2>1, <3>1 DEF FoldInv, TypeOK, States
  <2>7. ClaimInv'
    <3>1. \A u \in Threads : Busy(u)' => u # t /\ Busy(u)
      BY <2>3 DEF Busy
    <3>2. \A i \in 1..Len(done'[t]) : done'[t][i].index < cursor
      BY <1>3, <2>2, <2>4, <2>5 DEF FoldInv, ClaimInv
    <3>3. \A u \in Threads : \A i \in 1..Len(done'[u]) : done'[u][i].index < cursor
      BY <2>3, <3>2 DEF FoldInv, ClaimInv
    <3> QED
      BY <1>1, <3>1, <3>3 DEF FoldInv, ClaimInv
  <2>8. HandedOutOnce'
    <3>1. \A u \in Threads : Busy(u)' => u # t /\ Busy(u)
      BY <2>3 DEF Busy
    <3>2. \A u \in Threads : \A i \in 1..Len(done[u]) : done[u][i].index # item[t]
      BY <1>1 DEF FoldInv, HandedOutOnce, Busy
    <3>3. \A u \in Threads : \A i \in 1..Len(done'[u]) :
             \/ i \in 1..Len(done[u]) /\ done'[u][i] = done[u][i]
             \/ u = t /\ i = Len(done[t]) + 1 /\ done'[u][i].index = item[t]
      BY <2>2, <2>3, <2>4, <2>5
    <3>4. ASSUME NEW u \in Threads, NEW v \in Threads
          PROVE  /\ \A i \in 1..Len(done'[u]), j \in 1..Len(done'[v]) :
                       done'[u][i].index = done'[v][j].index => u = v /\ i = j
                 /\ Busy(u)' => \A j \in 1..Len(done'[v]) : item[u] # done'[v][j].index
                 /\ Busy(u)' /\ Busy(v)' /\ item[u] = item[v] => u = v
      <4>1. ASSUME NEW i \in 1..Len(done'[u]), NEW j \in 1..Len(done'[v]),
                   done'[u][i].index = done'[v][j].index
            PROVE  u = v /\ i = j
        <5>1. CASE i \in 1..Len(done[u]) /\ j \in 1..Len(done[v])
          <6>1. done'[u][i] = done[u][i] /\ done'[v][j] = done[v][j]
            BY <2>3, <2>4, <5>1
          <6> QED
            BY <4>1, <5>1, <6>1 DEF FoldInv, HandedOutOnce
        <5>2. CASE i \notin 1..Len(done[u])
          BY <3>2, <3>3, <4>1, <5>2
        <5>3. CASE j \notin 1..Len(done[v])
          BY <3>2, <3>3, <4>1, <5>3
        <5> QED
          BY <5>1, <5>2, <5>3
      <4>2. ASSUME Busy(u)', NEW j \in 1..Len(done'[v])
            PROVE  item[u] # done'[v][j].index
        BY <1>1, <3>1, <3>3, <4>2 DEF FoldInv, HandedOutOnce, Busy
      <4>3. Busy(u)' /\ Busy(v)' /\ item[u] = item[v] => u = v
        BY <3>1 DEF FoldInv, HandedOutOnce
      <4> QED
        BY <4>1, <4>2, <4>3
    <3> QED
      BY <1>1, <3>4 DEF HandedOutOnce
  <2>9. Accounted'
    <3>1. SUFFICES ASSUME NEW i \in 1..N, i < cursor
                   PROVE  \/ \E u \in Threads : \E k \in 1..Len(done'[u]) :
                                done'[u][k] = [index |-> i, result |-> Work[i]]
                          \/ \E u \in Threads : Busy(u)' /\ item[u] = i
                          \/ SomePanic'
      BY <1>1 DEF Accounted
    <3>2. CASE i = item[t]
      <4>1. Len(done[t]) + 1 \in 1..Len(done'[t])
        BY <2>4
      <4> QED
        BY <2>4, <3>2, <4>1
    <3>3. CASE i # item[t]
      <4>1. SomePanic => SomePanic'
        BY <1>1, <1>2, <2>1, <2>3 DEF SomePanic
      <4>2. \A u \in Threads : Busy(u) /\ item[u] = i => Busy(u)'
        BY <2>3, <3>3 DEF Busy
      <4>3. \A u \in Threads : \A k \in 1..Len(done[u]) :
               k \in 1..Len(done'[u]) /\ done'[u][k] = done[u][k]
        BY <2>3, <2>4, SMTT(30)
      <4> QED
        BY <3>1, <4>1, <4>2, <4>3 DEF FoldInv, Accounted
    <3> QED
      BY <3>2, <3>3
  <2>10. PoolInv' /\ ReturnInv'
    BY <1>1, <1>2, <1>4, <2>1, <2>3
       DEF FoldInv, PoolInv, ReturnInv, States, CallerStates, Joinable
  <2> QED
    BY <2>6, <2>7, <2>8, <2>9, <2>10 DEF FoldInv
<1> QED
  BY <1>5, <1>6

-----------------------------------------------------------------------------
LEMMA JoinKeeps == FoldInv /\ Join => FoldInv'
<1> SUFFICES ASSUME FoldInv, Join
             PROVE  FoldInv'
  OBVIOUS
<1> DEFINE h == Head(handles)
<1>1. /\ pc[Caller] = "join" /\ handles # <<>>
      /\ pc[h] \in {"finished", "panicked"}
      /\ payload' = IF pc[h] = "panicked" THEN "panic" ELSE payload
      /\ handles' = Tail(handles)
      /\ UNCHANGED <<panics, scarce, cursor, pc, item, done, outcome>>
  BY DEF Join
<1>2. handles \in Seq(Helpers) /\ h \in Helpers /\ Len(handles) \in Nat \ {0}
  BY <1>1 DEF FoldInv, TypeOK
<1>3. /\ handles' \in Seq(Helpers)
      /\ Len(handles') = Len(handles) - 1
      /\ \A i \in 1..(Len(handles) - 1) : handles'[i] = handles[i + 1]
      /\ h = handles[1]
  BY <1>1, <1>2
<1>4. ASSUME NEW g \in Joinable, g # h
      PROVE  g \in Joinable'
  <2>1. PICK i \in 1..Len(handles) : g = handles[i]
    BY DEF Joinable
  <2>2. i - 1 \in 1..Len(handles') /\ g = handles'[i - 1]
    BY <1>2, <1>3, <1>4, <2>1
  <2> QED
    BY <2>2 DEF Joinable
<1>5. TypeOK'
  BY <1>1, <1>3 DEF FoldInv, TypeOK
<1>6. ClaimInv' /\ HandedOutOnce'
  BY <1>1, UnclaimingKeeps DEF FoldInv, Busy
<1>7. Accounted'
  BY <1>1, AccountedKeeps DEF FoldInv, Busy, SomePanic
<1>8. outcome.kind = "running"
  BY <1>1 DEF FoldInv, PoolInv, TypeOK
<1>9. PoolInv' /\ ReturnInv'
  BY <1>1, <1>2, <1>4, <1>8 DEF FoldInv, PoolInv, ReturnInv, CallerStates
<1> QED
  BY <1>5, <1>6, <1>7, <1>9 DEF FoldInv

(* The two ways the call ends, both with every helper joined. *)
LEMMA EndKeeps == FoldInv /\ (Unwind \/ Return) => FoldInv'
<1> SUFFICES ASSUME FoldInv, Unwind \/ Return
             PROVE  FoldInv'
  OBVIOUS
<1>1. /\ pc[Caller] = "join" /\ handles = <<>>
      /\ pc' = [pc EXCEPT ![Caller] = "stopped"]
      /\ UNCHANGED <<panics, scarce, cursor, item, done, handles, payload>>
      /\ \/ payload = "none" /\ outcome'.kind = "returned"
         \/ outcome'.kind = "panicked"
  BY DEF Unwind, Return, Finished, Become, OM!Panicked, OM!Returned
<1>2. /\ Caller \in Threads /\ \A h \in Helpers : h \in Threads /\ h # Caller
  BY CallerAssumption DEF Threads
<1>3. pc'[Caller] = "stopped" /\ \A t \in Threads : t # Caller => pc'[t] = pc[t]
  BY <1>1, <1>2 DEF FoldInv, TypeOK
<1>4. TypeOK'
  BY <1>1, <1>2 DEF FoldInv, TypeOK
<1>5. ClaimInv' /\ HandedOutOnce'
  BY <1>1, <1>3, UnclaimingKeeps DEF FoldInv, Busy
<1>6. Accounted'
  BY <1>1, <1>2, <1>3, AccountedKeeps DEF FoldInv, Busy, SomePanic
<1>7. PoolInv' /\ ReturnInv'
  BY <1>1, <1>2, <1>3 DEF FoldInv, PoolInv, ReturnInv, CallerStates, Joinable
<1> QED
  BY <1>4, <1>5, <1>6, <1>7 DEF FoldInv

LEMMA FoldInvNext == FoldInv /\ [Next]_vars => FoldInv'
<1> SUFFICES ASSUME FoldInv, [Next]_vars
             PROVE  FoldInv'
  OBVIOUS
<1>1. CASE UNCHANGED vars
  <2> USE <1>1 DEF vars, FoldInv
  <2>1. TypeOK'
    BY DEF TypeOK
  <2>2. ClaimInv' /\ HandedOutOnce'
    BY DEF ClaimInv, HandedOutOnce, Busy
  <2>3. Accounted'
    BY DEF Accounted, SomePanic, Busy
  <2>4. PoolInv' /\ ReturnInv'
    BY DEF PoolInv, ReturnInv, Joinable
  <2> QED
    BY <2>1, <2>2, <2>3, <2>4
<1>2. CASE Next
  BY <1>1, <1>2, SpawnKeeps, SpawnFailsKeeps, CallerWorksKeeps, ClaimKeeps, DoWorkKeeps,
     JoinKeeps, EndKeeps DEF Next, Stopped
<1> QED
  BY <1>1, <1>2

(* The inductive invariant of the fold. *)
THEOREM FoldInvariant == Spec => []FoldInv
<1> QED
  BY FoldInvInit, FoldInvNext, PTL DEF Spec

(* No item is worked on twice, however the claims interleave. *)
THEOREM EachItemOnce == Spec => []HandedOutOnce
<1>1. FoldInv => HandedOutOnce
  BY DEF FoldInv
<1> QED
  BY <1>1, FoldInvariant, PTL

(* scope and resume_unwind: when the call returns or unwinds, every helper *)
(* that was started has stopped.                                           *)
THEOREM AllHelpersStopped == Spec => []NoThreadOutlivesCall
<1>1. FoldInv => NoThreadOutlivesCall
  <2> SUFFICES ASSUME FoldInv, outcome.kind # "running", NEW h \in Helpers
               PROVE  pc[h] \in {"unspawned", "finished", "panicked"}
    BY DEF NoThreadOutlivesCall
  <2>1. Joinable = {}
    BY DEF FoldInv, PoolInv, Joinable
  <2> QED
    BY <2>1 DEF FoldInv, PoolInv
<1> QED
  BY <1>1, FoldInvariant, PTL

(* When the caller has joined every helper and none panicked, each item is *)
(* in some batch.                                                          *)
LEMMA AllItemsDone ==
  ASSUME FoldInv, pc[Caller] \in {"join", "stopped"}, handles = <<>>, payload = "none"
  PROVE  \A i \in 1..N : \E t \in Threads : \E k \in 1..Len(done[t]) :
             done[t][k] = [index |-> i, result |-> Work[i]]
<1>1. Joinable = {}
  BY DEF Joinable
<1>2. \A h \in Helpers : pc[h] \in {"unspawned", "finished"}
  BY <1>1 DEF FoldInv, PoolInv
<1>3. ~SomePanic
  BY <1>2 DEF SomePanic
<1>4. \A t \in Threads : ~Busy(t)
  BY <1>2 DEF Busy, Threads
<1>5. cursor > N
  BY DEF FoldInv, PoolInv
<1>6. \A i \in 1..N : i < cursor
  BY <1>5, SizeAssumption DEF FoldInv, TypeOK
<1> QED
  BY <1>3, <1>4, <1>6 DEF FoldInv, Accounted

(* A map that returns has the result of every item: no worker that stopped *)
(* early, or panicked, took an item with it.                               *)
THEOREM NoItemLost == Spec => []NothingLost
<1>1. FoldInv => NothingLost
  <2> SUFFICES ASSUME FoldInv, outcome.kind = "returned", NEW i \in 1..N
               PROVE  \E t \in Threads : \E k \in 1..Len(done[t]) :
                         done[t][k] = [index |-> i, result |-> Work[i]]
    BY DEF NothingLost
  <2>1. pc[Caller] = "stopped" /\ handles = <<>> /\ payload = "none"
    BY DEF FoldInv, PoolInv, ReturnInv
  <2> QED
    BY <2>1, AllItemsDone
<1> QED
  BY <1>1, FoldInvariant, PTL
-----------------------------------------------------------------------------
(* "Each worker sees its items in increasing index order" (fold_on).       *)
ItemsAscend ==
    \A t \in Threads : \A j \in 1..Len(done[t]) :
        /\ \A i \in 1..j - 1 : done[t][i].index < done[t][j].index
        /\ Busy(t) => done[t][j].index < item[t]

LEMMA AscendingStays ==
    ASSUME ItemsAscend, UNCHANGED <<item, done>>, \A t \in Threads : Busy(t)' => Busy(t)
    PROVE  ItemsAscend'
BY DEF ItemsAscend

LEMMA ItemsAscendNext == FoldInv /\ ItemsAscend /\ [Next]_vars => ItemsAscend'
<1> SUFFICES ASSUME FoldInv, ItemsAscend, [Next]_vars
             PROVE  ItemsAscend'
  OBVIOUS
<1>1. /\ Caller \in Threads /\ Helpers \subseteq Threads
      /\ pc \in [Threads -> States \cup CallerStates \cup {"stopped"}]
      /\ item \in [Threads -> Nat] /\ done \in [Threads -> Seq(Entry)] /\ cursor \in Nat
  BY DEF Threads, FoldInv, TypeOK
<1>2. CASE UNCHANGED vars
  BY <1>2, AscendingStays DEF vars, Busy
<1>3. ASSUME NEW h \in Helpers, Spawn(h)
      PROVE  ItemsAscend'
  BY <1>1, <1>3, AscendingStays DEF Spawn, Become, Busy
<1>4. CASE SpawnFails \/ CallerWorks \/ Join \/ Unwind \/ Return
  BY <1>1, <1>4, AscendingStays
     DEF SpawnFails, CallerWorks, Join, Unwind, Return, Become, Busy
<1>5. ASSUME NEW t \in Threads, Claim(t)
      PROVE  ItemsAscend'
  <2>1. pc[t] = "claim" /\ done' = done
    BY <1>5 DEF Claim
  <2>2. CASE cursor <= N
    <3>1. item' = [item EXCEPT ![t] = cursor] /\ pc' = [pc EXCEPT ![t] = "work"]
      BY <1>5, <2>2 DEF Claim, Become
    <3>2. item'[t] = cursor /\ \A u \in Threads : u # t => item'[u] = item[u] /\ pc'[u] = pc[u]
      BY <1>1, <3>1
    <3>3. \A j \in 1..Len(done[t]) : done[t][j].index < item'[t]
      BY <3>2 DEF FoldInv, ClaimInv
    <3> QED
      BY <2>1, <3>2, <3>3 DEF ItemsAscend, Busy
  <2>3. CASE ~(cursor <= N)
    <3>1. UNCHANGED <<item, done>> /\ \A u \in Threads : Busy(u)' => Busy(u)
      BY <1>1, <1>5, <2>3 DEF Claim, Stop, Become, Busy
    <3> QED
      BY <3>1, AscendingStays
  <2> QED
    BY <2>2, <2>3
<1>6. ASSUME NEW t \in Threads, DoWork(t)
      PROVE  ItemsAscend'
  <2>1. pc[t] = "work" /\ item' = item
    BY <1>6 DEF DoWork
  <2>2. CASE item[t] \in panics
    <3>1. UNCHANGED <<item, done>> /\ \A u \in Threads : Busy(u)' => Busy(u)
      BY <1>1, <1>6, <2>2 DEF DoWork, Stop, Become, Busy
    <3> QED
      BY <3>1, AscendingStays
  <2>3. CASE item[t] \notin panics
    <3> DEFINE e == [index |-> item[t], result |-> Work[item[t]]]
    <3>1. /\ done' = [done EXCEPT ![t] = Append(done[t], e)]
          /\ pc' = [pc EXCEPT ![t] = "claim"]
      BY <1>6, <2>3 DEF DoWork, Become
    <3>2. e \in Entry /\ e.index = item[t]
      BY <2>1 DEF FoldInv, ClaimInv, Busy, Entry
    <3> HIDE DEF e
    <3>3. ~Busy(t)' /\ \A u \in Threads : u # t => done'[u] = done[u] /\ (Busy(u)' <=> Busy(u))
      BY <1>1, <3>1 DEF Busy
    <3>4. done'[t] = Append(done[t], e) /\ done[t] \in Seq(Entry)
      BY <1>1, <3>1
    <3>5. /\ Len(done[t]) \in Nat /\ Len(done'[t]) = Len(done[t]) + 1
          /\ \A i \in 1..Len(done[t]) : done'[t][i] = done[t][i]
          /\ done'[t][Len(done[t]) + 1] = e
      BY <3>2, <3>4, AppendEntry
    <3>6. \A j \in 1..Len(done[t]) : /\ \A i \in 1..j - 1 : done[t][i].index < done[t][j].index
                                     /\ done[t][j].index < item[t]
      BY <2>1 DEF ItemsAscend, Busy
    <3>7. ASSUME NEW j \in 1..Len(done'[t]), NEW i \in 1..j - 1
          PROVE  done'[t][i].index < done'[t][j].index
      <4>1. i \in 1..Len(done[t]) /\ (j \in 1..Len(done[t]) \/ j = Len(done[t]) + 1)
        BY <3>5
      <4> QED
        BY <3>2, <3>5, <3>6, <4>1
    <3> QED
      BY <2>1, <3>3, <3>7 DEF ItemsAscend
  <2> QED
    BY <2>2, <2>3
<1> QED
  BY <1>2, <1>3, <1>4, <1>5, <1>6 DEF Next, Stopped

(* "Each worker sees its items in increasing index order", however the     *)
(* claims interleave: what a worker's state keeps is of earlier items.     *)
THEOREM WorkersAscend == Spec => []ItemsAscend
<1>1. Init => ItemsAscend
  <2>1. Init => \A t \in Threads : done[t] = <<>>
    BY DEF Init
  <2> QED
    BY <2>1 DEF ItemsAscend
<1> QED
  BY <1>1, ItemsAscendNext, FoldInvariant, PTL DEF Spec
-----------------------------------------------------------------------------
(* Why a call unwinds, and what a batch holds.                             *)
OriginInv ==
    /\ SomePanic => panics # {} \/ scarce
    /\ \A t \in Threads : \A k \in 1..Len(done[t]) :
          /\ done[t][k].index \notin panics
          /\ done[t][k].result = Work[done[t][k].index]
    /\ pc[Caller] # "stopped" => outcome = OM!Running

LEMMA OriginInvInit == Init => OriginInv
<1> SUFFICES ASSUME Init
             PROVE  OriginInv
  OBVIOUS
<1>1. /\ Caller \in Threads /\ Helpers \subseteq Threads
      /\ \A t \in Threads : done[t] = <<>>
      /\ \A h \in Helpers : pc[h] = "unspawned"
  BY CallerAssumption DEF Init, Threads
<1> QED
  BY <1>1 DEF Init, OriginInv, SomePanic

(* The steps that finish no item.                                          *)
LEMMA OriginKeeps ==
    ASSUME OriginInv, UNCHANGED <<panics, scarce, done>>,
           SomePanic' => SomePanic \/ panics # {} \/ scarce,
           pc'[Caller] # "stopped" => pc[Caller] # "stopped" /\ outcome' = outcome
    PROVE  OriginInv'
BY DEF OriginInv

LEMMA StopIsKnown ==
    ASSUME FoldInv, NEW t \in Threads, NEW how \in {"finished", "panicked"}, Stop(t, how),
           pc[t] # "stopped"
    PROVE  /\ SomePanic' => SomePanic \/ how = "panicked"
           /\ pc'[Caller] # "stopped" => pc[Caller] # "stopped"
<1>1. /\ Caller \in Threads /\ \A h \in Helpers : h \in Threads /\ h # Caller
  BY CallerAssumption DEF Threads
<1>2. /\ pc' = [pc EXCEPT ![t] = IF t = Caller THEN "join" ELSE how]
      /\ payload' = IF t = Caller /\ how = "panicked" THEN "panic" ELSE payload
  BY DEF Stop, Become
<1>3. /\ pc'[t] = IF t = Caller THEN "join" ELSE how
      /\ \A u \in Threads : u # t => pc'[u] = pc[u]
  BY <1>2 DEF FoldInv, TypeOK
<1> QED
  BY <1>1, <1>2, <1>3 DEF SomePanic

LEMMA OriginInvNext == FoldInv /\ OriginInv /\ [Next]_vars => OriginInv'
<1> SUFFICES ASSUME FoldInv, OriginInv, [Next]_vars
             PROVE  OriginInv'
  OBVIOUS
<1>1. /\ Caller \in Threads /\ \A h \in Helpers : h \in Threads /\ h # Caller
      /\ pc \in [Threads -> States \cup CallerStates \cup {"stopped"}]
      /\ done \in [Threads -> Seq(Entry)]
  BY CallerAssumption DEF Threads, FoldInv, TypeOK
<1>2. CASE UNCHANGED vars
  BY <1>2, OriginKeeps DEF vars, SomePanic
<1>3. ASSUME NEW h \in Helpers, Spawn(h)
      PROVE  OriginInv'
  BY <1>1, <1>3, OriginKeeps DEF Spawn, Become, SomePanic
<1>4. CASE SpawnFails \/ CallerWorks
  BY <1>1, <1>4, OriginKeeps DEF SpawnFails, CallerWorks, Become, SomePanic
<1>5. ASSUME NEW t \in Threads, Claim(t)
      PROVE  OriginInv'
  <2>1. CASE cursor <= N
    <3>1. /\ pc' = [pc EXCEPT ![t] = "work"] /\ pc[t] = "claim"
          /\ UNCHANGED <<panics, scarce, done, payload, outcome>>
      BY <1>5, <2>1 DEF Claim, Become
    <3> QED
      BY <1>1, <3>1, OriginKeeps DEF SomePanic
  <2>2. CASE ~(cursor <= N)
    <3>1. /\ Stop(t, "finished") /\ pc[t] = "claim"
          /\ UNCHANGED <<panics, scarce, done, outcome>>
      BY <1>5, <2>2 DEF Claim
    <3> QED
      BY <3>1, StopIsKnown, OriginKeeps
  <2> QED
    BY <2>1, <2>2
<1>6. ASSUME NEW t \in Threads, DoWork(t)
      PROVE  OriginInv'
  <2>1. pc[t] = "work" /\ UNCHANGED <<panics, scarce, outcome>>
    BY <1>6 DEF DoWork
  <2>2. CASE item[t] \in panics
    <3>1. Stop(t, "panicked") /\ UNCHANGED done
      BY <1>6, <2>2 DEF DoWork
    <3> QED
      BY <2>1, <2>2, <3>1, StopIsKnown, OriginKeeps
  <2>3. CASE item[t] \notin panics
    <3> DEFINE e == [index |-> item[t], result |-> Work[item[t]]]
    <3>1. /\ done' = [done EXCEPT ![t] = Append(done[t], e)]
          /\ pc' = [pc EXCEPT ![t] = "claim"]
          /\ UNCHANGED payload
      BY <1>6, <2>3 DEF DoWork, Become
    <3>2. e \in Entry /\ e.index = item[t] /\ e.result = Work[item[t]]
      BY <2>1 DEF FoldInv, ClaimInv, Busy, Entry
    <3>3. SomePanic' => SomePanic
      BY <1>1, <2>1, <3>1 DEF SomePanic
    <3>4. pc'[Caller] # "stopped" => pc[Caller] # "stopped"
      BY <1>1, <2>1, <3>1
    <3>5. ASSUME NEW u \in Threads, NEW k \in 1..Len(done'[u])
          PROVE  (k \in 1..Len(done[u]) /\ done'[u][k] = done[u][k]) \/ done'[u][k] = e
      <4> HIDE DEF e
      <4>1. CASE u # t
        BY <1>1, <3>1, <4>1
      <4>2. CASE u = t
        <5>1. done'[t] = Append(done[t], e) /\ done[t] \in Seq(Entry)
          BY <1>1, <3>1
        <5> QED
          BY <3>2, <4>2, <5>1, AppendEntry
      <4> QED
        BY <4>1, <4>2
    <3> HIDE DEF e
    <3>6. ASSUME NEW u \in Threads, NEW k \in 1..Len(done'[u])
          PROVE  /\ done'[u][k].index \notin panics
                 /\ done'[u][k].result = Work[done'[u][k].index]
      BY <2>3, <3>2, <3>5 DEF OriginInv
    <3> QED
      BY <2>1, <3>3, <3>4, <3>6 DEF OriginInv
  <2> QED
    BY <2>2, <2>3
<1>7. CASE Join
  <2>1. Head(handles) \in Helpers
    BY <1>7 DEF Join, FoldInv, TypeOK
  <2> QED
    BY <1>7, <2>1, OriginKeeps DEF Join, SomePanic
<1>8. CASE Unwind \/ Return
  <2>1. /\ pc' = [pc EXCEPT ![Caller] = "stopped"]
        /\ UNCHANGED <<panics, scarce, done, payload>>
    BY <1>8 DEF Unwind, Return, Become
  <2> QED
    BY <1>1, <2>1, OriginKeeps DEF SomePanic
<1> QED
  BY <1>2, <1>3, <1>4, <1>5, <1>6, <1>7, <1>8 DEF Next, Stopped

-----------------------------------------------------------------------------
LEMMA LeastNatural ==
  ASSUME NEW S \in SUBSET Nat, S # {}
  PROVE  \E n \in S : \A m \in S : n <= m
<1> DEFINE R == {ss \in Nat \X Nat : ss[1] < ss[2]}
<1>1. IsWellFoundedOn(R, Nat)
  BY NatLessThanWellFounded DEF OpToRel
<1>2. PICK x \in S : \A y \in S : ~ (<<y, x>> \in R)
  BY <1>1, WFMin
<1>3. \A y \in S : ~ (y < x)
  BY <1>2
<1> QED
  BY <1>3

(* Numbers that ascend strictly, as many as there are, are each at its own *)
(* place: the first of them that is too small, or the last too large,      *)
(* would have a neighbour that is so already.                              *)
LEMMA AscendingIsIdentity ==
  ASSUME NEW n \in Nat, NEW g \in [1..n -> 1..n], \A i \in 1..n - 1 : g[i] < g[i + 1]
  PROVE  \A i \in 1..n : g[i] = i
<1>1. \A i \in 1..n : i <= g[i]
  <2> DEFINE bad == {i \in 1..n : g[i] < i}
  <2>1. SUFFICES ASSUME bad # {} PROVE FALSE
    <3>1. \A i \in 1..n : i \in Nat /\ g[i] \in Nat
      OBVIOUS
    <3>2. \A i \in 1..n : g[i] < i \/ i <= g[i]
      BY <3>1
    <3> QED
      BY <3>2
  <2>2. bad \in SUBSET Nat
    OBVIOUS
  <2>3. PICK i \in bad : \A k \in bad : i <= k
    BY <2>1, <2>2, LeastNatural
  <2>4. i \in 1..n /\ g[i] < i /\ g[i] \in 1..n
    OBVIOUS
  <2>5. i - 1 \in 1..n - 1 /\ g[i - 1] < g[i - 1 + 1] /\ i - 1 + 1 = i
    BY <2>4
  <2>6. i - 1 \in 1..n /\ g[i - 1] \in 1..n
    BY <2>5
  <2>7. i - 1 \notin bad
    BY <2>3, <2>5
  <2> QED
    BY <2>4, <2>5, <2>6, <2>7
<1>2. \A i \in 1..n : g[i] <= i
  <2> DEFINE bad == {k \in 1..n : n + 1 - k < g[n + 1 - k]}
  <2>1. \A i \in 1..n : n + 1 - i \in 1..n /\ n + 1 - (n + 1 - i) = i
    OBVIOUS
  <2>2. SUFFICES ASSUME bad # {} PROVE FALSE
    <3>1. ASSUME bad = {}, NEW i \in 1..n PROVE g[i] <= i
      <4>1. n + 1 - i \notin bad /\ n + 1 - i \in 1..n
        BY <2>1, <3>1
      <4>2. ~ (i < g[i])
        BY <2>1, <4>1
      <4> QED
        BY <4>2
    <3> QED
      BY <3>1
  <2>3. bad \in SUBSET Nat
    OBVIOUS
  <2>4. PICK k \in bad : \A j \in bad : k <= j
    BY <2>2, <2>3, LeastNatural
  <2> DEFINE i == n + 1 - k
  <2>5. k \in 1..n /\ i \in 1..n /\ i < g[i] /\ g[i] \in 1..n
    BY <2>1
  <2>6. i \in 1..n - 1
    BY <2>5
  <2>7. g[i] < g[i + 1] /\ i + 1 \in 1..n /\ g[i + 1] \in 1..n
    BY <2>6
  <2>8. k - 1 \in 1..n /\ n + 1 - (k - 1) = i + 1 /\ ~ (k <= k - 1)
    BY <2>5, <2>6
  <2>9. k - 1 \notin bad
    BY <2>4, <2>8
  <2>10. ~ (i + 1 < g[i + 1])
    BY <2>8, <2>9
  <2> HIDE DEF i
  <2> QED
    BY <2>5, <2>7, <2>10
<1> QED
  BY <1>1, <1>2

(* Then there is one place for each item.                                  *)
LEMMA PlacesAreItems ==
  ASSUME FoldInv, OriginInv, pc[Caller] = "join", handles = <<>>, payload = "none"
  PROVE  /\ \A p \in Places : At(p).index \in 1..N /\ At(p).result = Work[At(p).index]
         /\ \A p, q \in Places : At(p).index = At(q).index => p = q
         /\ Cardinality(Places) = N
<1> DEFINE f == [p \in Places |-> At(p).index]
<1>1. \A p \in Places : /\ p = <<p[1], p[2]>> /\ p[1] \in Threads
                        /\ p[2] \in 1..Len(done[p[1]])
  BY DEF Places
<1>2. \A t \in Threads : \A k \in 1..Len(done[t]) : <<t, k>> \in Places
  BY DEF Places
<1>3. \A p \in Places : At(p).index \in 1..N /\ At(p).result = Work[At(p).index]
  <2>1. \A t \in Threads : done[t] \in Seq(Entry)
    BY DEF FoldInv, TypeOK
  <2>2. \A t \in Threads : \A k \in 1..Len(done[t]) : done[t][k] \in Entry
    BY <2>1
  <2> QED
    BY <1>1, <2>2 DEF At, Entry, OriginInv
<1>4. \A p, q \in Places : At(p).index = At(q).index => p = q
  BY <1>1 DEF At, FoldInv, HandedOutOnce
<1>5. \A i \in 1..N : \E p \in Places : At(p).index = i
  <2> SUFFICES ASSUME NEW i \in 1..N PROVE \E p \in Places : At(p).index = i
    OBVIOUS
  <2>1. PICK t \in Threads : \E k \in 1..Len(done[t]) :
                                done[t][k] = [index |-> i, result |-> Work[i]]
    BY AllItemsDone
  <2>2. PICK k \in 1..Len(done[t]) : done[t][k] = [index |-> i, result |-> Work[i]]
    BY <2>1
  <2>3. <<t, k>> \in Places /\ At(<<t, k>>).index = i
    BY <1>2, <2>2 DEF At
  <2> QED
    BY <2>3
<1>6. IsFiniteSet(1..N) /\ Cardinality(1..N) = N
  BY SizeAssumption, FS_Interval
<1>7. f \in Injection(Places, 1..N) /\ f \in Surjection(Places, 1..N)
  BY <1>3, <1>4, <1>5 DEF Injection, IsInjective, Surjection
<1>8. Cardinality(Places) = N
  <2> HIDE DEF f
  <2> QED
    BY <1>6, <1>7, FS_Injection
<1> QED
  BY <1>3, <1>4, <1>8

(* So whatever order the workers finished in, sorting what they did gives  *)
(* the results in the order of the items.                                  *)
LEMMA SortedIsMap ==
  ASSUME FoldInv, OriginInv, pc[Caller] = "join", handles = <<>>, payload = "none",
         NEW s \in [1..Cardinality(Places) -> Places], IsSorting(s)
  PROVE  [i \in 1..Len(s) |-> At(s[i]).result] = [i \in 1..N |-> Work[i]]
<1> DEFINE g == [i \in 1..N |-> At(s[i]).index]
<1>1. N \in Nat /\ Cardinality(Places) = N
  BY SizeAssumption, PlacesAreItems
<1>2. s \in [1..N -> Places] /\ Len(s) = N
  BY <1>1
<1>3. \A i \in 1..N : s[i] \in Places /\ At(s[i]).index \in 1..N
  BY <1>2, PlacesAreItems
<1>4. g \in [1..N -> 1..N]
  BY <1>3
<1>5. ASSUME NEW i \in 1..N - 1
      PROVE  g[i] < g[i + 1]
  <2>1. i \in 1..N /\ i + 1 \in 1..N /\ i # i + 1
    BY <1>1
  <2>2. At(s[i]).index <= At(s[i + 1]).index
    BY <1>2 DEF IsSorting
  <2>3. s[i] # s[i + 1]
    BY <1>2, <2>1 DEF IsSorting
  <2>4. At(s[i]).index # At(s[i + 1]).index
    BY <1>3, <2>1, <2>3, PlacesAreItems
  <2>5. g[i] = At(s[i]).index /\ g[i + 1] = At(s[i + 1]).index
    BY <2>1
  <2>6. g[i] \in 1..N /\ g[i + 1] \in 1..N
    BY <1>4, <2>1
  <2> HIDE DEF g
  <2> QED
    BY <2>2, <2>4, <2>5, <2>6
<1>6. \A i \in 1..N : g[i] = i
  <2> HIDE DEF g
  <2> QED
    BY <1>1, <1>4, <1>5, AscendingIsIdentity
<1>7. \A i \in 1..N : At(s[i]).result = Work[i]
  BY <1>3, <1>6, PlacesAreItems
<1> QED
  BY <1>2, <1>7

LEMMA ReturnIsMap ==
  ASSUME FoldInv, OriginInv, Return
  PROVE  OM!Return
<1>1. /\ pc[Caller] = "join" /\ handles = <<>> /\ payload = "none"
      /\ UNCHANGED <<panics, scarce>>
  BY DEF Return, Finished
<1>2. outcome = OM!Running
  BY <1>1 DEF OriginInv
<1>3. panics = {}
  <2> SUFFICES ASSUME NEW i \in panics PROVE FALSE
    OBVIOUS
  <2>1. i \in 1..N
    BY DEF FoldInv, TypeOK
  <2>2. PICK t \in Threads : \E k \in 1..Len(done[t]) :
                                done[t][k] = [index |-> i, result |-> Work[i]]
    BY <1>1, <2>1, AllItemsDone
  <2> QED
    BY <2>2 DEF OriginInv
<1>4. outcome' = OM!Returned([i \in 1..N |-> Work[i]])
  <2>1. PICK s \in [1..Cardinality(Places) -> Places] :
            /\ IsSorting(s)
            /\ outcome' = OM!Returned([i \in 1..Len(s) |-> At(s[i]).result])
    BY DEF Return
  <2> QED
    BY <1>1, <2>1, SortedIsMap
<1> QED
  BY <1>1, <1>2, <1>3, <1>4 DEF OM!Return

LEMMA UnwindIsMap ==
  ASSUME FoldInv, OriginInv, Unwind
  PROVE  OM!Unwind
<1>1. /\ pc[Caller] = "join" /\ payload = "panic" /\ outcome' = OM!Panicked
      /\ UNCHANGED <<panics, scarce>>
  BY DEF Unwind, Finished
<1> QED
  BY <1>1 DEF OriginInv, SomePanic, OM!Unwind

(* "`items.iter().map(work)`, spread over threads, results in `items`      *)
(* order" (map_in_order): for any number of items and helpers and any      *)
(* order of claims, a call returns what the sequential map returns, or     *)
(* unwinds, and that only where the work on some item panics or a thread   *)
(* may be refused. No other step is seen by the caller.                    *)
THEOREM FoldRefinesMap == Spec => OM!SafeSpec
<1>1. Init => OM!Init
  BY DEF Init, OM!Init
<1>2. FoldInv /\ OriginInv /\ [Next]_vars => [OM!Next]_(OM!vars)
  <2> SUFFICES ASSUME FoldInv, OriginInv, [Next]_vars
               PROVE  [OM!Next]_(OM!vars)
    OBVIOUS
  <2>1. CASE Return \/ Unwind
    BY <2>1, ReturnIsMap, UnwindIsMap DEF OM!Next
  <2>2. CASE ~(Return \/ Unwind)
    <3>1. UNCHANGED <<panics, scarce, outcome>>
      BY <2>2 DEF Next, vars, Spawn, SpawnFails, CallerWorks, Claim, DoWork, Join, Stopped
    <3> QED
      BY <3>1 DEF OM!vars
  <2> QED
    BY <2>1, <2>2
<1>3. Spec => []OriginInv
  <2>1. Spec => []FoldInv
    BY FoldInvariant
  <2> QED
    BY <2>1, OriginInvInit, OriginInvNext, PTL DEF Spec
<1> QED
  BY <1>1, <1>2, <1>3, FoldInvariant, PTL DEF Spec, OM!SafeSpec
=============================================================================
