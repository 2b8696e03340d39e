------------------------- MODULE K8sCollectorProofs -------------------------
(***************************************************************************)
(* Proofs about the Kubernetes collector, for every number of tasks, every *)
(* split of them into typed and append tasks and every requested           *)
(* concurrency.                                                            *)
(***************************************************************************)
EXTENDS K8sCollector, FiniteSetTheorems, TLAPS

USE NumTasksAssumption, TaskKindsAssumption, ConcurrencyAssumption DEF Tasks, NoTask

(* The goroutines whose phase lies in a set of phases. *)
At(H) == {t \in Tasks : pc[t] \in H}

(* What a goroutine's phase says about its result and about the snapshot. *)
Untouched(t) == t \notin errors /\ t \notin stored /\ t \notin usage
Recorded(t) ==
  /\ result[t] # "none"
  /\ t \in errors <=> result[t] = "error"
  /\ t \in stored \cup usage <=> result[t] = "data"
PhaseInv(t) ==
  /\ pc[t] \in {"unspawned", "queued", "calling"} => result[t] = "none" /\ Untouched(t)
  /\ pc[t] \in {"locking", "writing"} => result[t] \in {"data", "error"} /\ Untouched(t)
  /\ pc[t] \in {"releasing", "released", "done"} => Recorded(t)

CountInv ==
  /\ sem = Cardinality(At(Holding)) /\ sem <= Concurrency
  /\ wg = Cardinality(At(Counted))
SpawnInv == \A t \in Tasks : pc[t] = "unspawned" <=> next <= t
MutexInv ==
  \A t \in Tasks : /\ pc[t] = "writing" <=> mu = t
                   /\ pc[t] = "writing" => seen[t] = usage
ReturnInv == returned => \A t \in Tasks : pc[t] = "done"

(* SnapshotTellsTheTruth is not inductive: it needs to know that a         *)
(* returned Collect has no goroutine left (the WaitGroup counts them       *)
(* exactly) and that the slice an appender read is still the current one   *)
(* when it writes (the mutex).                                             *)
IInv == /\ TypeOK /\ CountInv /\ SpawnInv /\ MutexInv /\ ReturnInv
        /\ \A t \in Tasks : PhaseInv(t)
-----------------------------------------------------------------------------
(* There are finitely many run(key, fn) calls. *)
LEMMA TasksFinite == IsFiniteSet(Tasks)
  BY FS_Interval

(* The clamp of Collect always leaves room for at least one goroutine. *)
LEMMA ConcurrencyType == Concurrency \in Nat /\ Concurrency >= 1
  BY DEF Concurrency

(* A goroutine that enters a group makes it one larger. *)
LEMMA CountOneMore ==
  ASSUME NEW S, IsFiniteSet(S), NEW x, x \notin S
  PROVE  Cardinality(S \cup {x}) = Cardinality(S) + 1
  BY FS_AddElement

(* A goroutine that leaves a group makes it one smaller. *)
LEMMA CountOneLess ==
  ASSUME NEW S, IsFiniteSet(S), NEW x, x \in S
  PROVE  Cardinality(S \ {x}) = Cardinality(S) - 1
  BY FS_RemoveElement

(* The goroutines at some phases are finitely many. *)
LEMMA AtFinite ==
  ASSUME NEW H
  PROVE  IsFiniteSet(At(H)) /\ Cardinality(At(H)) \in Nat
<1>1. At(H) \subseteq Tasks
  BY DEF At
<1>2. QED
  BY <1>1, TasksFinite, FS_Subset, FS_CardinalityType

(* So they are after a step. *)
LEMMA AtFiniteNext ==
  ASSUME NEW H
  PROVE  IsFiniteSet(At(H)') /\ Cardinality(At(H)') \in Nat
<1>1. At(H)' \subseteq Tasks
  BY DEF At
<1>2. QED
  BY <1>1, TasksFinite, FS_Subset, FS_CardinalityType

(* Moving one goroutine changes a count by what it leaves and enters. *)
LEMMA CountMove ==
  ASSUME TypeOK, NEW t \in Tasks, NEW from, NEW to, Move(t, from, to), NEW CONSTANT H
  PROVE  /\ from \notin H /\ to \in H => Cardinality(At(H)') = Cardinality(At(H)) + 1
         /\ from \in H /\ to \notin H => Cardinality(At(H)') = Cardinality(At(H)) - 1
         /\ (from \in H <=> to \in H) => At(H)' = At(H)
<1>1. pc[t] = from /\ \A u \in Tasks : pc'[u] = IF u = t THEN to ELSE pc[u]
  BY DEF TypeOK, Move
<1>2. ASSUME from \notin H, to \in H PROVE Cardinality(At(H)') = Cardinality(At(H)) + 1
  <2>1. At(H)' = At(H) \cup {t} /\ t \notin At(H)
    BY <1>1, <1>2 DEF At
  <2>2. QED
    BY <2>1, AtFinite, CountOneMore
<1>3. ASSUME from \in H, to \notin H PROVE Cardinality(At(H)') = Cardinality(At(H)) - 1
  <2>1. At(H)' = At(H) \ {t} /\ t \in At(H)
    BY <1>1, <1>3 DEF At
  <2>2. QED
    BY <2>1, AtFinite, CountOneLess
<1>4. ASSUME from \in H <=> to \in H PROVE At(H)' = At(H)
  BY <1>1, <1>4 DEF At
<1>5. QED
  BY <1>2, <1>3, <1>4
-----------------------------------------------------------------------------
(* Before the first goroutine is spawned all counts are zero. *)
LEMMA InitInv == Init => IInv
<1> SUFFICES ASSUME Init PROVE IInv
  OBVIOUS
<1>1. TypeOK
  <2>1. pc \in [Tasks -> Phases] /\ result \in [Tasks -> Results]
    BY DEF Init, Phases, Results
  <2>2. seen \in [Tasks -> SUBSET AppendTasks]
    BY DEF Init
  <2>3. mu \in Tasks \cup {NoTask} /\ sem \in Nat /\ wg \in Nat
    BY DEF Init
  <2>4. next \in 1 .. NumTasks + 1
    BY DEF Init
  <2>5. returned \in BOOLEAN /\ cancelled \in BOOLEAN
    BY DEF Init
  <2>6. stored \subseteq Tasks /\ usage \subseteq AppendTasks /\ errors \subseteq Tasks
    BY DEF Init
  <2>7. QED
    BY <2>1, <2>2, <2>3, <2>4, <2>5, <2>6 DEF TypeOK
<1>2. At(Holding) = {} /\ At(Counted) = {}
  BY DEF Init, At, Holding, Counted
<1>3. CountInv
  BY <1>2, FS_EmptySet, ConcurrencyType DEF Init, CountInv
<1>4. SpawnInv /\ MutexInv /\ ReturnInv
  BY DEF Init, SpawnInv, MutexInv, ReturnInv
<1>5. \A t \in Tasks : PhaseInv(t)
  BY DEF Init, PhaseInv, Untouched
<1>6. QED
  BY <1>1, <1>3, <1>4, <1>5 DEF IInv

(* The WaitGroup counts every goroutine that is neither unspawned nor done, *)
(* so once all are spawned and it reads zero, all are done.                 *)
LEMMA WaitedForAll ==
  ASSUME IInv, next > NumTasks, wg = 0
  PROVE  \A t \in Tasks : pc[t] = "done"
<1>1. At(Counted) = {}
  <2>1. Cardinality(At(Counted)) = 0
    BY DEF IInv, CountInv
  <2>2. QED
    BY <2>1, AtFinite, FS_EmptySet
<1>2. \A t \in Tasks : pc[t] # "unspawned"
  BY DEF IInv, SpawnInv, TypeOK
<1>3. \A t \in Tasks : pc[t] \in Phases /\ pc[t] \notin Counted
  BY <1>1 DEF IInv, TypeOK, At
<1>4. QED
  BY <1>2, <1>3 DEF Counted, Holding, Phases

(* A move of one goroutine keeps every goroutine in a phase. *)
LEMMA MovePhases ==
  ASSUME TypeOK, NEW t \in Tasks, NEW from, NEW to \in Phases, Move(t, from, to)
  PROVE  /\ pc' \in [Tasks -> Phases]
         /\ pc[t] = from
         /\ \A u \in Tasks : pc'[u] = IF u = t THEN to ELSE pc[u]
  BY DEF TypeOK, Move

(* wg.Add(1) and the go statement keep counter and goroutines in step. *)
LEMMA SpawnStep == ASSUME IInv, NEW t \in Tasks, Spawn(t) PROVE IInv'
<1>1. TypeOK /\ Move(t, "unspawned", "queued") /\ "queued" \in Phases
  BY DEF IInv, Spawn, Phases
<1>2. /\ pc' \in [Tasks -> Phases] /\ pc[t] = "unspawned"
      /\ \A u \in Tasks : pc'[u] = IF u = t THEN "queued" ELSE pc[u]
  BY <1>1, MovePhases
<1>3. CountInv'
  <2>1. Cardinality(At(Counted)') = Cardinality(At(Counted)) + 1
    BY <1>1, CountMove DEF Counted, Holding
  <2>2. At(Holding)' = At(Holding)
    BY <1>1, CountMove DEF Holding
  <2>3. QED
    BY <2>1, <2>2 DEF IInv, CountInv, Spawn
<1>4. TypeOK'
  <2>1. wg' \in Nat /\ next' \in 1 .. NumTasks + 1
    BY <1>1 DEF TypeOK, Spawn
  <2>2. QED
    BY <1>1, <1>2, <2>1 DEF TypeOK, Spawn, snapshot
<1>5. SpawnInv'
  BY <1>1, <1>2 DEF IInv, SpawnInv, Spawn, TypeOK
<1>6. MutexInv'
  BY <1>1, <1>2 DEF IInv, MutexInv, Spawn, snapshot
<1>7. ReturnInv'
  BY <1>1, <1>2 DEF IInv, ReturnInv, Spawn
<1>8. \A u \in Tasks : PhaseInv(u)'
  BY <1>1, <1>2 DEF IInv, PhaseInv, Untouched, Recorded, Spawn, snapshot
<1>9. QED
  BY <1>3, <1>4, <1>5, <1>6, <1>7, <1>8 DEF IInv

(* A send into the semaphore keeps the tokens equal to their holders. *)
LEMMA AcquireStep == ASSUME IInv, NEW t \in Tasks, Acquire(t) PROVE IInv'
<1> DEFINE to == IF cancelled THEN "locking" ELSE "calling"
<1>1. TypeOK /\ Move(t, "queued", to) /\ to \in Phases /\ to \in Holding
  BY DEF IInv, Acquire, Phases, Holding
<1>2. /\ pc' \in [Tasks -> Phases] /\ pc[t] = "queued"
      /\ \A u \in Tasks : pc'[u] = IF u = t THEN to ELSE pc[u]
  BY <1>1, MovePhases
<1>3. CountInv'
  <2>1. Cardinality(At(Holding)') = Cardinality(At(Holding)) + 1
    BY <1>1, CountMove, "queued" \notin Holding DEF Holding
  <2>2. At(Counted)' = At(Counted)
    BY <1>1, CountMove DEF Counted, Holding
  <2>3. QED
    BY <1>1, <2>1, <2>2, ConcurrencyType DEF IInv, CountInv, Acquire, TypeOK
<1>4. result' \in [Tasks -> Results]
  BY <1>1 DEF TypeOK, Acquire, Results
<1>5. /\ cancelled => result'[t] = "error"
      /\ ~cancelled => result'[t] = result[t]
      /\ \A u \in Tasks \ {t} : result'[u] = result[u]
  BY <1>1 DEF TypeOK, Acquire
<1>6. TypeOK'
  <2>1. sem' \in Nat
    BY <1>1 DEF TypeOK, Acquire
  <2>2. QED
    BY <1>1, <1>2, <1>4, <2>1 DEF TypeOK, Acquire, snapshot
<1>7. SpawnInv'
  BY <1>1, <1>2 DEF IInv, SpawnInv, Acquire
<1>8. MutexInv'
  BY <1>1, <1>2 DEF IInv, MutexInv, Acquire, snapshot
<1>9. ReturnInv'
  BY <1>1, <1>2 DEF IInv, ReturnInv, Acquire
<1>10. \A u \in Tasks : PhaseInv(u)'
  <2>1. PhaseInv(t)'
    BY <1>1, <1>2, <1>5 DEF IInv, PhaseInv, Untouched, Recorded, Acquire, snapshot
  <2>2. ASSUME NEW u \in Tasks \ {t} PROVE PhaseInv(u)'
    BY <1>1, <1>2, <1>5 DEF IInv, PhaseInv, Untouched, Recorded, Acquire, snapshot
  <2>3. QED
    BY <2>1, <2>2
<1>11. QED
  BY <1>3, <1>6, <1>7, <1>8, <1>9, <1>10 DEF IInv

(* A call that ends, in whatever way, leaves its result to be written. *)
LEMMA FinishStep ==
  ASSUME IInv, NEW t \in Tasks, NEW r \in Results \ {"none"}, Finish(t, r)
  PROVE  IInv'
<1> DEFINE to == IF r \in {"data", "error"} THEN "locking" ELSE "releasing"
<1>1. TypeOK /\ Move(t, "calling", to) /\ to \in Phases /\ to \in Holding
  BY DEF IInv, Finish, Phases, Holding
<1>2. /\ pc' \in [Tasks -> Phases] /\ pc[t] = "calling"
      /\ \A u \in Tasks : pc'[u] = IF u = t THEN to ELSE pc[u]
  BY <1>1, MovePhases
<1>3. CountInv'
  <2>1. At(Holding)' = At(Holding) /\ At(Counted)' = At(Counted)
    BY <1>1, CountMove DEF Counted, Holding
  <2>2. QED
    BY <1>1, <2>1 DEF IInv, CountInv, Finish
<1>4. /\ result' \in [Tasks -> Results]
      /\ \A u \in Tasks : result'[u] = IF u = t THEN r ELSE result[u]
  BY <1>1 DEF TypeOK, Finish
<1>5. TypeOK'
  BY <1>1, <1>2, <1>4 DEF TypeOK, Finish, snapshot
<1>6. SpawnInv'
  BY <1>1, <1>2 DEF IInv, SpawnInv, Finish
<1>7. MutexInv'
  BY <1>1, <1>2 DEF IInv, MutexInv, Finish, snapshot
<1>8. ReturnInv'
  BY <1>1, <1>2 DEF IInv, ReturnInv, Finish
<1>9. \A u \in Tasks : PhaseInv(u)'
  <2>1. PhaseInv(t)'
    BY <1>1, <1>2, <1>4 DEF IInv, PhaseInv, Untouched, Recorded, Finish, snapshot
  <2>2. ASSUME NEW u \in Tasks \ {t} PROVE PhaseInv(u)'
    BY <1>1, <1>2, <1>4 DEF IInv, PhaseInv, Untouched, Recorded, Finish, snapshot
  <2>3. QED
    BY <2>1, <2>2
<1>10. QED
  BY <1>3, <1>5, <1>6, <1>7, <1>8, <1>9 DEF IInv

(* Only one goroutine gets the mutex, and it sees the whole slice. *)
LEMMA LockStep == ASSUME IInv, NEW t \in Tasks, Lock(t) PROVE IInv'
<1>1. TypeOK /\ Move(t, "locking", "writing") /\ "writing" \in Phases
  BY DEF IInv, Lock, Phases
<1>2. /\ pc' \in [Tasks -> Phases] /\ pc[t] = "locking"
      /\ \A u \in Tasks : pc'[u] = IF u = t THEN "writing" ELSE pc[u]
  BY <1>1, MovePhases
<1>3. CountInv'
  <2>1. At(Holding)' = At(Holding) /\ At(Counted)' = At(Counted)
    BY <1>1, CountMove DEF Counted, Holding
  <2>2. QED
    BY <1>1, <2>1 DEF IInv, CountInv, Lock
<1>4. /\ seen' \in [Tasks -> SUBSET AppendTasks]
      /\ \A u \in Tasks : seen'[u] = IF u = t THEN usage ELSE seen[u]
  BY <1>1 DEF TypeOK, Lock
<1>5. TypeOK'
  BY <1>1, <1>2, <1>4 DEF TypeOK, Lock, snapshot
<1>6. SpawnInv'
  BY <1>1, <1>2 DEF IInv, SpawnInv, Lock
<1>7. MutexInv'
  BY <1>1, <1>2, <1>4 DEF IInv, MutexInv, Lock, snapshot
<1>8. ReturnInv'
  BY <1>1, <1>2 DEF IInv, ReturnInv, Lock
<1>9. \A u \in Tasks : PhaseInv(u)'
  BY <1>1, <1>2 DEF IInv, PhaseInv, Untouched, Recorded, Lock, snapshot
<1>10. QED
  BY <1>3, <1>5, <1>6, <1>7, <1>8, <1>9 DEF IInv

(* The mutex holder writes the slice it read, with its own objects added. *)
LEMMA WriteStep == ASSUME IInv, NEW t \in Tasks, Write(t) PROVE IInv'
<1>1. TypeOK /\ Move(t, "writing", "releasing") /\ "releasing" \in Phases
  BY DEF IInv, Write, Phases
<1>2. /\ pc' \in [Tasks -> Phases] /\ pc[t] = "writing"
      /\ \A u \in Tasks : pc'[u] = IF u = t THEN "releasing" ELSE pc[u]
  BY <1>1, MovePhases
<1>3. CountInv'
  <2>1. At(Holding)' = At(Holding) /\ At(Counted)' = At(Counted)
    BY <1>1, CountMove DEF Counted, Holding
  <2>2. QED
    BY <1>1, <2>1 DEF IInv, CountInv, Write
<1>4. mu = t /\ seen[t] = usage
  BY <1>2 DEF IInv, MutexInv
<1>5. /\ errors' = IF result[t] = "error" THEN errors \cup {t} ELSE errors
      /\ stored' = IF result[t] = "data" /\ t \notin AppendTasks THEN stored \cup {t} ELSE stored
      /\ usage' = IF result[t] = "data" /\ t \in AppendTasks THEN usage \cup {t} ELSE usage
  BY <1>4 DEF Write
<1>6. TypeOK'
  <2>1. stored' \subseteq Tasks /\ usage' \subseteq AppendTasks /\ errors' \subseteq Tasks
    BY <1>1, <1>5 DEF TypeOK
  <2>2. QED
    BY <1>1, <1>2, <2>1 DEF TypeOK, Write
<1>7. SpawnInv'
  BY <1>1, <1>2 DEF IInv, SpawnInv, Write
<1>8. MutexInv'
  BY <1>1, <1>2, <1>4 DEF IInv, MutexInv, Write
<1>9. ReturnInv'
  BY <1>1, <1>2 DEF IInv, ReturnInv, Write
<1>10. \A u \in Tasks : PhaseInv(u)'
  <2>1. PhaseInv(t) /\ result' = result
    BY DEF IInv, Write
  <2>2. PhaseInv(t)'
    BY <1>2, <1>5, <2>1 DEF PhaseInv, Untouched, Recorded
  <2>3. ASSUME NEW u \in Tasks \ {t} PROVE PhaseInv(u)'
    BY <1>2, <1>5, <2>1 DEF IInv, PhaseInv, Untouched, Recorded
  <2>4. QED
    BY <2>2, <2>3
<1>11. QED
  BY <1>3, <1>6, <1>7, <1>8, <1>9, <1>10 DEF IInv

(* The deferred <-sem gives back exactly the token of its goroutine. *)
LEMMA ReleaseStep == ASSUME IInv, NEW t \in Tasks, Release(t) PROVE IInv'
<1>1. TypeOK /\ Move(t, "releasing", "released") /\ "released" \in Phases
  BY DEF IInv, Release, Phases
<1>2. /\ pc' \in [Tasks -> Phases] /\ pc[t] = "releasing"
      /\ \A u \in Tasks : pc'[u] = IF u = t THEN "released" ELSE pc[u]
  BY <1>1, MovePhases
<1>3. CountInv'
  <2>1. Cardinality(At(Holding)') = Cardinality(At(Holding)) - 1
    BY <1>1, CountMove DEF Holding
  <2>2. At(Counted)' = At(Counted)
    BY <1>1, CountMove DEF Counted, Holding
  <2>3. QED
    BY <1>1, <2>1, <2>2, ConcurrencyType DEF IInv, CountInv, Release, TypeOK
<1>4. sem' \in Nat
  BY <1>3, AtFiniteNext DEF CountInv
<1>5. TypeOK'
  BY <1>1, <1>2, <1>4 DEF TypeOK, Release, snapshot
<1>6. SpawnInv'
  BY <1>1, <1>2 DEF IInv, SpawnInv, Release
<1>7. MutexInv'
  BY <1>1, <1>2 DEF IInv, MutexInv, Release, snapshot
<1>8. ReturnInv'
  BY <1>1, <1>2 DEF IInv, ReturnInv, Release
<1>9. \A u \in Tasks : PhaseInv(u)'
  BY <1>1, <1>2 DEF IInv, PhaseInv, Untouched, Recorded, Release, snapshot
<1>10. QED
  BY <1>3, <1>5, <1>6, <1>7, <1>8, <1>9 DEF IInv

(* The deferred wg.Done() uncounts exactly its goroutine. *)
LEMMA DoneStep == ASSUME IInv, NEW t \in Tasks, Done(t) PROVE IInv'
<1>1. TypeOK /\ Move(t, "released", "done") /\ "done" \in Phases
  BY DEF IInv, Done, Phases
<1>2. /\ pc' \in [Tasks -> Phases] /\ pc[t] = "released"
      /\ \A u \in Tasks : pc'[u] = IF u = t THEN "done" ELSE pc[u]
  BY <1>1, MovePhases
<1>3. CountInv'
  <2>1. Cardinality(At(Counted)') = Cardinality(At(Counted)) - 1
    BY <1>1, CountMove DEF Counted, Holding
  <2>2. At(Holding)' = At(Holding)
    BY <1>1, CountMove DEF Holding
  <2>3. QED
    BY <1>1, <2>1, <2>2 DEF IInv, CountInv, Done
<1>4. wg' \in Nat
  BY <1>3, AtFiniteNext DEF CountInv
<1>5. TypeOK'
  BY <1>1, <1>2, <1>4 DEF TypeOK, Done, snapshot
<1>6. SpawnInv'
  BY <1>1, <1>2 DEF IInv, SpawnInv, Done
<1>7. MutexInv'
  BY <1>1, <1>2 DEF IInv, MutexInv, Done, snapshot
<1>8. ReturnInv'
  BY <1>1, <1>2 DEF IInv, ReturnInv, Done
<1>9. \A u \in Tasks : PhaseInv(u)'
  BY <1>1, <1>2 DEF IInv, PhaseInv, Untouched, Recorded, Done, snapshot
<1>10. QED
  BY <1>3, <1>5, <1>6, <1>7, <1>8, <1>9 DEF IInv

(* Collect returns only when every goroutine is done. *)
LEMMA ReturnStep == ASSUME IInv, Return PROVE IInv'
<1>1. \A t \in Tasks : pc[t] = "done"
  BY WaitedForAll DEF Return
<1>2. CountInv'
  BY DEF IInv, CountInv, Return, At
<1>3. TypeOK'
  BY DEF IInv, TypeOK, Return, snapshot
<1>4. SpawnInv' /\ MutexInv'
  BY DEF IInv, SpawnInv, MutexInv, Return, snapshot
<1>5. ReturnInv'
  BY <1>1 DEF ReturnInv, Return
<1>6. \A u \in Tasks : PhaseInv(u)'
  BY DEF IInv, PhaseInv, Untouched, Recorded, Return, snapshot
<1>7. QED
  BY <1>2, <1>3, <1>4, <1>5, <1>6 DEF IInv

(* Ctrl+C changes nothing but the context. *)
LEMMA CancelStep == ASSUME IInv, Cancel PROVE IInv'
<1>1. CountInv'
  BY DEF IInv, CountInv, Cancel, At
<1>2. TypeOK'
  BY DEF IInv, TypeOK, Cancel, snapshot
<1>3. SpawnInv' /\ MutexInv' /\ ReturnInv'
  BY DEF IInv, SpawnInv, MutexInv, ReturnInv, Cancel, snapshot
<1>4. \A u \in Tasks : PhaseInv(u)'
  BY DEF IInv, PhaseInv, Untouched, Recorded, Cancel, snapshot
<1>5. QED
  BY <1>1, <1>2, <1>3, <1>4 DEF IInv

(* The invariant only speaks of the variables. *)
LEMMA StutterStep == ASSUME IInv, UNCHANGED vars PROVE IInv'
<1>1. CountInv'
  BY DEF IInv, CountInv, vars, At
<1>2. TypeOK'
  BY DEF IInv, TypeOK, vars
<1>3. SpawnInv' /\ MutexInv' /\ ReturnInv'
  BY DEF IInv, SpawnInv, MutexInv, ReturnInv, vars
<1>4. \A u \in Tasks : PhaseInv(u)'
  BY DEF IInv, PhaseInv, Untouched, Recorded, vars
<1>5. QED
  BY <1>1, <1>2, <1>3, <1>4 DEF IInv

(* The two ways a call ends, an answer and a deadline, are both Finish. *)
LEMMA EndOfCall ==
  ASSUME NEW t \in Tasks, Answer(t) \/ Expire(t)
  PROVE  \E r \in Results \ {"none"} :
           /\ Finish(t, r)
           /\ r \in {"empty", "notfound"} => t \in AppendTasks \cup NotFoundIsFine
<1>1. CASE Answer(t)
  <2>1. PICK r \in {"data", "empty", "notfound", "error"} :
          /\ r = "empty" => t \in AppendTasks
          /\ r = "notfound" => t \in NotFoundIsFine
          /\ Finish(t, r)
    BY <1>1 DEF Answer
  <2>2. QED
    BY <2>1 DEF Results
<1>2. CASE Expire(t)
  BY <1>2 DEF Expire, Results
<1>3. QED
  BY <1>1, <1>2

(* The pool, the WaitGroup and the mutex keep the invariant together. *)
THEOREM Invariance == Spec => []IInv
<1>1. IInv /\ [Next]_vars => IInv'
  <2> SUFFICES ASSUME IInv, [Next]_vars PROVE IInv'
    OBVIOUS
  <2>1. ASSUME NEW t \in Tasks, Spawn(t) PROVE IInv'
    BY <2>1, SpawnStep
  <2>2. ASSUME NEW t \in Tasks, Acquire(t) PROVE IInv'
    BY <2>2, AcquireStep
  <2>3. ASSUME NEW t \in Tasks, Answer(t) \/ Expire(t) PROVE IInv'
    BY <2>3, EndOfCall, FinishStep
  <2>4. ASSUME NEW t \in Tasks, Lock(t) PROVE IInv'
    BY <2>4, LockStep
  <2>5. ASSUME NEW t \in Tasks, Write(t) PROVE IInv'
    BY <2>5, WriteStep
  <2>6. ASSUME NEW t \in Tasks, Release(t) PROVE IInv'
    BY <2>6, ReleaseStep
  <2>7. ASSUME NEW t \in Tasks, Done(t) PROVE IInv'
    BY <2>7, DoneStep
  <2>8. QED
    BY <2>1, <2>2, <2>3, <2>4, <2>5, <2>6, <2>7, ReturnStep, CancelStep, StutterStep DEF Next
<1>2. QED
  BY <1>1, InitInv, PTL DEF Spec

(* Every variable keeps its type. *)
THEOREM TypeCorrect == Spec => []TypeOK
<1>1. IInv => TypeOK
  BY DEF IInv
<1>2. QED
  BY <1>1, Invariance, PTL

(* The pool never has more calls in flight than the clamped concurrency. *)
THEOREM PoolBounded == Spec => []InFlightBounded
<1>1. IInv => InFlightBounded
  BY DEF IInv, CountInv, InFlightBounded, InFlight, At
<1>2. QED
  BY <1>1, Invariance, PTL

(* A returned snapshot has every failure under its key and every object    *)
(* that was listed, whatever the interleaving of the writers.              *)
THEOREM SnapshotTruth == Spec => []SnapshotTellsTheTruth
<1>1. IInv => SnapshotTellsTheTruth
  BY DEF IInv, ReturnInv, PhaseInv, Recorded, SnapshotTellsTheTruth
<1>2. QED
  BY <1>1, Invariance, PTL

(* No goroutine writes the snapshot after Collect has returned it. *)
THEOREM SnapshotFinal == Spec => SnapshotFrozen
<1>1. IInv /\ [Next]_vars => [returned => UNCHANGED snapshot]_vars
  <2> SUFFICES ASSUME IInv, Next, returned PROVE UNCHANGED snapshot
    OBVIOUS
  <2>1. \A t \in Tasks : pc[t] = "done"
    BY DEF IInv, ReturnInv
  <2>2. ASSUME NEW t \in Tasks PROVE ~Write(t)
    BY <2>1 DEF Write, Move
  <2>3. QED
    BY <2>2 DEF Next, Spawn, Acquire, Answer, Expire, Finish, Lock, Release, Done,
                Return, Cancel, snapshot
<1>2. QED
  BY <1>1, Invariance, PTL DEF Spec, SnapshotFrozen
-----------------------------------------------------------------------------
(* The refinement: which step of the collection each step of the pool is.  *)
Outcome == [t \in Tasks |-> OutcomeOf(t)]

(* Before anything is spawned every task of the collection is pending. *)
LEMMA InitRefines == Init => Promise!Init
  BY DEF Init, Promise!Init, OutcomeOf, Promise!Pending

(* A step that leaves the snapshot alone and moves no goroutine into a     *)
(* settled phase is a stutter of the collection.                           *)
LEMMA QuietStep ==
  ASSUME IInv, NEW t \in Tasks, UNCHANGED <<snapshot, returned>>,
         \A u \in Tasks \ {t} : pc'[u] = pc[u],
         pc[t] \in {"releasing", "released", "done"}
            <=> pc'[t] \in {"releasing", "released", "done"}
  PROVE  UNCHANGED Promise!collectionVars
<1>1. \A u \in Tasks : OutcomeOf(u)' = OutcomeOf(u)
  BY DEF OutcomeOf, snapshot
<1>2. QED
  BY <1>1 DEF Promise!collectionVars

(* A step that moves one goroutine of an unfinished collection from        *)
(* pending to o, and leaves the others' outcomes alone, is a Settle step.  *)
LEMMA SettleStep ==
  ASSUME NEW t \in Tasks, NEW o \in {"data", "nothing", "error"},
         ~returned, UNCHANGED returned,
         OutcomeOf(t) = "pending", OutcomeOf(t)' = o,
         \A u \in Tasks \ {t} : OutcomeOf(u)' = OutcomeOf(u),
         o = "nothing" => t \in AppendTasks \cup NotFoundIsFine
  PROVE  Promise!Next
<1>1. Promise!Settle(t, o)
  <2>1. Outcome' = [Outcome EXCEPT ![t] = o]
    BY DEF Outcome
  <2>2. QED
    BY <2>1 DEF Promise!Settle, Promise!Pending, Promise!Nothing, Outcome
<1>2. o \in Promise!Outcomes \ {Promise!Pending}
  BY DEF Promise!Outcomes, Promise!Pending, Promise!Data, Promise!Nothing, Promise!Error
<1>3. QED
  BY <1>1, <1>2 DEF Promise!Next

(* A call that leaves nothing to write settles its task as Nothing. *)
LEMMA FinishRefines ==
  ASSUME IInv, NEW t \in Tasks, NEW r \in Results \ {"none"}, Finish(t, r),
         r \in {"empty", "notfound"} => t \in AppendTasks \cup NotFoundIsFine
  PROVE  [Promise!Next]_(Promise!collectionVars)
<1>1. /\ pc[t] = "calling" /\ PhaseInv(t) /\ ~returned
      /\ UNCHANGED <<snapshot, returned>>
      /\ \A u \in Tasks \ {t} : pc'[u] = pc[u]
      /\ pc'[t] = IF r \in {"data", "error"} THEN "locking" ELSE "releasing"
  BY DEF IInv, TypeOK, ReturnInv, Finish, Move
<1>2. CASE r \in {"data", "error"}
  BY <1>1, <1>2, QuietStep
<1>3. CASE r \in {"empty", "notfound"}
  <2>1. OutcomeOf(t) = "pending" /\ OutcomeOf(t)' = "nothing"
    BY <1>1, <1>3 DEF OutcomeOf, PhaseInv, Untouched, snapshot
  <2>2. \A u \in Tasks \ {t} : OutcomeOf(u)' = OutcomeOf(u)
    BY <1>1 DEF OutcomeOf, snapshot
  <2>3. QED
    BY <1>1, <1>3, <2>1, <2>2, SettleStep
<1>4. QED
  BY <1>2, <1>3 DEF Results

(* The write under the mutex settles its task, as data or as an error. *)
LEMMA WriteRefines ==
  ASSUME IInv, NEW t \in Tasks, Write(t)
  PROVE  Promise!Next
<1>1. /\ pc[t] = "writing" /\ PhaseInv(t) /\ ~returned /\ UNCHANGED returned
      /\ \A u \in Tasks \ {t} : pc'[u] = pc[u]
      /\ mu = t /\ seen[t] = usage
  BY DEF IInv, TypeOK, ReturnInv, MutexInv, Write, Move
<1>2. \A u \in Tasks \ {t} : OutcomeOf(u)' = OutcomeOf(u)
  BY <1>1 DEF Write, OutcomeOf
<1>3. OutcomeOf(t) = "pending"
  BY <1>1 DEF OutcomeOf, PhaseInv, Untouched
<1>4. OutcomeOf(t)' = result[t] /\ result[t] \in {"data", "error"}
  BY <1>1 DEF Write, OutcomeOf, PhaseInv, Untouched
<1>5. QED
  BY <1>1, <1>2, <1>3, <1>4, SettleStep

(* Every step of the pool is a step of the collection or a stutter of it. *)
LEMMA NextRefines ==
  ASSUME IInv, [Next]_vars
  PROVE  [Promise!Next]_(Promise!collectionVars)
<1>1. ASSUME NEW t \in Tasks, Spawn(t) \/ Acquire(t) \/ Lock(t) \/ Release(t) \/ Done(t)
      PROVE  UNCHANGED Promise!collectionVars
  <2>1. UNCHANGED <<snapshot, returned>>
    BY <1>1 DEF Spawn, Acquire, Lock, Release, Done, snapshot
  <2>2. \A u \in Tasks \ {t} : pc'[u] = pc[u]
    BY <1>1 DEF IInv, TypeOK, Spawn, Acquire, Lock, Release, Done, Move
  <2>3. pc[t] \in {"releasing", "released", "done"}
          <=> pc'[t] \in {"releasing", "released", "done"}
    BY <1>1 DEF IInv, TypeOK, Spawn, Acquire, Lock, Release, Done, Move
  <2>4. QED
    BY <2>1, <2>2, <2>3, QuietStep
<1>2. ASSUME NEW t \in Tasks, Answer(t) \/ Expire(t)
      PROVE  [Promise!Next]_(Promise!collectionVars)
  BY <1>2, EndOfCall, FinishRefines
<1>3. ASSUME NEW t \in Tasks, Write(t) PROVE Promise!Next
  BY <1>3, WriteRefines
<1>4. ASSUME Return PROVE Promise!Next
  <2>1. \A t \in Tasks : pc[t] = "done"
    BY <1>4, WaitedForAll DEF Return
  <2>2. \A t \in Tasks : Outcome[t] # "pending"
    BY <2>1 DEF Outcome, OutcomeOf
  <2>3. UNCHANGED Outcome
    BY <1>4 DEF Outcome, OutcomeOf, Return, snapshot
  <2>4. QED
    BY <1>4, <2>2, <2>3 DEF Promise!Next, Promise!Return, Promise!Pending, Outcome, Return
<1>5. ASSUME Cancel \/ UNCHANGED vars PROVE UNCHANGED Promise!collectionVars
  BY <1>5 DEF Cancel, vars, snapshot, Promise!collectionVars, OutcomeOf
<1>6. QED
  BY <1>1, <1>2, <1>3, <1>4, <1>5 DEF Next

(* The pool of goroutines implements the decide-once collection (its       *)
(* safety part): every step settles one task for good, returns a settled   *)
(* collection, or is invisible to the caller.                              *)
THEOREM Refinement == Spec => Promise!Init /\ [][Promise!Next]_(Promise!collectionVars)
<1>1. IInv /\ [Next]_vars => [Promise!Next]_(Promise!collectionVars)
  BY NextRefines
<1>2. QED
  BY <1>1, InitRefines, Invariance, PTL DEF Spec
-----------------------------------------------------------------------------
(* What CollectReturns rests on, fairness apart: until Collect returns     *)
(* someone can take a step that needs no answer of the API server, and no  *)
(* step leads back, so that there are finitely many of them.               *)

(* What each step of goroutine t waits for (an API call for its deadline). *)
CanMove(t) ==
  \/ pc[t] = "unspawned" /\ t = next
  \/ pc[t] = "queued" /\ sem < Concurrency
  \/ pc[t] = "locking" /\ mu = NoTask
  \/ pc[t] \in {"calling", "writing", "releasing", "released"}
CanReturn == next > NumTasks /\ wg = 0

(* The goroutines of the pool, the mutex and the WaitGroup never wait for  *)
(* one another in a circle (runBoundedPool, collectResource).              *)
NeverStuck == returned \/ CanReturn \/ \E t \in Tasks : CanMove(t)

LEMMA SomeoneCanMove == ASSUME IInv PROVE NeverStuck
<1>1. CASE next <= NumTasks
  <2>1. next \in Tasks /\ pc[next] = "unspawned"
    BY <1>1 DEF IInv, TypeOK, SpawnInv
  <2>2. QED
    BY <2>1 DEF NeverStuck, CanMove
<1>2. CASE /\ next > NumTasks
           /\ \E t \in Tasks : pc[t] \in {"calling", "writing", "releasing", "released"}
  BY <1>2 DEF NeverStuck, CanMove
<1>3. CASE /\ \A t \in Tasks : pc[t] \notin {"calling", "writing", "releasing", "released"}
           /\ \E t \in Tasks : pc[t] = "locking"
  <2>1. mu \in Tasks \cup {NoTask} /\ (mu \in Tasks => pc[mu] = "writing")
    BY DEF IInv, TypeOK, MutexInv
  <2>2. mu = NoTask
    BY <1>3, <2>1
  <2>3. QED
    BY <1>3, <2>2 DEF NeverStuck, CanMove
<1>4. CASE /\ next > NumTasks
           /\ \A t \in Tasks : pc[t] \notin {"calling", "locking", "writing", "releasing", "released"}
  <2>1. \A t \in Tasks : pc[t] \in {"queued", "done"}
    <3>1. \A t \in Tasks : pc[t] \in Phases /\ pc[t] # "unspawned"
      BY <1>4 DEF IInv, TypeOK, SpawnInv
    <3>2. QED
      BY <1>4, <3>1 DEF Phases
  <2>2. CASE \E t \in Tasks : pc[t] = "queued"
    <3>1. At(Holding) = {}
      BY <2>1 DEF At, Holding
    <3>2. sem = 0
      BY <3>1, FS_EmptySet DEF IInv, CountInv
    <3>3. QED
      BY <2>2, <3>2, ConcurrencyType DEF NeverStuck, CanMove
  <2>3. CASE \A t \in Tasks : pc[t] = "done"
    <3>1. At(Counted) = {}
      BY <2>3 DEF At, Counted, Holding
    <3>2. wg = 0
      BY <3>1, FS_EmptySet DEF IInv, CountInv
    <3>3. QED
      BY <1>4, <3>2 DEF NeverStuck, CanReturn
  <2>4. QED
    BY <2>1, <2>2, <2>3
<1>5. next \in Nat
  BY DEF IInv, TypeOK
<1>6. QED
  BY <1>1, <1>2, <1>3, <1>4, <1>5

(* No deadlock, whatever the size of the pool. *)
THEOREM NoDeadlock == Spec => []NeverStuck
<1>1. IInv => NeverStuck
  BY SomeoneCanMove
<1>2. QED
  BY <1>1, Invariance, PTL

(* The way of a goroutine. *)
Place(p) ==
  CASE p = "unspawned" -> 0 [] p = "queued" -> 1 [] p = "calling" -> 2 [] p = "locking" -> 3
    [] p = "writing" -> 4 [] p = "releasing" -> 5 [] p = "released" -> 6 [] p = "done" -> 7

(* Every step is Ctrl+C, the return, each once, or takes one goroutine     *)
(* further on its way: Collect takes at most seven steps for each task,    *)
(* and two more.                                                           *)
Forward ==
  \/ ~cancelled /\ cancelled' /\ UNCHANGED <<pc, returned>>
  \/ ~returned /\ returned' /\ UNCHANGED <<pc, cancelled>>
  \/ /\ UNCHANGED <<returned, cancelled>>
     /\ \E t \in Tasks, p \in Phases : pc' = [pc EXCEPT ![t] = p] /\ Place(pc[t]) < Place(p)

LEMMA PlacesAre ==
  /\ Place("unspawned") = 0 /\ Place("queued") = 1 /\ Place("calling") = 2
  /\ Place("locking") = 3 /\ Place("writing") = 4 /\ Place("releasing") = 5
  /\ Place("released") = 6 /\ Place("done") = 7
BY DEF Place

(* No goroutine takes a step back. *)
THEOREM OnlyForward == Spec => [][Forward]_vars
<1>1. ASSUME NEW t \in Tasks, NEW from, NEW to \in Phases, Move(t, from, to),
             Place(from) < Place(to), UNCHANGED <<returned, cancelled>>
      PROVE  Forward
  BY <1>1 DEF Move, Forward
<1>2. Next => Forward
  <2> SUFFICES ASSUME Next PROVE Forward
    OBVIOUS
  <2> USE PlacesAre, <1>1 DEF Phases
  <2>1. ASSUME NEW t \in Tasks, Spawn(t) PROVE Forward
    BY <2>1 DEF Spawn
  <2>2. ASSUME NEW t \in Tasks, Acquire(t) PROVE Forward
    BY <2>2 DEF Acquire
  <2>3. ASSUME NEW t \in Tasks, Answer(t) \/ Expire(t) PROVE Forward
    BY <2>3 DEF Answer, Expire, Finish
  <2>4. ASSUME NEW t \in Tasks, Lock(t) PROVE Forward
    BY <2>4 DEF Lock
  <2>5. ASSUME NEW t \in Tasks, Write(t) PROVE Forward
    BY <2>5 DEF Write
  <2>6. ASSUME NEW t \in Tasks, Release(t) PROVE Forward
    BY <2>6 DEF Release
  <2>7. ASSUME NEW t \in Tasks, Done(t) PROVE Forward
    BY <2>7 DEF Done
  <2>8. ASSUME Return \/ Cancel PROVE Forward
    BY <2>8 DEF Return, Cancel, Forward
  <2>9. QED
    BY <2>1, <2>2, <2>3, <2>4, <2>5, <2>6, <2>7, <2>8 DEF Next
<1>3. QED
  BY <1>2, PTL DEF Spec

(* A task that has no call under way when the context is cancelled can     *)
(* only fail from then on.                                                 *)
Doomed(t) == cancelled /\ (pc[t] \in {"unspawned", "queued"} \/ result[t] = "error")

LEMMA DoomedStays ==
  ASSUME IInv, NEW t \in Tasks, Doomed(t), [Next]_vars
  PROVE  Doomed(t)'
<1>1. pc \in [Tasks -> Phases] /\ result \in [Tasks -> Results] /\ PhaseInv(t)
  BY DEF IInv, TypeOK
<1>2. pc[t] # "calling"
  BY <1>1 DEF Doomed, PhaseInv
<1>3. ASSUME UNCHANGED <<result, cancelled>>, result[t] = "error" PROVE Doomed(t)'
  BY <1>3 DEF Doomed
<1>4. ASSUME NEW u \in Tasks, Spawn(u) PROVE Doomed(t)'
  BY <1>1, <1>4 DEF Doomed, Spawn, Move
<1>5. ASSUME NEW u \in Tasks, Acquire(u) PROVE Doomed(t)'
  BY <1>1, <1>5 DEF Doomed, Acquire, Move
<1>6. ASSUME NEW u \in Tasks, Answer(u) \/ Expire(u) PROVE Doomed(t)'
  <2>1. PICK r : Finish(u, r)
    BY <1>6 DEF Answer, Expire
  <2>2. u # t
    BY <1>2, <2>1 DEF Finish, Move
  <2>3. QED
    BY <1>1, <2>1, <2>2 DEF Finish, Move, Doomed
<1>7. ASSUME NEW u \in Tasks, Lock(u) \/ Write(u) \/ Release(u) \/ Done(u) PROVE Doomed(t)'
  <2>1. UNCHANGED <<result, cancelled>>
    BY <1>7 DEF Lock, Write, Release, Done
  <2>2. pc'[t] = pc[t] \/ pc[t] \notin {"unspawned", "queued"}
    BY <1>1, <1>7 DEF Lock, Write, Release, Done, Move
  <2>3. QED
    BY <2>1, <2>2 DEF Doomed
<1>8. CASE Return \/ Cancel \/ UNCHANGED vars
  BY <1>8 DEF Doomed, Return, Cancel, vars
<1>9. QED
  BY <1>4, <1>5, <1>6, <1>7, <1>8 DEF Next

(* The safety half of InterruptedTasksAreRecorded: no snapshot is returned *)
(* without the errors of the tasks that Ctrl+C found unstarted, whenever   *)
(* it came (collectResource under a cancelled context).                    *)
THEOREM InterruptedOwnUp ==
  ASSUME NEW t \in Tasks
  PROVE  Spec => []((cancelled /\ pc[t] \in {"unspawned", "queued"})
                      => [](returned => t \in errors))
<1>1. cancelled /\ pc[t] \in {"unspawned", "queued"} => Doomed(t)
  BY DEF Doomed
<1>2. IInv /\ Doomed(t) /\ [Next]_vars => Doomed(t)'
  BY DoomedStays
<1>3. IInv /\ Doomed(t) => (returned => t \in errors)
  <2> SUFFICES ASSUME IInv, Doomed(t), returned PROVE t \in errors
    OBVIOUS
  <2>1. pc[t] = "done" /\ PhaseInv(t)
    BY DEF IInv, ReturnInv
  <2>2. QED
    BY <2>1 DEF PhaseInv, Recorded, Doomed
<1>4. QED
  BY <1>1, <1>2, <1>3, Invariance, PTL DEF Spec
=============================================================================
