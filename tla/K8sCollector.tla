---------------------------- MODULE K8sCollector ----------------------------
(***************************************************************************)
(* Collector.Collect (internal/collectors/k8s/collector.go): one goroutine *)
(* per collection task, a buffered channel used as a semaphore, a          *)
(* WaitGroup, one mutex around the shared snapshot and a per-call deadline *)
(* derived from a context that Ctrl+C can cancel.                          *)
(*                                                                         *)
(* Tasks are numbered in the order of the run(key, fn) calls.  A typed     *)
(* task overwrites its own snapshot field; the tasks of AppendTasks        *)
(* ("deprecated-api:<gvr>") all append to the one slice                    *)
(* snap.DeprecatedAPIUsage, which is read and written in two steps under   *)
(* the mutex.  For the tasks of NotFoundIsFine a NotFound answer is not an *)
(* error (a group/version the server no longer serves, a cluster without a *)
(* coredns ConfigMap).  The API server may answer, refuse, or never answer.*)
(***************************************************************************)
EXTENDS Integers, FiniteSets

CONSTANTS
  NumTasks,        \* how many run(key, fn) calls Collect makes
  AppendTasks,     \* the tasks that append to the shared slice
  NotFoundIsFine,  \* the tasks that treat NotFound as an empty answer
  Requested,       \* the concurrency the caller asks for
  MinConcurrency, MaxConcurrency

Tasks == 1 .. NumTasks

ASSUME NumTasksAssumption == NumTasks \in Nat
ASSUME TaskKindsAssumption == AppendTasks \subseteq Tasks /\ NotFoundIsFine \subseteq Tasks
ASSUME ConcurrencyAssumption ==
  /\ Requested \in Int /\ MinConcurrency \in Nat \ {0} /\ MaxConcurrency \in Nat
  /\ MinConcurrency <= MaxConcurrency

VARIABLES
  pc,         \* where each task's goroutine is
  result,     \* what its API call gave it
  seen,       \* the slice an append task read when it took the mutex
  mu,         \* the task that holds the mutex, or NoTask
  sem,        \* tokens in the semaphore channel
  wg,         \* the WaitGroup counter
  next,       \* the next task the main goroutine spawns
  returned,   \* Collect has returned the snapshot
  cancelled,  \* the context passed to Collect is cancelled
  stored,     \* typed tasks whose field of the snapshot is set
  usage,      \* append tasks whose objects are in snap.DeprecatedAPIUsage
  errors      \* tasks whose key is in snap.Errors

vars == <<pc, result, seen, mu, sem, wg, next, returned, cancelled, stored, usage, errors>>
snapshot == <<stored, usage, errors>>

NoTask == 0
Phases == {"unspawned", "queued", "calling", "locking", "writing", "releasing", "released", "done"}
Results == {"none", "data", "empty", "notfound", "error"}

(* The phases in which a goroutine holds a semaphore token, and those in   *)
(* which the WaitGroup still counts it.                                    *)
Holding == {"calling", "locking", "writing", "releasing"}
Counted == Holding \cup {"queued", "released"}

(* The clamp at the head of Collect; runBoundedPool's own floor of 1 is    *)
(* subsumed by it.                                                         *)
Concurrency ==
  IF Requested < MinConcurrency THEN MinConcurrency
  ELSE IF Requested > MaxConcurrency THEN MaxConcurrency ELSE Requested

Move(t, from, to) == pc[t] = from /\ pc' = [pc EXCEPT ![t] = to]

Init ==
  /\ pc = [t \in Tasks |-> "unspawned"]
  /\ result = [t \in Tasks |-> "none"]
  /\ seen = [t \in Tasks |-> {}]
  /\ mu = NoTask
  /\ sem = 0 /\ wg = 0 /\ next = 1
  /\ returned = FALSE /\ cancelled = FALSE
  /\ stored = {} /\ usage = {} /\ errors = {}

(* The main goroutine: wg.Add(1), then the go statement, task by task. *)
Spawn(t) ==
  /\ t = next
  /\ Move(t, "unspawned", "queued")
  /\ next' = next + 1
  /\ wg' = wg + 1
  /\ UNCHANGED <<result, seen, mu, sem, returned, cancelled, snapshot>>

(* Mutant: waits for an idle semaphore instead of for the WaitGroup. *)
ReturnWhenIdle ==
  /\ ~returned /\ next > NumTasks
  /\ sem = 0
  /\ returned' = TRUE
  /\ UNCHANGED <<pc, result, seen, mu, sem, wg, next, cancelled, snapshot>>

(* wg.Wait() falls through and Collect returns. *)
Return ==
  /\ ~returned
  /\ next > NumTasks
  /\ wg = 0
  /\ returned' = TRUE
  /\ UNCHANGED <<pc, result, seen, mu, sem, wg, next, cancelled, snapshot>>

(* Mutant: the pool admits one call too many. *)
AcquireOneTooMany(t) ==
  /\ sem <= Concurrency
  /\ Move(t, "queued", "calling")
  /\ sem' = sem + 1
  /\ UNCHANGED <<result, seen, mu, wg, next, returned, cancelled, snapshot>>

(* Mutant: a queued task that sees the cancellation gives up silently. *)
AcquireOrGiveUp(t) ==
  /\ sem < Concurrency
  /\ sem' = sem + 1
  /\ Move(t, "queued", IF cancelled THEN "releasing" ELSE "calling")
  /\ UNCHANGED <<result, seen, mu, wg, next, returned, cancelled, snapshot>>

(* sem <- struct{}{}: the send succeeds while the buffer has room, whether *)
(* or not the context is cancelled.  The per-call deadline starts only     *)
(* then, inside collectResource; a call made with a context that is        *)
(* already cancelled fails without reaching the server.                    *)
Acquire(t) ==
  /\ sem < Concurrency
  /\ sem' = sem + 1
  /\ \/ /\ ~cancelled
        /\ Move(t, "queued", "calling")
        /\ UNCHANGED result
     \/ /\ cancelled
        /\ Move(t, "queued", "locking")
        /\ result' = [result EXCEPT ![t] = "error"]
  /\ UNCHANGED <<seen, mu, wg, next, returned, cancelled, snapshot>>

(* The API call of fn ends with answer r.  Data, and an error, still have  *)
(* to be written under the mutex; an empty list and a tolerated NotFound   *)
(* write nothing.                                                          *)
Finish(t, r) ==
  /\ Move(t, "calling", IF r \in {"data", "error"} THEN "locking" ELSE "releasing")
  /\ result' = [result EXCEPT ![t] = r]
  /\ UNCHANGED <<seen, mu, sem, wg, next, returned, cancelled, snapshot>>

(* The API server answers.  A list with no object is data for a typed task *)
(* but nothing to append for an append task.                               *)
Answer(t) ==
  \E r \in {"data", "empty", "notfound", "error"} :
    /\ r = "empty" => t \in AppendTasks
    /\ r = "notfound" => t \in NotFoundIsFine
    /\ Finish(t, r)

(* Mutant: no per-call deadline, only the cancellation ends a hung call. *)
ExpireOnlyIfCancelled(t) == cancelled /\ Finish(t, "error")

(* callCtx expires on its own budget, or the parent context was cancelled. *)
Expire(t) == Finish(t, "error")

(* Mutant: an append task touches the shared slice without the mutex. *)
LockUnguarded(t) ==
  /\ Move(t, "locking", "writing")
  /\ mu' = t
  /\ seen' = [seen EXCEPT ![t] = usage]
  /\ UNCHANGED <<result, sem, wg, next, returned, cancelled, snapshot>>

(* mu.Lock(), and the read half of append(snap.DeprecatedAPIUsage, ...).   *)
Lock(t) ==
  /\ mu = NoTask
  /\ Move(t, "locking", "writing")
  /\ mu' = t
  /\ seen' = [seen EXCEPT ![t] = usage]
  /\ UNCHANGED <<result, sem, wg, next, returned, cancelled, snapshot>>

(* The write half, in fn on success and in collectResource on error, and   *)
(* mu.Unlock().                                                            *)
Write(t) ==
  /\ Move(t, "writing", "releasing")
  /\ errors' = IF result[t] = "error" THEN errors \cup {t} ELSE errors
  /\ stored' = IF result[t] = "data" /\ t \notin AppendTasks THEN stored \cup {t} ELSE stored
  /\ usage'  = IF result[t] = "data" /\ t \in AppendTasks THEN seen[t] \cup {t} ELSE usage
  /\ mu' = NoTask
  /\ UNCHANGED <<result, seen, sem, wg, next, returned, cancelled>>

(* The deferred calls run last-in first-out: <-sem, then wg.Done(). *)
Release(t) ==
  /\ Move(t, "releasing", "released")
  /\ sem' = sem - 1
  /\ UNCHANGED <<result, seen, mu, wg, next, returned, cancelled, snapshot>>

(* Mutant: the goroutine tells the WaitGroup twice that it is done. *)
DoneTwice(t) ==
  /\ Move(t, "released", "done")
  /\ wg' = wg - 2
  /\ UNCHANGED <<result, seen, mu, sem, next, returned, cancelled, snapshot>>

Done(t) ==
  /\ Move(t, "released", "done")
  /\ wg' = wg - 1
  /\ UNCHANGED <<result, seen, mu, sem, next, returned, cancelled, snapshot>>

(* Ctrl+C: signal.NotifyContext cancels the context given to Collect. *)
Cancel ==
  /\ ~cancelled /\ ~returned
  /\ cancelled' = TRUE
  /\ UNCHANGED <<pc, result, seen, mu, sem, wg, next, returned, snapshot>>

Next ==
  \/ \E t \in Tasks : \/ Spawn(t) \/ Acquire(t) \/ Answer(t) \/ Expire(t)
                      \/ Lock(t) \/ Write(t) \/ Release(t) \/ Done(t)
  \/ Return
  \/ Cancel

(* The Go scheduler runs every runnable goroutine and every timer fires;   *)
(* nothing makes the API server answer and nobody has to press Ctrl+C.     *)
Fairness ==
  /\ \A t \in Tasks : /\ WF_vars(Spawn(t)) /\ WF_vars(Acquire(t)) /\ WF_vars(Expire(t))
                      /\ WF_vars(Lock(t)) /\ WF_vars(Write(t))
                      /\ WF_vars(Release(t)) /\ WF_vars(Done(t))
  /\ WF_vars(Return)

Spec == Init /\ [][Next]_vars /\ Fairness
-----------------------------------------------------------------------------
(* Every goroutine is at a point of its code, the semaphore and the        *)
(* WaitGroup never go below zero (which would panic), and the shared slice *)
(* only ever holds what append tasks put there.                            *)
TypeOK ==
  /\ pc \in [Tasks -> Phases]
  /\ result \in [Tasks -> Results]
  /\ seen \in [Tasks -> SUBSET AppendTasks]
  /\ mu \in Tasks \cup {NoTask}
  /\ sem \in Nat /\ wg \in Nat /\ next \in 1 .. NumTasks + 1
  /\ returned \in BOOLEAN /\ cancelled \in BOOLEAN
  /\ stored \subseteq Tasks /\ usage \subseteq AppendTasks /\ errors \subseteq Tasks

(* Whatever --collector-concurrency asks for, no more calls are in flight  *)
(* than the clamped pool size (the rate the API server is promised).       *)
InFlight == {t \in Tasks : pc[t] \in Holding}
InFlightBounded == Cardinality(InFlight) <= Concurrency

(* A snapshot that was handed back says exactly what the API calls said: a *)
(* key is in Errors if and only if its call failed, and objects are there  *)
(* if and only if its call listed some.  An append lost to a race, or an   *)
(* error that was dropped, would make missing evidence look like a clean   *)
(* answer to the rules engine.                                             *)
SnapshotTellsTheTruth ==
  returned => \A t \in Tasks : /\ t \in errors <=> result[t] = "error"
                               /\ t \in stored \cup usage <=> result[t] = "data"

(* Once Collect has returned, no goroutine it started writes the snapshot  *)
(* its caller is reading without the mutex.                                *)
SnapshotFrozen == [][returned => UNCHANGED snapshot]_vars

(* A task that Ctrl+C finds unstarted ends up in Snapshot.Errors: an       *)
(* interrupted collection can only look incomplete, never empty.           *)
InterruptedTasksAreRecorded ==
  \A t \in Tasks :
    (cancelled /\ pc[t] \in {"unspawned", "queued"}) ~> (t \in errors)

(* Collect returns although any number of API calls hang for ever. *)
CollectReturns == <>returned

(* The collector implements the decide-once collection its callers assume. *)
OutcomeOf(t) ==
  IF t \in errors THEN "error"
  ELSE IF t \in stored \cup usage THEN "data"
  ELSE IF pc[t] \in {"releasing", "released", "done"} THEN "nothing" ELSE "pending"

Promise == INSTANCE Collection WITH
             MayHaveNothing <- AppendTasks \cup NotFoundIsFine,
             outcome <- [t \in Tasks |-> OutcomeOf(t)]
ImplementsCollection == Promise!Spec
=============================================================================
