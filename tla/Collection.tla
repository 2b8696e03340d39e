----------------------------- MODULE Collection -----------------------------
(***************************************************************************)
(* What one call of Collector.Collect (internal/collectors/k8s) promises   *)
(* its caller, with no goroutine, semaphore or mutex in sight: every       *)
(* collection task is settled exactly once, and the snapshot is handed     *)
(* back only when all of them are.                                         *)
(*                                                                         *)
(* A settled task either contributed data to the snapshot, or recorded an  *)
(* error under its own key, or legitimately had nothing to contribute: an  *)
(* append task that listed no object, or a task for which "not found" is   *)
(* an expected answer.  Nothing else may look like "nothing", because the  *)
(* rules engine reads a missing error as a complete answer.                *)
(***************************************************************************)
EXTENDS Naturals

CONSTANTS
  Tasks,          \* the keys passed to run(key, fn), in any representation
  MayHaveNothing  \* those of Tasks that may succeed without contributing data

VARIABLES
  outcome,   \* what the snapshot says about each task
  returned   \* has Collect handed the snapshot to its caller?

collectionVars == <<outcome, returned>>

Pending == "pending"
Data    == "data"
Nothing == "nothing"
Error   == "error"
Outcomes == {Pending, Data, Nothing, Error}

CollectionTypeOK ==
  /\ outcome \in [Tasks -> Outcomes]
  /\ returned \in BOOLEAN

Init ==
  /\ outcome = [t \in Tasks |-> Pending]
  /\ returned = FALSE

Settle(t, o) ==
  /\ ~returned
  /\ outcome[t] = Pending
  /\ o = Nothing => t \in MayHaveNothing
  /\ outcome' = [outcome EXCEPT ![t] = o]
  /\ UNCHANGED returned

Return ==
  /\ ~returned
  /\ \A t \in Tasks : outcome[t] # Pending
  /\ returned' = TRUE
  /\ UNCHANGED outcome

Next ==
  \/ \E t \in Tasks, o \in Outcomes \ {Pending} : Settle(t, o)
  \/ Return

(* Collect always comes back: no hung call may hold the scan forever. *)
Spec == Init /\ [][Next]_collectionVars /\ WF_collectionVars(Next)
=============================================================================
