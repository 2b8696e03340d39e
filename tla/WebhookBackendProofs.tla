------------------------ MODULE WebhookBackendProofs ------------------------
(***************************************************************************)
(* What an evaluated WH-002 or CRD-002 says of the cluster is true, for    *)
(* any set of Services, any lists that reference them, any number of       *)
(* changes during the collection and any LIST that fails.                  *)
(*                                                                         *)
(* The two properties speak of the moment the rule ran.  What makes them   *)
(* hold is what each collected list still tells of the past: SnapInv, and  *)
(* that the history variables bracket the present: HistoryInv.             *)
(***************************************************************************)
EXTENDS WebhookBackend, TLAPS

HistoryInv ==
  /\ Services \ ready \subseteq everBroken
  /\ ready \subseteq everWhole
  /\ \A l \in RefLists : alwaysReferred[l] \subseteq refs[l]

Collected(l) == l \in Lists /\ l \notin pending /\ l \notin errors

SnapInv ==
  /\ Collected("services") => Services \ snap["services"] \subseteq everBroken
  /\ Collected("endpointslices") =>
       /\ Services \ snap["endpointslices"] \subseteq everBroken
       /\ snap["endpointslices"] \subseteq everWhole
  /\ \A l \in RefLists : Collected(l) => alwaysReferred[l] \subseteq snap[l]

(* A verdict is given once the collection is over, and stays. *)
VerdictInv ==
  /\ state # "pending" => pending = {}
  /\ EvaluatedFindingsAreReal
  /\ EvaluatedSilenceIsEarned

IInv == TypeOK /\ HistoryInv /\ SnapInv /\ VerdictInv

LEMMA InitIInv == Init => IInv
<1> SUFFICES ASSUME Init PROVE IInv
  OBVIOUS
<1>1. TypeOK
  BY ListsAssumption DEF Init, TypeOK, States
<1>2. HistoryInv /\ SnapInv
  BY DEF Init, HistoryInv, SnapInv, Collected
<1>3. VerdictInv
  BY DEF Init, VerdictInv, EvaluatedFindingsAreReal, EvaluatedSilenceIsEarned
<1>4. QED
  BY <1>1, <1>2, <1>3 DEF IInv

(* What Change does to the history, whatever it does to the cluster. *)
LEMMA ChangeStep == IInv /\ Change => IInv'
<1> SUFFICES ASSUME IInv, Change PROVE IInv'
  OBVIOUS
<1>1. /\ refs' \in [RefLists -> SUBSET Services]
      /\ ready' \subseteq exists' /\ exists' \subseteq Services
  <2>0. TypeOK
    BY DEF IInv
  <2>1. PICK s \in Services :
          \/ exists' = exists \cup {s} /\ UNCHANGED <<refs, ready>>
          \/ exists' = exists \ {s} /\ ready' = ready \ {s} /\ UNCHANGED refs
          \/ /\ s \in exists
             /\ ready' = ready \cup {s} \/ ready' = ready \ {s}
             /\ UNCHANGED <<refs, exists>>
          \/ \E l \in RefLists :
               /\ refs' = [refs EXCEPT ![l] = @ \cup {s}] \/ refs' = [refs EXCEPT ![l] = @ \ {s}]
               /\ UNCHANGED <<exists, ready>>
    BY DEF Change
  <2>2. QED
    BY <2>0, <2>1 DEF TypeOK
<1>2. /\ everBroken' = everBroken \cup (Services \ ready')
      /\ everWhole' = everWhole \cup ready'
      /\ alwaysReferred' = [l \in RefLists |-> alwaysReferred[l] \cap refs'[l]]
      /\ UNCHANGED <<snap, pending, errors, findings, state>>
      /\ state = "pending" /\ changes' = changes + 1 /\ changes < MaxChanges
  BY DEF Change, collection, verdict
<1>3. TypeOK'
  BY <1>1, <1>2, ListsAssumption DEF IInv, TypeOK
<1>4. HistoryInv'
  BY <1>2 DEF HistoryInv
<1>5. SnapInv'
  BY <1>2 DEF IInv, SnapInv, Collected
<1>6. VerdictInv'
  BY <1>2 DEF VerdictInv, EvaluatedFindingsAreReal, EvaluatedSilenceIsEarned
<1>7. QED
  BY <1>3, <1>4, <1>5, <1>6 DEF IInv

(* A LIST shows the present, which the history brackets. *)
LEMMA CollectStep == ASSUME IInv, NEW l \in Lists, Collect(l) PROVE IInv'
<1>1. /\ l \in pending /\ pending' = pending \ {l}
      /\ UNCHANGED <<refs, exists, ready, changes, findings, state,
                     everBroken, everWhole, alwaysReferred>>
  BY DEF Collect, cluster, verdict, history
<1>2. CASE snap' = [snap EXCEPT ![l] = Shown(l)] /\ errors' = errors
  <2>1. Shown(l) \subseteq Services
    BY DEF Shown, IInv, TypeOK, Lists
  <2>2. TypeOK'
    BY <1>1, <1>2, <2>1 DEF IInv, TypeOK
  <2>3. HistoryInv'
    BY <1>1 DEF IInv, HistoryInv
  <2>4. \A k \in Lists : snap'[k] = IF k = l THEN Shown(l) ELSE snap[k]
    BY <1>2 DEF IInv, TypeOK
  <2>5. \A k : Collected(k)' => k \in Lists /\ (k = l \/ Collected(k))
    BY <1>1, <1>2 DEF Collected
  <2>6. /\ Shown("services") = exists
        /\ Shown("endpointslices") = ready
        /\ \A k \in RefLists : Shown(k) = refs[k]
    BY ListsAssumption DEF Shown
  <2>7. SnapInv'
    <3>1. Collected("services")' => (Services \ snap["services"] \subseteq everBroken)'
      BY <1>1, <2>4, <2>5, <2>6 DEF IInv, TypeOK, HistoryInv, SnapInv
    <3>2. Collected("endpointslices")' =>
            /\ (Services \ snap["endpointslices"] \subseteq everBroken)'
            /\ (snap["endpointslices"] \subseteq everWhole)'
      BY <1>1, <2>4, <2>5, <2>6 DEF IInv, HistoryInv, SnapInv
    <3>3. \A k \in RefLists : Collected(k)' => (alwaysReferred[k] \subseteq snap[k])'
      BY <1>1, <2>4, <2>5, <2>6 DEF IInv, HistoryInv, SnapInv, Lists
    <3>4. QED
      BY <3>1, <3>2, <3>3 DEF SnapInv
  <2>8. VerdictInv'
    BY <1>1 DEF IInv, VerdictInv, EvaluatedFindingsAreReal, EvaluatedSilenceIsEarned
  <2>9. QED
    BY <2>2, <2>3, <2>7, <2>8 DEF IInv
<1>3. CASE errors' = errors \cup {l} /\ snap' = snap
  <2>1. TypeOK'
    BY <1>1, <1>3 DEF IInv, TypeOK
  <2>2. HistoryInv' /\ SnapInv'
    BY <1>1, <1>3 DEF IInv, HistoryInv, SnapInv, Collected
  <2>3. VerdictInv'
    BY <1>1 DEF IInv, VerdictInv, EvaluatedFindingsAreReal, EvaluatedSilenceIsEarned
  <2>4. QED
    BY <2>1, <2>2, <2>3 DEF IInv
<1>4. QED
  BY <1>2, <1>3 DEF Collect

(* The rule runs: each case of Required is one line of the argument. *)
LEMMA EvaluateStep == IInv /\ Evaluate => IInv'
<1> SUFFICES ASSUME IInv, Evaluate PROVE IInv'
  OBVIOUS
<1>1. /\ pending = {} /\ findings' = {s \in Referenced : Reported(s)}
      /\ state' = IF Required \cap errors = {} THEN "evaluated" ELSE "insufficient_evidence"
      /\ UNCHANGED <<refs, exists, ready, changes, snap, pending, errors,
                     everBroken, everWhole, alwaysReferred>>
  BY DEF Evaluate, cluster, collection, history
<1>2. Referenced \subseteq Services
  BY DEF Referenced, IInv, TypeOK, Lists
<1>3. TypeOK'
  BY <1>1, <1>2 DEF IInv, TypeOK, States
<1>4. HistoryInv' /\ SnapInv'
  BY <1>1 DEF IInv, HistoryInv, SnapInv, Collected
<1>5. ASSUME Required \cap errors = {}
      PROVE  /\ findings' \subseteq everBroken
             /\ \A l \in RefLists : alwaysReferred[l] \ everWhole \subseteq findings'
  <2>1. \A l \in RefLists : l \notin errors /\ Collected(l)
    BY <1>1, <1>5 DEF Required, Collected, Lists
  <2>2. CASE Referenced = {}
    BY <1>1, <2>1, <2>2 DEF Referenced, IInv, SnapInv
  <2>3. CASE Referenced # {}
    <3>1. "services" \notin errors /\ Collected("services")
      BY <1>1, <1>5, <2>1, <2>3 DEF Required, Collected, Lists
    <3>2. ASSUME NEW s \in Referenced, Observed(s)
          PROVE  "endpointslices" \notin errors /\ Collected("endpointslices")
      BY <1>1, <1>5, <2>1, <2>3, <3>1, <3>2 DEF Required, Collected, Lists
    <3>3. ASSUME NEW s \in Referenced, Reported(s) PROVE s \in everBroken
      <4>1. CASE ~Observed(s)
        BY <1>2, <3>1, <4>1 DEF Observed, IInv, SnapInv
      <4>2. CASE Observed(s) /\ ~Served(s)
        BY <1>2, <3>2, <4>2 DEF Served, IInv, SnapInv
      <4>3. QED
        BY <3>3, <4>1, <4>2 DEF Reported
    <3>4. ASSUME NEW l \in RefLists, NEW s \in alwaysReferred[l] \ everWhole
          PROVE  s \in Referenced /\ Reported(s)
      <4>1. s \in Referenced
        BY <2>1 DEF Referenced, IInv, SnapInv
      <4>2. Observed(s) => ~Served(s) /\ "endpointslices" \notin errors
        BY <3>2, <4>1 DEF Served, IInv, SnapInv
      <4>3. QED
        BY <4>1, <4>2 DEF Reported
    <3>5. QED
      BY <1>1, <3>3, <3>4
  <2>4. QED
    BY <2>2, <2>3
<1>6. VerdictInv'
  BY <1>1, <1>5 DEF VerdictInv, EvaluatedFindingsAreReal, EvaluatedSilenceIsEarned
<1>7. QED
  BY <1>3, <1>4, <1>6 DEF IInv

LEMMA StutterStep == IInv /\ UNCHANGED vars => IInv'
<1> SUFFICES ASSUME IInv, UNCHANGED vars PROVE IInv'
  OBVIOUS
<1>1. TypeOK'
  BY DEF IInv, TypeOK, vars, cluster, collection, verdict, history
<1>2. HistoryInv' /\ SnapInv'
  BY DEF IInv, HistoryInv, SnapInv, Collected, vars, cluster, collection, verdict, history
<1>3. VerdictInv'
  BY DEF IInv, VerdictInv, EvaluatedFindingsAreReal, EvaluatedSilenceIsEarned,
         vars, cluster, collection, verdict, history
<1>4. QED
  BY <1>1, <1>2, <1>3 DEF IInv

(* The strengthened invariant holds in every reachable state, whatever     *)
(* lists fail and however the cluster changes between the LIST calls.      *)
THEOREM Invariance == Spec => []IInv
<1>1. IInv /\ [Next]_vars => IInv'
  BY ChangeStep, CollectStep, EvaluateStep, StutterStep DEF Next
<1>2. QED
  BY <1>1, InitIInv, PTL DEF Spec

(* An evaluated rule reports only Services that were missing or without a  *)
(* ready endpoint at some moment of the collection.                        *)
THEOREM FindingsReal == Spec => []EvaluatedFindingsAreReal
<1>1. IInv => EvaluatedFindingsAreReal
  BY DEF IInv, VerdictInv
<1>2. QED
  BY <1>1, Invariance, PTL

(* An evaluated rule reports every Service that some webhook referenced,   *)
(* and that was broken, throughout the collection.                         *)
THEOREM SilenceEarned == Spec => []EvaluatedSilenceIsEarned
<1>1. IInv => EvaluatedSilenceIsEarned
  BY DEF IInv, VerdictInv
<1>2. QED
  BY <1>1, Invariance, PTL
=============================================================================
