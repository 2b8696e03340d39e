--------------------------- MODULE WebhookBackend ---------------------------
(***************************************************************************)
(* WH-002 and CRD-002 (internal/rules/wh002.go, crd002.go): is the Service *)
(* behind an admission or conversion webhook there, with ready endpoints?  *)
(* The answer is put together from several LIST calls of one collection,   *)
(* made at different moments of a cluster that keeps changing, and any of  *)
(* them may fail.  The rule's context-dependent evidence dependencies      *)
(* (internal/rules/execution.go) decide whether that answer is reported as *)
(* evaluated or as insufficient evidence.                                  *)
(*                                                                         *)
(* One instance stands for WH-002 (RefLists: the validating and the        *)
(* mutating webhook configurations), another for CRD-002 (RefLists: the    *)
(* CRDs).  Webhooks are told apart by the Service they reference only;     *)
(* URL webhooks and malformed client configurations need no other list.    *)
(***************************************************************************)
EXTENDS Naturals

CONSTANTS
  Services,   \* the Services a webhook may reference
  RefLists,   \* the lists whose objects hold the webhooks
  MaxChanges  \* bound on the changes of the cluster during one scan

ASSUME ListsAssumption ==
  /\ {"services", "endpointslices"} \cap RefLists = {}
  /\ MaxChanges \in Nat

VARIABLES
  refs,      \* the cluster: which Services each list's webhooks reference,
  exists,    \*   which Services there are,
  ready,     \*   and which of them have a ready endpoint
  changes,   \* changes of the cluster so far
  snap,      \* what each list that was collected showed
  pending,   \* lists not collected yet
  errors,    \* lists whose key is in Snapshot.Errors
  findings,  \* Services the rule reports on, once it has run
  state,     \* its execution state
  everBroken, everWhole, alwaysReferred  \* what was ever, or always, true

cluster == <<refs, exists, ready, changes>>
collection == <<snap, pending, errors>>
verdict == <<findings, state>>
history == <<everBroken, everWhole, alwaysReferred>>
vars == <<cluster, collection, verdict, history>>

Lists == RefLists \cup {"services", "endpointslices"}
States == {"pending", "evaluated", "insufficient_evidence"}

(* Ready endpoints belong to Services that exist, and a list that failed   *)
(* is not collected a second time.                                         *)
TypeOK ==
  /\ refs \in [RefLists -> SUBSET Services]
  /\ ready \subseteq exists /\ exists \subseteq Services
  /\ changes \in 0 .. MaxChanges
  /\ snap \in [Lists -> SUBSET Services]
  /\ pending \subseteq Lists /\ errors \subseteq Lists \ pending
  /\ findings \subseteq Services /\ state \in States
  /\ everBroken \subseteq Services /\ everWhole \subseteq Services
  /\ alwaysReferred \in [RefLists -> SUBSET Services]

Init ==
  /\ refs \in [RefLists -> SUBSET Services]
  /\ exists \in SUBSET Services
  /\ ready \in SUBSET exists
  /\ changes = 0
  /\ snap = [l \in Lists |-> {}]
  /\ pending = Lists /\ errors = {}
  /\ findings = {} /\ state = "pending"
  /\ everBroken = Services \ ready /\ everWhole = ready
  /\ alwaysReferred = refs

(* The API server's objects change between the LIST calls. *)
Change ==
  /\ state = "pending" /\ changes < MaxChanges
  /\ changes' = changes + 1
  /\ \E s \in Services :
       \/ /\ exists' = exists \cup {s} /\ UNCHANGED <<refs, ready>>
       \/ /\ exists' = exists \ {s} /\ ready' = ready \ {s} /\ UNCHANGED refs
       \/ /\ s \in exists
          /\ \/ ready' = ready \cup {s}
             \/ ready' = ready \ {s}
          /\ UNCHANGED <<refs, exists>>
       \/ \E l \in RefLists :
            /\ \/ refs' = [refs EXCEPT ![l] = @ \cup {s}]
               \/ refs' = [refs EXCEPT ![l] = @ \ {s}]
            /\ UNCHANGED <<exists, ready>>
  /\ everBroken' = everBroken \cup (Services \ ready')
  /\ everWhole' = everWhole \cup ready'
  /\ alwaysReferred' = [l \in RefLists |-> alwaysReferred[l] \cap refs'[l]]
  /\ UNCHANGED <<collection, verdict>>

(* What a LIST call would show now. *)
Shown(l) == CASE l = "services"       -> exists
              [] l = "endpointslices" -> ready
              [] OTHER                -> refs[l]

(* The collection task of one list, which the pool runs at any moment. *)
Collect(l) ==
  /\ l \in pending
  /\ pending' = pending \ {l}
  /\ \/ /\ snap' = [snap EXCEPT ![l] = Shown(l)]
        /\ UNCHANGED errors
     \/ /\ errors' = errors \cup {l}
        /\ UNCHANGED snap
  /\ UNCHANGED <<cluster, verdict, history>>

Referenced == UNION {snap[l] : l \in RefLists}

(* serviceExists: was the Service observed? *)
Observed(s) == s \in snap["services"]

(* readyAddressCount(...) > 0. *)
Served(s) == s \in snap["endpointslices"]

(* Mutant: the Service list is not a declared dependency. *)
RequiredWithoutServices ==
  RefLists \cup
    (IF Referenced # {} /\ \E s \in Referenced : Observed(s) THEN {"endpointslices"} ELSE {})

(* Mutant: the EndpointSlice list is not a declared dependency. *)
RequiredWithoutEndpoints ==
  RefLists \cup (IF RefLists \cap errors = {} /\ Referenced # {} THEN {"services"} ELSE {})

(* EvidenceDependenciesFor: the Service list is required only once a       *)
(* webhook is known to reference one, the EndpointSlices only once such a  *)
(* Service was observed.                                                   *)
Required ==
  RefLists \cup
    (IF RefLists \cap errors # {} \/ Referenced = {} THEN {}
     ELSE {"services"} \cup
            (IF "services" \notin errors /\ \E s \in Referenced : Observed(s)
             THEN {"endpointslices"} ELSE {}))

(* wh002EvaluateWebhook, crd002ServiceFindings: "does not exist in this    *)
(* cluster", or "zero ready endpoints".                                    *)
Reported(s) ==
  \/ ~Observed(s)
  \/ Observed(s) /\ "endpointslices" \notin errors /\ ~Served(s)

(* RunAllWithExecutions runs the rule whether or not its evidence is       *)
(* partial, keeps its findings, and records the execution state.           *)
Evaluate ==
  /\ pending = {} /\ state = "pending"
  /\ findings' = {s \in Referenced : Reported(s)}
  /\ state' = IF Required \cap errors = {} THEN "evaluated" ELSE "insufficient_evidence"
  /\ UNCHANGED <<cluster, collection, history>>

Next == Change \/ (\E l \in Lists : Collect(l)) \/ Evaluate

Spec == Init /\ [][Next]_vars
-----------------------------------------------------------------------------
(* An evaluated rule reports a Service only if, at some moment of the      *)
(* collection, it was really missing or without a ready endpoint.          *)
EvaluatedFindingsAreReal == state = "evaluated" => findings \subseteq everBroken

(* An evaluated rule is not silent about a Service that some webhook       *)
(* referenced, and that was broken, through the whole collection, however  *)
(* the LIST calls interleave with the changes.                             *)
EvaluatedSilenceIsEarned ==
  state = "evaluated" =>
    \A l \in RefLists : alwaysReferred[l] \ everWhole \subseteq findings
=============================================================================
