------------------------------ MODULE RuleProofs ------------------------------
(***************************************************************************)
(* Proofs about the registry: the loop that runs the rules, for any        *)
(* universe of rules, whatever each of them finds, however many of them    *)
(* fail or panic; and the evidence that each of the 31 rules is run on,    *)
(* whichever collector calls fail.                                         *)
(*                                                                         *)
(* The inductive invariant of the loop says of the rules behind the        *)
(* position what their records own up to (RowInv), and of those ahead that *)
(* they have left no trace.  The one of the evidence is the types and that *)
(* only a plane that is there loses calls: the argument is in what a rule  *)
(* reads and declares, and in what the drain rules make of lists that are  *)
(* not there.  At the end both are put together.                           *)
(***************************************************************************)
EXTENDS Registry, SumLemmas

(* What the i-th record says of the i-th rule. *)
RowInv(i) ==
  LET r == Universe[i]
      record == records[i]
  IN  /\ record.rule = r
      /\ record.state = "evaluated" =>
           status[r] = "evaluable" /\ made[r] = kept[r] /\ r \notin errs
      /\ made[r] # kept[r] => record.state = "failed"
      /\ ~record.applicable =>
           /\ status[r] \in {"not_registered", "not_applicable"}
           /\ made[r] = kept[r] /\ r \notin errs

Untouched(i) ==
  LET r == Universe[i] IN made[r] = {} /\ kept[r] = {} /\ r \notin errs

PositionInv == Len(records) = position - 1

IInv ==
  /\ TypeOK
  /\ PositionInv
  /\ \A i \in 1 .. position - 1 : RowInv(i)
  /\ \A i \in position .. Len(Universe) : Untouched(i)

LEMMA UniverseFacts ==
  /\ Len(Universe) \in Nat /\ DOMAIN Universe = 1 .. Len(Universe)
  /\ \A i \in 1 .. Len(Universe) : Universe[i] \in Rules
  /\ \A i, j \in 1 .. Len(Universe) : Universe[i] = Universe[j] => i = j
  /\ \A r \in Rules : \E i \in 1 .. Len(Universe) : r = Universe[i]
BY UniverseAssumption DEF Rules

LEMMA InitIInv == Init => IInv
<1> SUFFICES ASSUME Init PROVE IInv
  OBVIOUS
<1>1. TypeOK
  BY UniverseFacts DEF Init, TypeOK
<1>2. PositionInv /\ 1 .. position - 1 = {}
  BY DEF Init, PositionInv
<1>3. \A i \in position .. Len(Universe) : Untouched(i)
  BY UniverseFacts DEF Init, Untouched
<1>4. QED
  BY <1>1, <1>2, <1>3 DEF IInv

(* Appending a record moves the position on and leaves the rows behind it. *)
LEMMA AdvanceStep ==
  ASSUME IInv, Running, NEW record \in Records, Advance(record)
  PROVE  /\ position' \in 1 .. Len(Universe) + 1 /\ position' = position + 1
         /\ records' \in Seq(Records) /\ Len(records') = position' - 1
         /\ position \in 1 .. Len(Universe)
         /\ \A i \in 1 .. position - 1 : records'[i] = records[i]
         /\ records'[position] = record
         /\ status' = status
BY UniverseFacts DEF IInv, TypeOK, PositionInv, Running, Advance

(* The rows of the other rules do not notice what the current one leaves.  *)
LEMMA OtherRows ==
  ASSUME IInv, Running, NEW record \in Records, Advance(record),
         \A r \in Rules \ {Current} :
           made'[r] = made[r] /\ kept'[r] = kept[r] /\ (r \in errs' <=> r \in errs)
  PROVE  /\ \A i \in 1 .. position - 1 : RowInv(i)'
         /\ \A i \in position' .. Len(Universe) : Untouched(i)'
<1>1. position \in 1 .. Len(Universe) /\ position' = position + 1 /\ status' = status
  BY AdvanceStep
<1>2. ASSUME NEW i \in 1 .. Len(Universe), i # position
      PROVE  Universe[i] \in Rules \ {Current}
  BY <1>1, <1>2, UniverseFacts DEF Current
<1>3. ASSUME NEW i \in 1 .. position - 1 PROVE RowInv(i)'
  <2>1. i \in 1 .. Len(Universe) /\ i # position
    BY <1>1, UniverseFacts
  <2>2. records'[i] = records[i]
    BY AdvanceStep
  <2>3. RowInv(i)
    BY DEF IInv
  <2>4. QED
    BY <1>1, <1>2, <2>1, <2>2, <2>3 DEF RowInv
<1>4. ASSUME NEW i \in position' .. Len(Universe) PROVE Untouched(i)'
  <2>1. i \in 1 .. Len(Universe) /\ i # position /\ i \in position .. Len(Universe)
    BY <1>1, UniverseFacts
  <2>2. QED
    BY <1>2, <2>1 DEF IInv, Untouched
<1>5. QED
  BY <1>3, <1>4

(* Together: a step that advances and whose own row holds keeps IInv. *)
LEMMA RowStep ==
  ASSUME IInv, Running, NEW record \in Records, Advance(record), NEW CONSTANT p, p = position,
         kept' \in [Rules -> SUBSET {"valid"}], made' \in [Rules -> SUBSET Findings],
         errs' \subseteq Rules,
         \A r \in Rules \ {Current} :
           made'[r] = made[r] /\ kept'[r] = kept[r] /\ (r \in errs' <=> r \in errs),
         RowInv(p)'
  PROVE  IInv'
<1>1. TypeOK' /\ PositionInv'
  BY AdvanceStep DEF IInv, TypeOK, PositionInv
<1>2. \A i \in 1 .. position - 1 : RowInv(i)'
  BY OtherRows
<1>3. \A i \in position' .. Len(Universe) : Untouched(i)'
  BY OtherRows
<1>4. \A i \in 1 .. position' - 1 : i \in 1 .. position - 1 \/ i = p
  BY AdvanceStep, UniverseFacts
<1>5. \A i \in 1 .. position' - 1 : RowInv(i)'
  BY <1>2, <1>4
<1>6. QED
  BY <1>1, <1>3, <1>5 DEF IInv

(* The row that a step adds, in the terms of the step. *)
LEMMA NewRow ==
  ASSUME NEW CONSTANT p, NEW CONSTANT r, NEW CONSTANT a, NEW CONSTANT st,
         r = Universe[p], records'[p] = Record(r, a, st),
         st = "evaluated" =>
           status'[r] = "evaluable" /\ made'[r] = kept'[r] /\ r \notin errs',
         made'[r] # kept'[r] => st = "failed",
         ~a => /\ status'[r] \in {"not_registered", "not_applicable"}
               /\ made'[r] = kept'[r] /\ r \notin errs'
  PROVE  RowInv(p)'
<1>1. records'[p].rule = r /\ records'[p].applicable = a /\ records'[p].state = st
  BY DEF Record
<1>2. QED
  BY <1>1 DEF RowInv

(* The rule at the position has left no trace yet. *)
LEMMA CurrentUntouched ==
  ASSUME IInv, Running
  PROVE  /\ Current \in Rules /\ Current = Universe[position]
         /\ made[Current] = {} /\ kept[Current] = {} /\ Current \notin errs
BY UniverseFacts DEF IInv, TypeOK, Running, Current, Untouched

LEMMA DismissStep == IInv /\ Dismiss => IInv'
<1> SUFFICES ASSUME IInv, Dismiss PROVE IInv'
  OBVIOUS
<1> DEFINE record == Record(Current, FALSE, "not_evaluated")
<1>1. Running /\ Advance(record) /\ UNCHANGED <<kept, errs, made>>
  BY DEF Dismiss
<1>2. record \in Records
  BY <1>1, CurrentUntouched DEF Record, Records, States
<1>3. PICK p, r : p = position /\ r = Current
  OBVIOUS
<1>4. RowInv(p)'
  <2>1. /\ r = Universe[p] /\ records'[p] = Record(r, FALSE, "not_evaluated")
        /\ status' = status
    BY <1>1, <1>2, <1>3, AdvanceStep, CurrentUntouched
  <2>2. /\ status'[r] \in {"not_registered", "not_applicable"}
        /\ made'[r] = kept'[r] /\ r \notin errs'
    BY <1>1, <1>3, <2>1, CurrentUntouched DEF Dismiss
  <2>3. QED
    BY <2>1, <2>2, NewRow
<1>5. QED
  BY <1>1, <1>2, <1>3, <1>4, RowStep DEF IInv, TypeOK

LEMMA WithholdStep == IInv /\ Withhold => IInv'
<1> SUFFICES ASSUME IInv, Withhold PROVE IInv'
  OBVIOUS
<1> DEFINE record == Record(Current, TRUE, "insufficient_evidence")
<1>1. Running /\ Advance(record) /\ UNCHANGED <<kept, errs, made>>
  BY DEF Withhold
<1>2. record \in Records
  BY <1>1, CurrentUntouched DEF Record, Records, States
<1>3. PICK p, r : p = position /\ r = Current
  OBVIOUS
<1>4. RowInv(p)'
  <2>1. r = Universe[p] /\ records'[p] = Record(r, TRUE, "insufficient_evidence")
    BY <1>1, <1>2, <1>3, AdvanceStep, CurrentUntouched
  <2>2. made'[r] = kept'[r]
    BY <1>1, <1>3, CurrentUntouched
  <2>3. QED
    BY <2>1, <2>2, NewRow
<1>5. QED
  BY <1>1, <1>2, <1>3, <1>4, RowStep DEF IInv, TypeOK

LEMMA EvaluateStep ==
  ASSUME IInv, NEW found \in SUBSET Findings, NEW fails \in BOOLEAN, NEW panics \in BOOLEAN,
         Evaluate(found, fails, panics)
  PROVE  IInv'
<1> DEFINE failed == Failed(found, fails, panics)
           record == Record(Current, TRUE, StateOf(Current, failed))
<1>1. /\ Running /\ Advance(record)
      /\ made' = [made EXCEPT ![Current] = found]
      /\ kept' = [kept EXCEPT ![Current] = Kept(found, panics)]
      /\ errs' = IF failed THEN errs \cup {Current} ELSE errs
      /\ status[Current] \in {"insufficient_evidence", "evaluable"}
  BY DEF Evaluate
<1>2. Current \in Rules /\ Current = Universe[position] /\ Current \notin errs
  BY <1>1, CurrentUntouched
<1>3. StateOf(Current, failed) \in States
  BY DEF StateOf, States
<1>4. record \in Records
  BY <1>2, <1>3 DEF Record, Records
<1>5. Kept(found, panics) \in SUBSET {"valid"}
  BY DEF Kept
<1>6. /\ made'[Current] = found /\ kept'[Current] = Kept(found, panics)
      /\ kept' \in [Rules -> SUBSET {"valid"}] /\ made' \in [Rules -> SUBSET Findings]
      /\ errs' \subseteq Rules
      /\ \A r \in Rules \ {Current} :
           made'[r] = made[r] /\ kept'[r] = kept[r] /\ (r \in errs' <=> r \in errs)
  BY <1>1, <1>2, <1>5 DEF IInv, TypeOK
<1>7. failed => StateOf(Current, failed) = "failed"
  BY DEF StateOf
<1>8. ~failed => found = Kept(found, panics)
  BY DEF Failed, Kept, Returned, Findings
<1>9. StateOf(Current, failed) = "evaluated" => ~failed /\ status[Current] = "evaluable"
  BY <1>1 DEF StateOf
<1>10. PICK p, r : p = position /\ r = Current
  OBVIOUS
<1>11. RowInv(p)'
  <2> DEFINE st == StateOf(Current, failed)
  <2>1. r = Universe[p] /\ records'[p] = Record(r, TRUE, st) /\ status' = status
    BY <1>1, <1>2, <1>4, <1>10, AdvanceStep
  <2>2. st = "evaluated" =>
          status'[r] = "evaluable" /\ made'[r] = kept'[r] /\ r \notin errs'
    BY <1>1, <1>2, <1>6, <1>8, <1>9, <1>10, <2>1
  <2>3. made'[r] # kept'[r] => st = "failed"
    BY <1>6, <1>7, <1>8, <1>10
  <2> HIDE DEF st
  <2>4. QED
    BY <2>1, <2>2, <2>3, NewRow
<1>12. QED
  BY <1>1, <1>4, <1>6, <1>10, <1>11, RowStep

LEMMA StutterStep == IInv /\ UNCHANGED vars => IInv'
BY DEF IInv, TypeOK, PositionInv, RowInv, Untouched, vars

(* The inductive invariant holds in every reachable state of the loop.     *)
THEOREM Invariance == Spec => []IInv
<1>1. IInv /\ [Next]_vars => IInv'
  BY DismissStep, WithholdStep, EvaluateStep, StutterStep DEF Next
<1>2. QED
  BY <1>1, InitIInv, PTL DEF Spec

(* Once the loop is over there is exactly one record per rule, in order.   *)
THEOREM EveryRuleRecorded == Spec => []EveryRuleIsRecorded
<1>1. ASSUME IInv, ~Running PROVE [i \in DOMAIN records |-> records[i].rule] = Universe
  <2>1. position = Len(Universe) + 1 /\ Len(records) = Len(Universe)
    BY <1>1, UniverseFacts DEF IInv, TypeOK, Running, PositionInv
  <2>2. DOMAIN records = DOMAIN Universe
    BY <1>1, <2>1, UniverseFacts DEF IInv, TypeOK
  <2>3. ASSUME NEW i \in DOMAIN Universe PROVE records[i].rule = Universe[i]
    <3>1. i \in 1 .. position - 1
      BY <2>1, UniverseFacts
    <3>2. RowInv(i)
      BY <1>1, <3>1 DEF IInv
    <3>3. QED
      BY <3>2 DEF RowInv
  <2>4. Universe = [i \in DOMAIN Universe |-> Universe[i]]
    BY UniverseAssumption
  <2>5. QED
    BY <2>2, <2>3, <2>4
<1>2. IInv => EveryRuleIsRecorded
  BY <1>1 DEF EveryRuleIsRecorded
<1>3. QED
  BY <1>2, Invariance, PTL

LEMMA RecordsDomain == IInv => DOMAIN records = 1 .. position - 1 /\ position \in Nat
BY UniverseFacts DEF IInv, TypeOK, PositionInv

(* Rules behind the position have a row; those ahead have left no trace.   *)
LEMMA RuleRows ==
  ASSUME IInv, NEW r \in Rules
  PROVE  \/ \E i \in DOMAIN records : records[i].rule = r /\ r = Universe[i] /\ RowInv(i)
         \/ Running /\ made[r] = {} /\ kept[r] = {} /\ r \notin errs
<1>1. PICK i \in 1 .. Len(Universe) : r = Universe[i]
  BY UniverseFacts
<1>2. DOMAIN records = 1 .. position - 1 /\ position \in Nat
  BY RecordsDomain
<1>3. CASE i < position
  <2>1. i \in 1 .. position - 1
    BY <1>2, <1>3
  <2>2. RowInv(i)
    BY <2>1 DEF IInv
  <2>3. records[i].rule = r
    BY <1>1, <2>2 DEF RowInv
  <2>4. QED
    BY <1>1, <1>2, <2>1, <2>2, <2>3
<1>4. CASE i >= position
  <2>1. i \in position .. Len(Universe) /\ Running
    BY <1>1, <1>2, <1>4, UniverseFacts DEF Running
  <2>2. Untouched(i)
    BY <2>1 DEF IInv
  <2>3. QED
    BY <1>1, <2>1, <2>2 DEF Untouched
<1>5. QED
  BY <1>2, <1>3, <1>4

(* A finding that a rule made and the result lost is owned up to by the    *)
(* record of that rule.                                                    *)
THEOREM LostConfessed == Spec => []LostFindingsAreConfessed
<1>1. IInv => LostFindingsAreConfessed
  BY RuleRows DEF LostFindingsAreConfessed, RowInv
<1>2. QED
  BY <1>1, Invariance, PTL

(* What the rows and the coverage say at any moment of the loop. *)
LEMMA CleanRows == IInv => CleanIsEarned
<1>1. ASSUME IInv, NEW i \in DOMAIN records,
             RuleOutcome(records[i], kept[records[i].rule]) = "No issue detected"
      PROVE  LET r == records[i].rule
             IN  made[r] = {} /\ r \notin errs /\ status[r] = "evaluable"
  <2>1. records[i].state = "evaluated" /\ kept[records[i].rule] = {}
    BY <1>1 DEF RuleOutcome
  <2>2. i \in 1 .. position - 1
    BY <1>1, RecordsDomain
  <2>3. RowInv(i)
    BY <1>1, <2>2 DEF IInv
  <2>4. QED
    BY <2>1, <2>3 DEF RowInv
<1>2. ASSUME IInv, ~Running, EvaluationCoverage = "complete"
      PROVE  /\ errs = {} /\ made = kept
             /\ \A r \in Rules : status[r] \in {"not_registered", "not_applicable", "evaluable"}
  <2>1. \A i \in DOMAIN records : records[i].applicable => records[i].state = "evaluated"
    BY <1>2 DEF EvaluationCoverage, Applicable
  <2>2. ASSUME NEW r \in Rules
        PROVE  /\ r \notin errs /\ made[r] = kept[r]
               /\ status[r] \in {"not_registered", "not_applicable", "evaluable"}
    BY <1>2, <2>1, RuleRows DEF RowInv
  <2>3. errs = {}
    BY <1>2, <2>2 DEF IInv, TypeOK
  <2>4. made = kept
    BY <1>2, <2>2 DEF IInv, TypeOK
  <2>5. QED
    BY <2>2, <2>3, <2>4
<1>3. ASSUME IInv, NEW row \in Rows, row.outcome = "No issue detected"
      PROVE  made[row.rule] = {} /\ row.rule \notin errs /\ status[row.rule] = "evaluable"
  <2>1. PICK i \in DOMAIN records :
          row = [rule |-> records[i].rule,
                 outcome |-> RuleOutcome(records[i], kept[records[i].rule])]
    BY DEF Rows
  <2>2. row.rule = records[i].rule /\ row.outcome = RuleOutcome(records[i], kept[records[i].rule])
    BY <2>1
  <2>3. QED
    BY <1>1, <1>3, <2>2
<1>4. QED
  BY <1>2, <1>3 DEF CleanIsEarned

(* A row that reads "No issue detected" and coverage that reads complete   *)
(* are earned.                                                             *)
THEOREM CleanEarned == Spec => []CleanIsEarned
BY CleanRows, Invariance, PTL
-----------------------------------------------------------------------------
(* No collector call of a plane that is not there can have failed, and the *)
(* drain rules' clusters are of the assumed kind.                          *)
EvidenceInv ==
  /\ rule \in AllRuleIDs
  /\ mode \in Modes
  /\ facts \in Facts
  /\ cluster \in Clusters \cup {NoCluster}
  /\ errors \subseteq Keys
  /\ \A key \in errors : mode[Plane(key)] = "present"

LEMMA EvidenceInitInv == EvidenceInit => EvidenceInv
<1>1. NoFacts \in Facts
  BY DEF NoFacts, Facts
<1>2. QED
  BY <1>1 DEF EvidenceInit, EvidenceInv

LEMMA EvidenceNextInv == EvidenceInv /\ [Fail]_evidenceVars => EvidenceInv'
<1> SUFFICES ASSUME EvidenceInv, [Fail]_evidenceVars PROVE EvidenceInv'
  OBVIOUS
<1>1. CASE Fail
  <2>1. \A key : Plane(key)' = Plane(key)
    BY DEF Plane
  <2>2. PICK key \in Keys \ errors : mode[Plane(key)] = "present" /\ errors' = errors \cup {key}
    BY <1>1 DEF Fail
  <2>3. UNCHANGED <<rule, mode, facts, cluster>>
    BY <1>1 DEF Fail
  <2>4. QED
    BY <2>1, <2>2, <2>3 DEF EvidenceInv
<1>2. CASE UNCHANGED evidenceVars
  BY <1>2 DEF evidenceVars, EvidenceInv
<1>3. QED
  BY <1>1, <1>2

(* However many collector calls fail, of any planes. *)
THEOREM EvidenceInvariance == EvidenceSpec => []EvidenceInv
BY EvidenceInitInv, EvidenceNextInv, PTL DEF EvidenceSpec
-----------------------------------------------------------------------------
LEMMA PlaneOfKeys ==
  /\ \A key \in K8sKeys : Plane(key) = "kubernetes"
  /\ \A key \in AwsKeys : Plane(key) = "aws"
  /\ Plane("manifests") = "manifests"
BY DEF Plane, K8sKeys, AwsKeys, VWC, MWC, CRDs

(* What the three planes may be. *)
LEMMA ModeIs ==
  ASSUME mode \in Modes
  PROVE  /\ mode["kubernetes"] \in {"off", "absent", "present"}
         /\ mode["aws"] \in {"off", "absent", "present"}
         /\ mode["manifests"] \in {"off", "present"}
         /\ mode["kubernetes"] = "off" => mode["aws"] = "off" /\ mode["manifests"] = "present"
BY DEF Modes

(* What makes a rule evaluable is what dependencyState says of each key    *)
(* that it declares.                                                       *)
LEMMA EvaluableDeps ==
  ASSUME NEW r, RuleStatus(r) = "evaluable", NEW key \in Declared(r)
  PROVE  mode[Plane(key)] # "absent" /\ (mode[Plane(key)] # "off" => key \notin errors)
<1>1. DependencyState(key) \notin {"missing", "partial"}
  BY DEF RuleStatus
<1>2. QED
  BY <1>1 DEF DependencyState

Static == AllRuleIDs \ ContextRules

LEMMA StaticReads ==
  ASSUME NEW r \in Static
  PROVE  Reads(r) \ {"manifests"} \subseteq Declared(r)
BY DEF Static, AllRuleIDs, ContextRules, Reads, Declared, ManifestRules, WebhookRules, AddonRules,
       NodegroupRules, InsightRules, DRAIN003Reads, NODE003Reads, AddonReads

LEMMA ContextDeclares ==
  /\ Declared("WH-002") = WH002Deps /\ Reads("WH-002") = WH002Reads
  /\ Declared("DRAIN-001") = DRAIN001Deps /\ Reads("DRAIN-001") = DRAIN001Reads
  /\ Declared("CRD-002") = CRD002Deps /\ Reads("CRD-002") = CRD002Reads
BY DEF Reads, Declared, ManifestRules, WebhookRules, AddonRules, NodegroupRules, InsightRules

(* The rules whose dependencies depend on the evidence declare, as long as *)
(* the lists they start from are there, all that they then go on to read.  *)
LEMMA ContextReads ==
  ASSUME NEW r \in ContextRules, mode["kubernetes"] = "present", RuleStatus(r) = "evaluable"
  PROVE  Reads(r) \ {"manifests"} \subseteq Declared(r)
<1>1. \A key \in Declared(r) \cap K8sKeys : key \notin errors
  BY EvaluableDeps, PlaneOfKeys
<1>2. CASE r = "WH-002"
  <2>1. VWC \in Declared(r) \cap K8sKeys /\ MWC \in Declared(r) \cap K8sKeys
    BY <1>2, ContextDeclares DEF WH002Deps, K8sKeys
  <2>2. HaveK8s /\ {VWC, MWC} \cap errors = {}
    BY <1>1, <2>1 DEF HaveK8s
  <2>3. QED
    BY <1>2, <2>2, ContextDeclares DEF WH002Deps, WH002Reads
<1>3. CASE r = "DRAIN-001"
  <2>1. "deployments" \in Declared(r) \cap K8sKeys /\ "statefulsets" \in Declared(r) \cap K8sKeys
    BY <1>3, ContextDeclares DEF DRAIN001Deps, K8sKeys
  <2>2. HaveK8s /\ {"deployments", "statefulsets"} \cap errors = {}
    BY <1>1, <2>1 DEF HaveK8s
  <2>3. QED
    BY <1>3, <2>2, ContextDeclares DEF DRAIN001Deps, DRAIN001Reads
<1>4. CASE r = "CRD-002"
  <2>1. CRDs \in Declared(r) \cap K8sKeys
    BY <1>4, ContextDeclares DEF CRD002Deps, K8sKeys
  <2>2. HaveK8s /\ CRDs \notin errors
    BY <1>1, <2>1 DEF HaveK8s
  <2>3. QED
    BY <1>4, <2>2, ContextDeclares DEF CRD002Deps, CRD002Reads
<1>5. QED
  BY <1>2, <1>3, <1>4 DEF ContextRules

(* They start from lists of the cluster, and read nothing of AWS. *)
LEMMA ContextRulesNeedCluster ==
  ASSUME NEW r \in ContextRules
  PROVE  /\ \E key \in Declared(r) : Plane(key) = "kubernetes"
         /\ \A key \in Reads(r) \ {"manifests"} : Plane(key) = "kubernetes"
<1>1. /\ VWC \in WH002Deps \cap K8sKeys /\ CRDs \in CRD002Deps \cap K8sKeys
      /\ "deployments" \in DRAIN001Deps \cap K8sKeys
  BY DEF WH002Deps, CRD002Deps, DRAIN001Deps, K8sKeys
<1>2. /\ WH002Reads \subseteq K8sKeys /\ CRD002Reads \subseteq K8sKeys
      /\ DRAIN001Reads \ {"manifests"} \subseteq K8sKeys
  BY DEF WH002Reads, CRD002Reads, DRAIN001Reads, K8sKeys
<1>3. QED
  BY <1>1, <1>2, ContextDeclares, PlaneOfKeys DEF ContextRules

(* A rule is recorded as evaluated only on live evidence that was          *)
(* collected, for all 31 rules, whatever was lost (rule.go,                *)
(* evaluateRuleDependencies).                                              *)
THEOREM EvaluatedSafety == EvidenceSpec => []EvaluatedOnLiveEvidence
<1>1. ASSUME EvidenceInv, RuleStatus(rule) = "evaluable",
             NEW key \in Reads(rule) \ {"manifests"}, mode[Plane(key)] # "off"
      PROVE  mode[Plane(key)] = "present" /\ key \notin errors
  <2>1. key \in Declared(rule)
    <3>1. CASE rule \in Static
      BY <3>1, StaticReads
    <3>2. CASE rule \in ContextRules
      <4>1. mode["kubernetes"] # "off"
        BY <1>1, <3>2, ContextRulesNeedCluster
      <4>2. mode["kubernetes"] # "absent"
        BY <1>1, <3>2, ContextRulesNeedCluster, EvaluableDeps
      <4>3. mode["kubernetes"] = "present"
        BY <1>1, <4>1, <4>2, ModeIs DEF EvidenceInv
      <4>4. QED
        BY <1>1, <3>2, <4>3, ContextReads
    <3>3. QED
      BY <1>1, <3>1, <3>2 DEF EvidenceInv, Static
  <2>2. mode[Plane(key)] # "absent" /\ key \notin errors
    BY <1>1, <2>1, EvaluableDeps
  <2>3. mode[Plane(key)] \in {"off", "absent", "present"}
    <3>1. Plane(key) \in {"kubernetes", "aws", "manifests"}
      BY DEF Plane
    <3>2. QED
      BY <1>1, <3>1, ModeIs DEF EvidenceInv
  <2>4. QED
    BY <1>1, <2>2, <2>3
<1>2. EvidenceInv => EvaluatedOnLiveEvidence
  BY <1>1 DEF EvaluatedOnLiveEvidence
<1>3. QED
  BY <1>2, EvidenceInvariance, PTL

(* The rules that can be not applicable speak of AWS only. *)
AwsOnlyRules == {"NODE-002", "NET-002"} \cup NodegroupRules \cup InsightRules

LEMMA DeclaresCluster ==
  ASSUME NEW r \in AllRuleIDs \ (AwsOnlyRules \cup ManifestRules)
  PROVE  \E key \in Declared(r) : key \in K8sKeys
<1>1. CASE r \in ContextRules
  BY <1>1, ContextDeclares
     DEF ContextRules, WH002Deps, DRAIN001Deps, CRD002Deps, K8sKeys
<1>2. CASE r \in {"NODE-001", "NODE-003", "WORKLOAD-001", "PDB-001", "PDB-002"}
  BY <1>2
     DEF Declared, ManifestRules, WebhookRules, AddonRules, NodegroupRules, InsightRules, K8sKeys
<1>3. CASE r \in {"DRAIN-002", "DRAIN-003", "DRAIN-004", "DRAIN-005"}
  BY <1>3
     DEF Declared, ManifestRules, WebhookRules, AddonRules, NodegroupRules, InsightRules, K8sKeys
<1>4. CASE r \in {"COREDNS-001", "CRD-001", "APISERVICE-001"} \cup WebhookRules \cup AddonRules
  BY <1>4
     DEF Declared, ManifestRules, WebhookRules, AddonRules, NodegroupRules, InsightRules, K8sKeys
<1>5. QED
  BY <1>1, <1>2, <1>3, <1>4 DEF AllRuleIDs, AwsOnlyRules

LEMMA AwsOnlyReads ==
  ASSUME NEW r \in AwsOnlyRules
  PROVE  Reads(r) = Declared(r)
BY DEF AwsOnlyRules, Reads, Declared, ManifestRules, WebhookRules, AddonRules, NodegroupRules,
       InsightRules

LEMMA ManifestRulesDeclare ==
  ASSUME NEW r \in ManifestRules
  PROVE  "manifests" \in Declared(r) /\ "deprecated-api:" \in Declared(r)
BY DEF Declared, ManifestRules, WebhookRules, AddonRules, NodegroupRules, InsightRules

(* A rule is dismissed as not applicable only if the scan was asked for    *)
(* nothing that it reads, for all 31 rules.                                *)
THEOREM DismissalSafety == EvidenceSpec => []DismissedOnlyIfNothingToRead
<1>1. ASSUME EvidenceInv, RuleStatus(rule) = "not_applicable",
             NEW key \in Reads(rule)
      PROVE  mode[Plane(key)] = "off"
  <2>1. \A k \in Declared(rule) : mode[Plane(k)] = "off"
    BY <1>1 DEF RuleStatus, DependencyState
  <2>2. rule \in Registered
    BY <1>1 DEF RuleStatus
  <2>3. rule \notin ManifestRules
    <3>1. SUFFICES ASSUME rule \in ManifestRules PROVE FALSE
      OBVIOUS
    <3>2. mode["manifests"] = "off" /\ mode["kubernetes"] = "off"
      BY <2>1, <3>1, ManifestRulesDeclare, PlaneOfKeys DEF K8sKeys
    <3>3. QED
      BY <1>1, <3>2, ModeIs DEF EvidenceInv
  <2>4. rule \in AwsOnlyRules
    <3>1. SUFFICES ASSUME rule \notin AwsOnlyRules PROVE FALSE
      OBVIOUS
    <3>2. mode["kubernetes"] = "off"
      BY <1>1, <2>1, <2>3, <3>1, DeclaresCluster, PlaneOfKeys DEF EvidenceInv
    <3>3. QED
      BY <2>2, <2>3, <3>2 DEF Registered
  <2>5. QED
    BY <2>1, <2>4, AwsOnlyReads
<1>2. EvidenceInv => DismissedOnlyIfNothingToRead
  BY <1>1 DEF DismissedOnlyIfNothingToRead
<1>3. QED
  BY <1>2, EvidenceInvariance, PTL
-----------------------------------------------------------------------------
(* Losing evidence changes what a rule declares only when it takes away    *)
(* something that the rule had declared.                                   *)
LEMMA StaticDeclared == \A r \in Static : Declared(r)' = Declared(r)
BY DEF Static, AllRuleIDs, ContextRules, Declared, ManifestRules, WebhookRules, AddonRules,
       NodegroupRules, InsightRules

LEMMA ContextDeclaresNext ==
  /\ Declared("WH-002")' = WH002Deps'
  /\ Declared("DRAIN-001")' = DRAIN001Deps'
  /\ Declared("CRD-002")' = CRD002Deps'
BY DEF Declared, ManifestRules, WebhookRules, AddonRules, NodegroupRules, InsightRules

LEMMA PlaneNext == \A key : Plane(key)' = Plane(key)
BY DEF Plane

LEMMA EvaluableDepsNext ==
  ASSUME RuleStatus(rule)' = "evaluable", NEW key \in Declared(rule)'
  PROVE  mode[Plane(key)]' # "absent" /\ (mode[Plane(key)]' # "off" => key \notin errors')
<1>1. DependencyState(key)' \notin {"missing", "partial"}
  BY DEF RuleStatus
<1>2. QED
  BY <1>1 DEF DependencyState

LEMMA ContextStep ==
  ASSUME facts \in Facts, errors \subseteq errors', UNCHANGED <<rule, mode, facts>>,
         rule \in ContextRules, RuleStatus(rule)' = "evaluable"
  PROVE  Declared(rule)' = Declared(rule)
<1>1. HaveK8s' = HaveK8s
  BY DEF HaveK8s
<1>2. HaveK8s => \A key \in Declared(rule)' \cap K8sKeys : key \notin errors'
  <2>1. SUFFICES ASSUME mode["kubernetes"] = "present", NEW key \in Declared(rule)', key \in K8sKeys
                 PROVE  key \notin errors'
    BY DEF HaveK8s
  <2>2. mode[Plane(key)]' = "present"
    BY <2>1, PlaneNext, PlaneOfKeys
  <2>3. QED
    BY <2>1, <2>2, EvaluableDepsNext
<1>3. CASE rule = "WH-002"
  <2>1. Declared(rule)' = WH002Deps' /\ Declared(rule) = WH002Deps
    BY <1>3, ContextDeclares, ContextDeclaresNext
  <2>2. CASE ~HaveK8s
    BY <2>1, <2>2, <1>1 DEF WH002Deps
  <2>3. CASE HaveK8s
    <3>1. {VWC, MWC} \cap errors' = {} /\ {VWC, MWC} \cap errors = {}
      BY <1>2, <2>1, <2>3 DEF WH002Deps, K8sKeys
    <3>2. WebhookServiceReferencePresent' <=> WebhookServiceReferencePresent
      BY <3>1 DEF WebhookServiceReferencePresent, Facts
    <3>3. CASE ~WebhookServiceReferencePresent
      BY <2>1, <3>2, <3>3 DEF WH002Deps
    <3>4. CASE WebhookServiceReferencePresent
      <4>1. "services" \notin errors'
        BY <1>1, <1>2, <2>1, <2>3, <3>1, <3>2, <3>4 DEF WH002Deps, K8sKeys
      <4>2. ServiceObserved' <=> ServiceObserved
        BY <4>1 DEF ServiceObserved
      <4>3. QED
        BY <1>1, <2>1, <2>3, <3>1, <3>2, <4>2 DEF WH002Deps
    <3>5. QED
      BY <3>3, <3>4
  <2>4. QED
    BY <2>2, <2>3
<1>4. CASE rule = "DRAIN-001"
  <2>1. Declared(rule)' = DRAIN001Deps' /\ Declared(rule) = DRAIN001Deps
    BY <1>4, ContextDeclares, ContextDeclaresNext
  <2>2. CASE ~HaveK8s
    BY <2>1, <2>2, <1>1 DEF DRAIN001Deps
  <2>3. CASE HaveK8s
    <3>1. /\ {"deployments", "statefulsets"} \cap errors' = {}
          /\ {"deployments", "statefulsets"} \cap errors = {}
      BY <1>2, <2>1, <2>3 DEF DRAIN001Deps, K8sKeys
    <3>2. QED
      BY <1>1, <2>1, <3>1 DEF DRAIN001Deps
  <2>4. QED
    BY <2>2, <2>3
<1>5. CASE rule = "CRD-002"
  <2>1. Declared(rule)' = CRD002Deps' /\ Declared(rule) = CRD002Deps
    BY <1>5, ContextDeclares, ContextDeclaresNext
  <2>2. CASE ~HaveK8s \/ ~facts.crdRef
    BY <2>1, <2>2, <1>1 DEF CRD002Deps
  <2>3. CASE HaveK8s /\ facts.crdRef
    <3>1. CRDs \notin errors' /\ CRDs \notin errors
      BY <1>2, <2>1, <2>3 DEF CRD002Deps, K8sKeys
    <3>2. "services" \notin errors'
      BY <1>1, <1>2, <2>1, <2>3, <3>1 DEF CRD002Deps, K8sKeys
    <3>3. ServiceObserved' <=> ServiceObserved
      BY <3>2 DEF ServiceObserved
    <3>4. QED
      BY <1>1, <2>1, <2>3, <3>1, <3>3 DEF CRD002Deps
  <2>4. QED
    BY <2>2, <2>3
<1>6. QED
  BY <1>3, <1>4, <1>5 DEF ContextRules

(* Losing evidence never makes a rule's answer look better founded: not    *)
(* even where the dependencies depend on the evidence that is left         *)
(* (EvidenceDependenciesFor of WH-002, DRAIN-001 and CRD-002).             *)
THEOREM LossNeverHelps == EvidenceSpec => LosingEvidenceNeverHelps
<1>1. ASSUME EvidenceInv, Fail, RuleStatus(rule)' = "evaluable"
      PROVE  RuleStatus(rule) = "evaluable"
  <2>1. errors \subseteq errors' /\ UNCHANGED <<rule, mode, facts>>
    BY <1>1 DEF Fail
  <2>2. Declared(rule)' = Declared(rule)
    <3>1. CASE rule \in ContextRules
      BY <1>1, <2>1, <3>1, ContextStep DEF EvidenceInv
    <3>2. CASE rule \in Static
      <4>1. \A r : r = rule => Declared(r)' = Declared(rule)'
        BY <2>1
      <4>2. QED
        BY <2>1, <3>2, <4>1, StaticDeclared
    <3>3. QED
      BY <1>1, <3>1, <3>2 DEF EvidenceInv, Static
  <2>3. \A key \in Declared(rule) :
          /\ DependencyState(key)' \notin {"missing", "partial"}
          /\ DependencyState(key) \in {DependencyState(key)', "available"}
          /\ DependencyState(key) = "notApplicable" => DependencyState(key)' = "notApplicable"
    <3>1. \A key \in Declared(rule)' : DependencyState(key)' \notin {"missing", "partial"}
      BY <1>1 DEF RuleStatus
    <3>2. \A key : DependencyState(key)' \notin {"missing", "partial"} =>
             /\ DependencyState(key) \in {DependencyState(key)', "available"}
             /\ DependencyState(key) = "notApplicable" => DependencyState(key)' = "notApplicable"
      BY <2>1, PlaneNext DEF DependencyState
    <3>3. QED
      BY <2>2, <3>1, <3>2
  <2>4. /\ rule \in Registered
        /\ ~(\A key \in Declared(rule) : DependencyState(key)' = "notApplicable")
    <3>1. /\ (rule \in Registered)'
          /\ ~(\A key \in Declared(rule)' : DependencyState(key)' = "notApplicable")
      BY <1>1 DEF RuleStatus
    <3>2. Registered' = Registered
      BY <2>1 DEF Registered
    <3>3. QED
      BY <2>1, <2>2, <3>1, <3>2
  <2>5. ~(\A key \in Declared(rule) : DependencyState(key) = "notApplicable")
    BY <2>3, <2>4
  <2>6. \A key \in Declared(rule) : DependencyState(key) \notin {"missing", "partial"}
    BY <2>3
  <2>7. QED
    BY <2>4, <2>5, <2>6 DEF RuleStatus
<1>2. ASSUME UNCHANGED evidenceVars
      PROVE  RuleStatus(rule)' = RuleStatus(rule)
  <2>1. UNCHANGED <<rule, mode, facts, errors>>
    BY <1>2 DEF evidenceVars
  <2>2. Declared(rule)' = Declared(rule)
    BY <2>1 DEF Declared, WH002Deps, DRAIN001Deps, CRD002Deps, HaveK8s,
                WebhookServiceReferencePresent, ServiceObserved
  <2>3. \A key : DependencyState(key)' = DependencyState(key)
    BY <2>1, PlaneNext DEF DependencyState
  <2>4. Registered' = Registered
    BY <2>1 DEF Registered
  <2>5. QED
    BY <2>1, <2>2, <2>3, <2>4 DEF RuleStatus
<1>3. EvidenceInv /\ [Fail]_evidenceVars
        => [RuleStatus(rule) # "evaluable" => RuleStatus(rule)' # "evaluable"]_evidenceVars
  BY <1>1
<1>4. QED
  BY <1>3, EvidenceInvariance, PTL DEF EvidenceSpec, LosingEvidenceNeverHelps
-----------------------------------------------------------------------------
ClusterOf(ctx, ws, ns, ps, cs, vs) ==
  [context |-> ctx, workloads |-> ws, nodes |-> ns, pods |-> ps, claims |-> cs, volumes |-> vs]

(* What is assumed of the clusters holds of no cluster too. *)
LEMMA ClusterIs ==
  ASSUME EvidenceInv
  PROVE  /\ cluster = ClusterOf(cluster.context, cluster.workloads, cluster.nodes, cluster.pods,
                                cluster.claims, cluster.volumes)
         /\ IsFiniteSet(cluster.nodes) /\ IsFiniteSet(DOMAIN cluster.pods)
         /\ \A n \in cluster.nodes : n.name # NoNode /\ \A r \in Resources : n.room[r] \in Nat
         /\ \A k \in DOMAIN cluster.pods : \A r \in Resources : cluster.pods[k].asks[r] \in Nat
<1>1. CASE cluster \in Clusters
  BY <1>1, ClustersAssumption DEF ClusterOf
<1>2. CASE cluster = NoCluster
  <2>1. /\ cluster.nodes = {} /\ cluster.pods = <<>>
        /\ cluster = ClusterOf(cluster.context, cluster.workloads, cluster.nodes, cluster.pods,
                               cluster.claims, cluster.volumes)
    BY <1>2 DEF NoCluster, ClusterOf
  <2>2. DOMAIN cluster.pods = {}
    BY <2>1
  <2>3. QED
    BY <2>1, <2>2, FS_EmptySet
<1>3. QED
  BY <1>1, <1>2 DEF EvidenceInv

LEMMA SeenIs ==
  ASSUME EvidenceInv
  PROVE  /\ Seen.context = cluster.context
         /\ Seen.workloads \subseteq cluster.workloads
         /\ Seen.nodes = IF "nodes" \in errors THEN {} ELSE cluster.nodes
         /\ Seen.pods = IF "pods" \in errors THEN <<>> ELSE cluster.pods
         /\ Seen.claims = IF "persistentvolumeclaims" \in errors THEN <<>> ELSE cluster.claims
         /\ Seen.volumes = IF "persistentvolumes" \in errors THEN <<>> ELSE cluster.volumes
<1> DEFINE c == ClusterOf(cluster.context, cluster.workloads, cluster.nodes, cluster.pods,
                          cluster.claims, cluster.volumes)
<1>1. cluster = c
  BY ClusterIs
<1>2. Seen = [c EXCEPT
     !.workloads = {w \in @ : w.kind \notin errors},
     !.nodes     = IF "nodes" \in errors THEN {} ELSE @,
     !.pods      = IF "pods" \in errors THEN <<>> ELSE @,
     !.claims    = IF "persistentvolumeclaims" \in errors THEN <<>> ELSE @,
     !.volumes   = IF "persistentvolumes" \in errors THEN <<>> ELSE @]
  BY <1>1 DEF Seen
<1>3. QED
  BY <1>2 DEF ClusterOf

LEMMA NoNodesNoneIn ==
  ASSUME EvidenceInv, Seen.nodes # {}
  PROVE  Seen.nodes = cluster.nodes /\ "nodes" \notin errors
BY SeenIs

(* With no pods seen, no node is known to run one. *)
LEMMA RunningNodeIs ==
  ASSUME EvidenceInv, NEW w, RunningNode(Seen, w) # NoNode
  PROVE  RunningNode(Seen, w) = RunningNode(cluster, w)
<1>1. "pods" \notin errors
  <2>1. SUFFICES ASSUME "pods" \in errors PROVE FALSE
    OBVIOUS
  <2>2. DOMAIN Seen.pods = {}
    BY <2>1, SeenIs
  <2>3. QED
    BY <2>2 DEF RunningNode
<1>2. QED
  BY <1>1, SeenIs DEF RunningNode

LEMMA SevereSeenIsSevere ==
  ASSUME EvidenceInv, NEW w, NEW node, PresentSevereRisk(Seen, w, node)
  PROVE  PresentSevereRisk(cluster, w, node)
BY NoNodesNoneIn DEF PresentSevereRisk

LEMMA PinnedIs ==
  ASSUME EvidenceInv, NEW w, Pinned(Seen, w) # {}
  PROVE  Pinned(Seen, w) = Pinned(cluster, w) /\ PinnedNodes(Seen, w) = PinnedNodes(cluster, w)
<1>1. DOMAIN Seen.claims # {} /\ DOMAIN Seen.volumes # {}
  BY DEF Pinned
<1>2. DOMAIN <<>> = {}
  OBVIOUS
<1>3. Seen.claims = cluster.claims /\ Seen.volumes = cluster.volumes
  BY <1>1, <1>2, SeenIs
<1>4. QED
  BY <1>3 DEF Pinned, PinnedNodes

(* DRAIN-002: what is severe rests on a node and, if a pod has to be       *)
(* found, on the pods; what is pinned rests on both lists of volumes.      *)
Severity(see, severe) == IF severe THEN DrainGate(see.context) ELSE "warning"

LEMMA Drain002Is ==
  ASSUME NEW see
  PROVE  Drain002(see) =
           {Drain(w.name, "hostpath",
                  Severity(see, PresentSevereRisk(see, w, RunningNode(see, w)))) :
              w \in {x \in see.workloads : x.hostPath}}
           \cup {Drain(w.name, "local-pv",
                       Severity(see, \E n \in PinnedNodes(see, w) : PresentSevereRisk(see, w, n))) :
                   w \in {x \in see.workloads : Pinned(see, x) # {}}}
BY Zenon DEF Drain002, Severity

LEMMA Graver ==
  ASSUME NEW s, NEW c, s.context = c.context, NEW on, NEW check,
         NEW p \in BOOLEAN, NEW q \in BOOLEAN, p => q
  PROVE  AsGrave(Drain(on, check, Severity(s, p)), Drain(on, check, Severity(c, q)))
BY DEF AsGrave, Drain, Severity

LEMMA Drain002Loses ==
  ASSUME EvidenceInv, NEW f \in Drain002(Seen)
  PROVE  \E g \in Drain002(cluster) : AsGrave(f, g)
<1>1. Seen.context = cluster.context /\ Seen.workloads \subseteq cluster.workloads
  BY SeenIs
<1>2. ASSUME NEW w \in Seen.workloads, w.hostPath,
             f = Drain(w.name, "hostpath",
                       Severity(Seen, PresentSevereRisk(Seen, w, RunningNode(Seen, w))))
      PROVE  \E g \in Drain002(cluster) : AsGrave(f, g)
  <2> DEFINE p == PresentSevereRisk(Seen, w, RunningNode(Seen, w))
             q == PresentSevereRisk(cluster, w, RunningNode(cluster, w))
             g == Drain(w.name, "hostpath", Severity(cluster, q))
  <2>1. p \in BOOLEAN /\ q \in BOOLEAN
    BY DEF PresentSevereRisk
  <2>2. p => q
    <3>1. SUFFICES ASSUME p PROVE q
      OBVIOUS
    <3>2. RunningNode(Seen, w) # NoNode
      BY <3>1 DEF PresentSevereRisk
    <3>3. QED
      BY <3>1, <3>2, RunningNodeIs, SevereSeenIsSevere
  <2>3. g \in Drain002(cluster)
    BY <1>1, <1>2, Drain002Is
  <2> HIDE DEF p, q
  <2>4. AsGrave(f, g)
    <3>1. f = Drain(w.name, "hostpath", Severity(Seen, p))
      BY <1>2 DEF p
    <3>2. QED
      BY <1>1, <2>1, <2>2, <3>1, Graver
  <2>5. QED
    BY <2>3, <2>4
<1>3. ASSUME NEW w \in Seen.workloads, Pinned(Seen, w) # {},
             f = Drain(w.name, "local-pv",
                       Severity(Seen, \E n \in PinnedNodes(Seen, w) :
                                        PresentSevereRisk(Seen, w, n)))
      PROVE  \E g \in Drain002(cluster) : AsGrave(f, g)
  <2> DEFINE p == \E n \in PinnedNodes(Seen, w) : PresentSevereRisk(Seen, w, n)
             q == \E n \in PinnedNodes(cluster, w) : PresentSevereRisk(cluster, w, n)
             g == Drain(w.name, "local-pv", Severity(cluster, q))
  <2>1. p \in BOOLEAN /\ q \in BOOLEAN
    OBVIOUS
  <2>2. Pinned(Seen, w) = Pinned(cluster, w) /\ PinnedNodes(Seen, w) = PinnedNodes(cluster, w)
    BY <1>3, PinnedIs
  <2>3. p => q
    BY <2>2, SevereSeenIsSevere
  <2>4. g \in Drain002(cluster)
    BY <1>1, <1>3, <2>2, Drain002Is
  <2> HIDE DEF p, q
  <2>5. AsGrave(f, g)
    <3>1. f = Drain(w.name, "local-pv", Severity(Seen, p))
      BY <1>3 DEF p
    <3>2. QED
      BY <1>1, <2>1, <2>3, <3>1, Graver
  <2>6. QED
    BY <2>4, <2>5
<1>4. QED
  BY <1>2, <1>3, Drain002Is

(* DRAIN-003: without the node list no node qualifies; with it, every      *)
(* check but the one of the host ports speaks of nodes alone.              *)
LEMMA SameFinding ==
  ASSUME NEW f PROVE AsGrave(f, f)
BY DEF AsGrave

LEMMA PortsAre ==
  ASSUME EvidenceInv, NEW w, PortNowhereFree(Seen, w)
  PROVE  PortNowhereFree(cluster, w)
<1>1. Seen.nodes = cluster.nodes /\ Seen.nodes # {} /\ "port" \in w.needs
  BY NoNodesNoneIn DEF PortNowhereFree
<1>2. CASE "pods" \in errors
  <2>1. DOMAIN Seen.pods = {}
    BY <1>2, SeenIs
  <2>2. RunningNode(Seen, w) = NoNode /\ \A n : ~PortTaken(Seen, n)
    BY <2>1 DEF RunningNode, PortTaken
  <2>3. \A n \in cluster.nodes : n.name = NoNode
    BY <1>1, <2>2 DEF PortNowhereFree
  <2>4. QED
    BY <1>1, <2>3, ClusterIs
<1>3. CASE "pods" \notin errors
  <2>1. Seen.pods = cluster.pods
    BY <1>3, SeenIs
  <2>2. RunningNode(Seen, w) = RunningNode(cluster, w)
    BY <2>1 DEF RunningNode
  <2>3. \A n : PortTaken(Seen, n) <=> PortTaken(cluster, n)
    BY <2>1 DEF PortTaken
  <2>4. QED
    BY <1>1, <2>2, <2>3 DEF PortNowhereFree
<1>4. QED
  BY <1>2, <1>3

LEMMA Drain003Loses ==
  ASSUME EvidenceInv, NEW f \in Drain003(Seen)
  PROVE  \/ f \in Drain003(cluster)
         \/ f.check \in {"scarcity", "anti-affinity", "topology-spread"} /\ "nodes" \in errors
<1>1. Seen.workloads \subseteq cluster.workloads
  BY SeenIs
<1>2. CASE f \in {Drain(w.name, "hostport", "warning") :
                    w \in {x \in Seen.workloads : PortNowhereFree(Seen, x)}}
  BY <1>1, <1>2, PortsAre DEF Drain003
<1>3. CASE f \notin {Drain(w.name, "hostport", "warning") :
                       w \in {x \in Seen.workloads : PortNowhereFree(Seen, x)}}
  <2>1. f.check \in {"scarcity", "anti-affinity", "topology-spread"}
    BY <1>3 DEF Drain003, Drain
  <2>2. CASE "nodes" \in errors
    BY <2>1, <2>2
  <2>3. CASE "nodes" \notin errors
    <3>1. Seen.nodes = cluster.nodes
      BY <2>3, SeenIs
    <3>2. \A w : Qualifying(Seen, w) = Qualifying(cluster, w)
      BY <3>1 DEF Qualifying
    <3>3. \A w : /\ Scarce(Seen, w) <=> Scarce(cluster, w)
                 /\ NoSpareNode(Seen, w) <=> NoSpareNode(cluster, w)
                 /\ OneDomain(Seen, w) <=> OneDomain(cluster, w)
      BY <3>2 DEF Scarce, NoSpareNode, OneDomain
    <3>4. QED
      BY <1>1, <1>3, <3>3 DEF Drain003
  <2>4. QED
    BY <2>2, <2>3
<1>4. QED
  BY <1>2, <1>3

(* DRAIN-004 finds something only with both lists, and with both it reads  *)
(* what there is.                                                          *)
LEMMA Drain004NeedsBoth ==
  ASSUME EvidenceInv, Drain004(Seen) # {}
  PROVE  Seen.nodes = cluster.nodes /\ Seen.pods = cluster.pods
<1>1. ~(Cardinality(Seen.nodes) < 2) /\ \E n \in Seen.nodes : Displaces(Seen, n)
  BY DEF Drain004
<1>2. Seen.nodes = cluster.nodes
  BY <1>1, NoNodesNoneIn
<1>3. "pods" \notin errors
  <2>1. SUFFICES ASSUME "pods" \in errors PROVE FALSE
    OBVIOUS
  <2>2. DOMAIN Seen.pods = {}
    BY <2>1, SeenIs
  <2>3. LivePods(Seen) = {}
    BY <2>2 DEF LivePods
  <2>4. \A n : Moved(Seen, n) = {} /\ CompleteOf(Seen, Moved(Seen, n)) = {}
    BY <2>3 DEF Moved, PodsOn, CompleteOf
  <2>5. QED
    BY <1>1, <2>4 DEF Displaces
<1>4. QED
  BY <1>2, <1>3, SeenIs

LEMMA Drain004SeesNodesAndPods ==
  ASSUME NEW s, NEW c, s.nodes = c.nodes, s.pods = c.pods
  PROVE  /\ Drain004(s) = Drain004(c)
         /\ \A n : Shortage(s, n) <=> Shortage(c, n)
<1>1. \A which, r : Total(s, which, r) = Total(c, which, r)
  BY DEF Total
<1>2. LivePods(s) = LivePods(c)
  BY DEF LivePods
<1>3. \A n : PodsOn(s, n) = PodsOn(c, n)
  BY <1>2 DEF PodsOn
<1>4. /\ \A n : Moved(s, n) = Moved(c, n) /\ Others(s, n) = Others(c, n)
      /\ \A which : CompleteOf(s, which) = CompleteOf(c, which)
      /\ PendingPods(s) = PendingPods(c)
  BY <1>2, <1>3 DEF Moved, Others, CompleteOf, PendingPods
<1>5. \A n : Demand(s, n) = Demand(c, n) /\ (Displaces(s, n) <=> Displaces(c, n))
  BY <1>4 DEF Demand, Displaces
<1>6. \A n, r : Spare(s, n, r) = Spare(c, n, r)
  BY <1>1, <1>3 DEF Spare
<1>7. \A n, r : SumFunction([m \in Others(s, n) |-> Spare(s, m, r)])
                  = SumFunction([m \in Others(c, n) |-> Spare(c, m, r)])
  <2>1. \A n, r : [m \in Others(s, n) |-> Spare(s, m, r)] = [m \in Others(c, n) |-> Spare(c, m, r)]
    BY <1>4, <1>6
  <2>2. QED
    BY <2>1
<1>8. \A n : Shortage(s, n) <=> Shortage(c, n)
  BY <1>1, <1>5, <1>7 DEF Shortage
<1>9. QED
  BY <1>5, <1>8 DEF Drain004

(* What a drain rule finds on the evidence that is left it also finds, as  *)
(* grave or graver, on all of it; but for three checks of DRAIN-003, which *)
(* then say that their evidence was insufficient.                          *)
THEOREM LossInventsNothing == EvidenceSpec => []LostEvidenceInventsNothing
<1>1. ASSUME EvidenceInv, Invoked(rule), NEW f \in DrainFindings(rule, Seen)
      PROVE  \/ \E g \in DrainFindings(rule, cluster) : AsGrave(f, g)
             \/ /\ f.check \in {"scarcity", "anti-affinity", "topology-spread"}
                /\ RuleStatus(rule) = "insufficient_evidence"
  <2>1. CASE rule = "DRAIN-002"
    BY <1>1, <2>1, Drain002Loses DEF DrainFindings
  <2>2. CASE rule = "DRAIN-003"
    <3>1. CASE f \in Drain003(cluster)
      BY <2>2, <3>1, SameFinding DEF DrainFindings
    <3>2. CASE f.check \in {"scarcity", "anti-affinity", "topology-spread"} /\ "nodes" \in errors
      <4>1. "nodes" \in Declared(rule) /\ "nodes" \in K8sKeys
        BY <2>2
           DEF Declared, ManifestRules, WebhookRules, AddonRules, NodegroupRules, InsightRules,
               K8sKeys
      <4>2. mode[Plane("nodes")] = "present"
        BY <1>1, <3>2 DEF EvidenceInv
      <4>3. RuleStatus(rule) # "evaluable"
        BY <3>2, <4>1, <4>2, EvaluableDeps
      <4>4. QED
        BY <1>1, <3>2, <4>3 DEF Invoked
    <3>3. QED
      BY <1>1, <2>2, <3>1, <3>2, Drain003Loses DEF DrainFindings
  <2>3. CASE rule = "DRAIN-004"
    <3>1. f \in Drain004(Seen)
      BY <1>1, <2>3 DEF DrainFindings
    <3>2. f \in Drain004(cluster)
      BY <1>1, <3>1, Drain004NeedsBoth, Drain004SeesNodesAndPods
    <3>3. QED
      BY <2>3, <3>2, SameFinding DEF DrainFindings
  <2>4. CASE rule \notin {"DRAIN-002", "DRAIN-003", "DRAIN-004"}
    BY <1>1, <2>4 DEF DrainFindings
  <2>5. QED
    BY <2>1, <2>2, <2>3, <2>4
<1>2. EvidenceInv => LostEvidenceInventsNothing
  BY <1>1 DEF LostEvidenceInventsNothing
<1>3. QED
  BY <1>2, EvidenceInvariance, PTL
-----------------------------------------------------------------------------
(* The demand for a resource, as sums of one function of the pods. *)
Asks(r) == [k \in DOMAIN cluster.pods |-> cluster.pods[k].asks[r]]

LEMMA TotalIs ==
  ASSUME EvidenceInv, NEW r \in Resources, NEW which \in SUBSET DOMAIN cluster.pods
  PROVE  /\ Total(cluster, which, r) = SumFunctionOnSet(Asks(r), which)
         /\ Total(cluster, which, r) \in Nat
<1> DEFINE f == [k \in which |-> cluster.pods[k].asks[r]]
<1>1. DOMAIN f = which
  OBVIOUS
<1>2. IsFiniteSet(which) /\ \A k \in which : f[k] \in Nat /\ f[k] \in Int /\ Asks(r)[k] = f[k]
  BY ClusterIs, FS_Subset DEF Asks
<1>3. Total(cluster, which, r) = SumFunctionOnSet(f, which)
  BY <1>1 DEF Total, SumFunction
<1> HIDE DEF f
<1>4. SumFunctionOnSet(f, which) = SumFunctionOnSet(Asks(r), which)
  BY <1>2, SumEqual
<1>5. SumFunctionOnSet(f, which) \in Nat
  BY <1>2, SumPositive
<1>6. QED
  BY <1>3, <1>4, <1>5

(* A node on which pods fit has as much spare room as they ask for.        *)
LEMMA SpareIsEnough ==
  ASSUME EvidenceInv, NEW r \in Resources, NEW m \in cluster.nodes,
         NEW here \in SUBSET DOMAIN cluster.pods,
         \/ Total(cluster, here, r) = 0
         \/ Total(cluster, PodsOn(cluster, m), r) + Total(cluster, here, r) <= m.room[r]
  PROVE  Total(cluster, here, r) <= Spare(cluster, m, r) /\ Spare(cluster, m, r) \in Nat
<1>1. PodsOn(cluster, m) \in SUBSET DOMAIN cluster.pods
  BY DEF PodsOn, LivePods
<1>2. m.room[r] \in Nat
  BY ClusterIs
<1>3. Total(cluster, here, r) \in Nat /\ Total(cluster, PodsOn(cluster, m), r) \in Nat
  BY <1>1, TotalIs
<1>4. QED
  BY <1>2, <1>3 DEF Spare

(* What the rule counts as the demand are the pods that have to be placed. *)
LEMMA DemandIsPlaced ==
  ASSUME NEW n
  PROVE  Demand(cluster, n) =
           {k \in LivePods(cluster) :
              /\ cluster.pods[k].complete
              /\ cluster.pods[k].node \in {n.name, NoNode}
              /\ cluster.pods[k].daemon => cluster.pods[k].node = NoNode}
BY DEF Demand, CompleteOf, Moved, PodsOn, PendingPods

(* Pods that can be placed one by one do not ask for more than the nodes   *)
(* have to spare.                                                          *)
LEMMA PlaceableNoShortage ==
  ASSUME EvidenceInv, NEW n \in cluster.nodes, Placeable(n)
  PROVE  ~Shortage(cluster, n)
<1> DEFINE ps == Demand(cluster, n)
           os == Others(cluster, n)
<1>1. PICK where \in [ps -> os] : \A m \in os : Fits(m, where)
  BY DemandIsPlaced DEF Placeable
<1>2. ps \in SUBSET DOMAIN cluster.pods /\ os \subseteq cluster.nodes
  BY DemandIsPlaced DEF LivePods, Others
<1>3. IsFiniteSet(os) /\ IsFiniteSet(ps)
  BY <1>2, ClusterIs, FS_Subset
<1>4. DOMAIN where = ps /\ \A k \in ps : where[k] \in os
  BY <1>1
<1> HIDE DEF ps, os
<1>5. ASSUME NEW r \in Resources
      PROVE  Total(cluster, ps, r) <= SumFunction([m \in os |-> Spare(cluster, m, r)])
  <2> DEFINE Here(m) == {k \in ps : where[k] = m}
             taken == [m \in os |-> SumFunctionOnSet(Asks(r), Here(m))]
             spare == [m \in os |-> Spare(cluster, m, r)]
  <2>1. \A k \in ps : Asks(r)[k] \in Nat
    BY <1>2, ClusterIs DEF Asks
  <2>2. SumFunctionOnSet(Asks(r), ps) = SumFunctionOnSet(taken, os)
    BY <1>3, <1>4, <2>1, SumPartition
  <2>3. Total(cluster, ps, r) = SumFunctionOnSet(Asks(r), ps)
    BY <1>2, TotalIs
  <2>4. \A m \in os : taken[m] \in Int /\ spare[m] \in Int /\ taken[m] <= spare[m]
    <3>1. SUFFICES ASSUME NEW m \in os
                   PROVE  taken[m] \in Int /\ spare[m] \in Int /\ taken[m] <= spare[m]
      OBVIOUS
    <3>2. Here(m) \in SUBSET DOMAIN cluster.pods /\ m \in cluster.nodes
      BY <1>2
    <3>3. Here(m) = {k \in DOMAIN where : where[k] = m}
      BY <1>4
    <3>4. \/ Total(cluster, Here(m), r) = 0
          \/ Total(cluster, PodsOn(cluster, m), r) + Total(cluster, Here(m), r) <= m.room[r]
      BY <1>1, <3>3 DEF Fits
    <3>5. Total(cluster, Here(m), r) <= Spare(cluster, m, r) /\ Spare(cluster, m, r) \in Nat
      <4> HIDE DEF Here
      <4>1. QED
        BY <3>2, <3>4, SpareIsEnough
    <3>6. /\ Total(cluster, Here(m), r) = SumFunctionOnSet(Asks(r), Here(m))
          /\ Total(cluster, Here(m), r) \in Nat
      <4> HIDE DEF Here
      <4>1. QED
        BY <3>2, TotalIs
    <3> HIDE DEF Here
    <3>7. QED
      BY <3>5, <3>6
  <2>5. SumFunction(spare) = SumFunctionOnSet(spare, os)
    BY DEF SumFunction
  <2> HIDE DEF taken, spare
  <2>6. SumFunctionOnSet(taken, os) <= SumFunctionOnSet(spare, os)
    BY <1>3, <2>4, SumMonotone
  <2>7. QED
    BY <2>2, <2>3, <2>5, <2>6 DEF spare
<1>6. \A r \in Resources : Total(cluster, ps, r) \in Int
                           /\ SumFunction([m \in os |-> Spare(cluster, m, r)]) \in Int
  <2> SUFFICES ASSUME NEW r \in Resources
               PROVE  Total(cluster, ps, r) \in Int
                      /\ SumFunction([m \in os |-> Spare(cluster, m, r)]) \in Int
    OBVIOUS
  <2> DEFINE spare == [m \in os |-> Spare(cluster, m, r)]
  <2>1. \A m \in os : spare[m] \in Int
    <3>1. SUFFICES ASSUME NEW m \in os PROVE Spare(cluster, m, r) \in Int
      OBVIOUS
    <3>2. PodsOn(cluster, m) \in SUBSET DOMAIN cluster.pods
      BY DEF PodsOn, LivePods
    <3>3. m.room[r] \in Nat /\ Total(cluster, PodsOn(cluster, m), r) \in Nat
      BY <1>2, <3>2, ClusterIs, TotalIs
    <3>4. QED
      BY <3>3 DEF Spare
  <2>2. SumFunction(spare) = SumFunctionOnSet(spare, os)
    BY DEF SumFunction
  <2> HIDE DEF spare
  <2>3. SumFunctionOnSet(spare, os) \in Int
    BY <1>3, <2>1, SumRemove
  <2>4. Total(cluster, ps, r) \in Nat
    BY <1>2, TotalIs
  <2>5. QED
    BY <2>2, <2>3, <2>4 DEF spare
<1>7. SUFFICES ASSUME Shortage(cluster, n) PROVE FALSE
  OBVIOUS
<1>8. PICK r \in Resources :
        Total(cluster, ps, r) > SumFunction([m \in os |-> Spare(cluster, m, r)])
  BY <1>7 DEF Shortage, ps, os
<1>9. QED
  BY <1>5, <1>6, <1>8

(* Where DRAIN-004 sees a shortage there is no way to place the pods, for  *)
(* any nodes and pods and whatever was lost: pods that could be placed     *)
(* would ask, node by node and so in all, for no more than is spare.       *)
THEOREM ShortageSafety == EvidenceSpec => []ShortageIsReal
<1>1. ASSUME EvidenceInv, NEW f \in Drain004(Seen)
      PROVE  \E n \in cluster.nodes : n.name = f.on /\ ~Placeable(n)
  <2>1. Seen.nodes = cluster.nodes /\ Seen.pods = cluster.pods
    BY <1>1, Drain004NeedsBoth
  <2>2. PICK n \in Seen.nodes : Shortage(Seen, n) /\ f = Drain(n.name, "capacity", "warning")
    BY <1>1 DEF Drain004
  <2>3. n.name = f.on /\ Shortage(cluster, n)
    BY <2>1, <2>2, Drain004SeesNodesAndPods DEF Drain
  <2>4. QED
    BY <1>1, <2>1, <2>2, <2>3, PlaceableNoShortage
<1>2. EvidenceInv => ShortageIsReal
  BY <1>1 DEF ShortageIsReal
<1>3. QED
  BY <1>2, EvidenceInvariance, PTL
-----------------------------------------------------------------------------
(* The loop and the evidence together.  The loop does not start before the *)
(* collectors are done, so that no verdict of it is out of date.           *)
RegistryInv == IInv /\ status = [r \in Rules |-> RuleStatus(r)]

LEMMA SameRuleStatus ==
  ASSUME UNCHANGED evidenceVars, NEW r
  PROVE  RuleStatus(r)' = RuleStatus(r)
<1>1. UNCHANGED <<rule, mode, facts, cluster, errors>>
  BY DEF evidenceVars
<1>2. Declared(r)' = Declared(r)
  BY <1>1 DEF Declared, WH002Deps, DRAIN001Deps, CRD002Deps, HaveK8s, ServiceObserved,
              WebhookServiceReferencePresent
<1>3. Registered' = Registered
  BY <1>1 DEF Registered
<1>4. \A key : DependencyState(key)' = DependencyState(key)
  BY <1>1, PlaneNext DEF DependencyState
<1>5. QED
  BY <1>2, <1>3, <1>4 DEF RuleStatus

(* While calls still fail, no rule has left a trace. *)
LEMMA CollectorFailsStep == RegistryInv /\ CollectorFails => RegistryInv'
<1> SUFFICES ASSUME RegistryInv, CollectorFails PROVE RegistryInv'
  OBVIOUS
<1>1. /\ records = <<>> /\ UNCHANGED <<position, records, kept, errs, made>>
      /\ status' = [r \in Rules |-> RuleStatus(r)']
  BY DEF CollectorFails
<1>2. position = 1
  BY <1>1 DEF RegistryInv, IInv, PositionInv, TypeOK
<1>3. TypeOK'
  BY <1>1 DEF RegistryInv, IInv, TypeOK, RuleStatus, Statuses
<1>4. PositionInv' /\ \A i \in position' .. Len(Universe) : Untouched(i)'
  BY <1>1 DEF RegistryInv, IInv, PositionInv, Untouched
<1>5. 1 .. position' - 1 = {}
  BY <1>1, <1>2
<1>6. QED
  BY <1>1, <1>3, <1>4, <1>5 DEF RegistryInv, IInv

LEMMA RunRuleStep == RegistryInv /\ RunRule => RegistryInv'
<1> SUFFICES ASSUME RegistryInv, RunRule PROVE RegistryInv'
  OBVIOUS
<1>1. IInv'
  BY DismissStep, WithholdStep, EvaluateStep DEF RegistryInv, RunRule, Next
<1>2. status' = status
  BY DEF RunRule, Next, Dismiss, Withhold, Evaluate, Advance
<1>3. \A r : RuleStatus(r)' = RuleStatus(r)
  BY SameRuleStatus DEF RunRule
<1>4. QED
  BY <1>1, <1>2, <1>3 DEF RegistryInv

(* The registry's verdicts stay those on the evidence it was given, and    *)
(* its records keep to them (RunAllWithExecutions).                        *)
THEOREM RegistryInvariance == RegistrySpec => []RegistryInv
<1>1. RegistryInit => RegistryInv
  BY InitIInv DEF RegistryInit, RegistryInv
<1>2. RegistryInv /\ UNCHANGED registryVars => RegistryInv'
  <2> SUFFICES ASSUME RegistryInv, UNCHANGED registryVars PROVE RegistryInv'
    OBVIOUS
  <2>1. IInv' /\ status' = status
    BY StutterStep DEF RegistryInv, registryVars, vars
  <2>2. \A r : RuleStatus(r)' = RuleStatus(r)
    BY SameRuleStatus DEF registryVars
  <2>3. QED
    BY <2>1, <2>2 DEF RegistryInv
<1>3. RegistryInv /\ [RegistryNext]_registryVars => RegistryInv'
  BY <1>2, CollectorFailsStep, RunRuleStep DEF RegistryNext
<1>4. QED
  BY <1>1, <1>3, PTL DEF RegistrySpec

(* Seen from its evidence, a registry is collectors that lose calls. *)
LEMMA EvidenceOfRegistry == RegistrySpec => EvidenceSpec
<1>1. RegistryInit => EvidenceInit
  BY DEF RegistryInit
<1>2. [RegistryNext]_registryVars => [Fail]_evidenceVars
  BY DEF RegistryNext, CollectorFails, RunRule, registryVars
<1>3. QED
  BY <1>1, <1>2, PTL DEF RegistrySpec, EvidenceSpec

LEMMA RowRules == IInv => \A row \in Rows : row.rule \in Rules
<1>1. ASSUME IInv, NEW i \in DOMAIN records PROVE records[i].rule \in Rules
  <2>1. i \in 1 .. position - 1
    BY <1>1, RecordsDomain
  <2>2. i \in 1 .. Len(Universe) /\ records[i].rule = Universe[i]
    BY <1>1, <2>1, UniverseFacts DEF IInv, TypeOK, RowInv
  <2>3. QED
    BY <2>2, UniverseFacts
<1>2. QED
  BY <1>1 DEF Rows

(* A row that reads "No issue detected" stands for a rule that found       *)
(* nothing on live evidence none of which was lost (rule.go,               *)
(* evaluation_coverage.go).                                                *)
CleanRestsOnEvidence ==
  \A row \in Rows :
    row.outcome = "No issue detected" /\ row.rule = rule =>
      /\ made[rule] = {}
      /\ \A key \in Reads(rule) \ {"manifests"} :
           mode[Plane(key)] # "off" => mode[Plane(key)] = "present" /\ key \notin errors

THEOREM CleanOnEvidence == RegistrySpec => []CleanRestsOnEvidence
<1>1. RegistryInv /\ EvaluatedOnLiveEvidence => CleanRestsOnEvidence
  <2> SUFFICES ASSUME RegistryInv, EvaluatedOnLiveEvidence, NEW row \in Rows,
                      row.outcome = "No issue detected", row.rule = rule
               PROVE  /\ made[rule] = {}
                      /\ \A key \in Reads(rule) \ {"manifests"} :
                           mode[Plane(key)] # "off" =>
                             mode[Plane(key)] = "present" /\ key \notin errors
    BY DEF CleanRestsOnEvidence
  <2>1. made[rule] = {} /\ status[rule] = "evaluable"
    BY CleanRows DEF RegistryInv, CleanIsEarned
  <2>2. rule \in Rules
    BY RowRules DEF RegistryInv
  <2>3. RuleStatus(rule) = "evaluable"
    BY <2>1, <2>2 DEF RegistryInv
  <2>4. QED
    BY <2>1, <2>3 DEF EvaluatedOnLiveEvidence
<1>2. QED
  BY <1>1, RegistryInvariance, EvidenceOfRegistry, EvaluatedSafety, PTL
=============================================================================
