--------------------------- MODULE RollbackProofs ---------------------------
(***************************************************************************)
(* The four passes of a rollback assessment keep their promises for every  *)
(* findings document, every cluster and every answer of the API.           *)
(*                                                                         *)
(* The argument is in the passes, one lemma each: what the eligibility     *)
(* pass calls unavailable, what the insights pass and the operational pass *)
(* call blocked, and that no later pass forgets it.  The inductive         *)
(* invariant only carries the snapshot's shape to the assessment, and the  *)
(* assessment to the exit.                                                 *)
(***************************************************************************)
EXTENDS Rollback, WellFoundedInduction, TLAPS

Statuses == {"pass", "warning", "unknown", "fail"}
ReadinessValues == {"ready", "high_risk", "insufficient_evidence", "blocked"}

Reasons == {FeatureUnverified, AutoUpgradeUnknown, "EKS_INSIGHTS_UNAVAILABLE", "EKS_INSIGHTS_STALE"}
Decisions == {"rollback_preferred", "fix_forward_preferred", "operator_decision_required",
              "do_not_proceed"}
Confidences == {"low", "medium", "high"}

Keys == HistoryKeys \cup {"list-rollback-insights", "describe-rollback-insight"}

Texts == STRING \cup {""}
TargetStatuses == {"", "STANDARD", "EXTENDED", "UNSUPPORTED"}

Snapshots ==
  [current : Int, status : Texts, supportType : Texts,
   targetStatus : TargetStatuses,
   insights : SUBSET InsightValues, updates : SUBSET UpdateValues, errors : SUBSET Keys]

Assessments ==
  [eligibility : {"unknown", "unavailable", "eligible"}, readiness : ReadinessValues,
   complete : BOOLEAN, unverified : SUBSET Reasons, decision : Decisions, confidence : Confidences]

EvidenceOK == snap \in Snapshots /\ doc \in Reports \cup {NoReport}
-----------------------------------------------------------------------------
(* Worst picks the highest rank, pass being there by default. *)
LEMMA WorstFacts ==
  ASSUME NEW S, S \subseteq Statuses
  PROVE  /\ Worst(S) \in Statuses
         /\ Worst(S) = "fail" <=> "fail" \in S
         /\ Worst(S) = "unknown" <=> "unknown" \in S /\ "fail" \notin S
         /\ Worst(S) = "warning" <=> "warning" \in S /\ {"unknown", "fail"} \cap S = {}
<1> DEFINE T == S \cup {"pass"}
           IsWorst(s) == s \in T /\ \A t \in T : Rank(t) <= Rank(s)
<1>1. Rank("pass") = 0 /\ Rank("warning") = 1 /\ Rank("unknown") = 2 /\ Rank("fail") = 3
  BY DEF Rank
<1>2. \E s \in T : \A t \in T : Rank(t) <= Rank(s)
  <2>1. CASE "fail" \in S
    BY <1>1, <2>1 DEF Statuses
  <2>2. CASE "fail" \notin S /\ "unknown" \in S
    BY <1>1, <2>2 DEF Statuses
  <2>3. CASE "fail" \notin S /\ "unknown" \notin S /\ "warning" \in S
    BY <1>1, <2>3 DEF Statuses
  <2>4. CASE {"fail", "unknown", "warning"} \cap S = {}
    BY <1>1, <2>4 DEF Statuses
  <2>5. QED
    BY <2>1, <2>2, <2>3, <2>4
<1>3. IsWorst(Worst(S))
  BY <1>2 DEF Worst
<1>4. Worst(S) \in Statuses
  BY <1>3 DEF Statuses
<1>5. QED
  BY <1>1, <1>3, <1>4 DEF Statuses

(* A set of updates whose ages are past the window has a newest one.       *)
LEMMA NewestUpdate ==
  ASSUME NEW M, M \subseteq UpdateValues, M # {}, \A u \in M : u.age >= Window
  PROVE  \E u \in M : \A v \in M : u.age <= v.age
<1> DEFINE ages == {u.age : u \in M}
<1>1. ages \subseteq Nat /\ ages # {}
  BY RollbackAssumption, ShapesAssumption DEF UpdateRecords
<1>2. \E n \in ages : \A k \in ages : ~(<<k, n>> \in OpToRel(<, Nat))
  BY <1>1, NatLessThanWellFounded, WFMin
<1>3. PICK n \in ages : \A k \in ages : n <= k
  <2>1. PICK n \in ages : \A k \in ages : ~(<<k, n>> \in OpToRel(<, Nat))
    BY <1>2
  <2>2. ASSUME NEW k \in ages PROVE n <= k
    <3>1. k \in Nat /\ n \in Nat
      BY <1>1
    <3>2. <<k, n>> \in OpToRel(<, Nat) <=> k < n
      <4>1. <<k, n>> \in Nat \X Nat /\ <<k, n>>[1] = k /\ <<k, n>>[2] = n
        BY <3>1
      <4> DEFINE ss == <<k, n>>
      <4>2. ss \in OpToRel(<, Nat) <=> ss \in Nat \X Nat /\ ss[1] < ss[2]
        BY DEF OpToRel
      <4>3. QED
        BY <4>1, <4>2
    <3>3. ~(k < n)
      BY <2>1, <3>2, Zenon
    <3>4. QED
      BY <3>1, <3>3
  <2>3. QED
    BY <2>2
<1>4. QED
  BY <1>3
-----------------------------------------------------------------------------
(* Eligibility: "unavailable" is said exactly of a history that was read   *)
(* and does not leave the rollback open.                                   *)
LEMMA ReasonsFacts ==
  ASSUME EvidenceOK
  PROVE  EligibilityReasons(snap) # {} <=> ~RollbackOpen
<1> USE DEF EvidenceOK, Snapshots
<1>1. Target(snap) # NoVersion <=> snap.current >= 1
  BY DEF Target, PreviousMinor, NoVersion
<1>2. (Matching(snap) # {} /\ ~Expired(snap)) <=> \E u \in Matching(snap) : u.age < Window
  <2>1. Matching(snap) \subseteq UpdateValues /\ \A u \in Matching(snap) : u.age \in Int
    BY ShapesAssumption DEF Matching, UpdateRecords
  <2>2. ASSUME NEW w \in Matching(snap), w.age < Window PROVE ~Expired(snap)
    BY <2>1, <2>2, RollbackAssumption DEF Expired
  <2>3. ASSUME Matching(snap) # {}, \A u \in Matching(snap) : ~(u.age < Window) PROVE Expired(snap)
    <3>1. \A u \in Matching(snap) : u.age >= Window
      BY <2>1, <2>3, RollbackAssumption
    <3>2. \E u \in Matching(snap) : \A v \in Matching(snap) : u.age <= v.age
      BY <2>1, <2>3, <3>1, NewestUpdate
    <3>3. QED
      BY <3>1, <3>2 DEF Expired
  <2>4. QED
    BY <2>2, <2>3
<1> DEFINE R == EligibilityReasons(snap)
<1>3. /\ "CLUSTER_NOT_ACTIVE" \in R <=> snap.status \notin {"", "ACTIVE"}
      /\ "NOT_N_MINUS_ONE" \in R <=> Target(snap) = NoVersion
      /\ "TARGET_UNSUPPORTED" \in R <=>
           Target(snap) # NoVersion /\ snap.targetStatus \notin {"STANDARD", "EXTENDED"}
      /\ "REQUIRES_EXTENDED_SUPPORT" \in R <=>
           /\ Target(snap) # NoVersion /\ snap.targetStatus = "EXTENDED"
           /\ snap.supportType # "EXTENDED"
      /\ "HISTORY_UNAVAILABLE" \in R <=> Matching(snap) = {}
      /\ "WINDOW_EXPIRED" \in R <=> Matching(snap) # {} /\ Expired(snap)
  BY DEF EligibilityReasons
<1>4. \A r \in R : r \in {"CLUSTER_NOT_ACTIVE", "NOT_N_MINUS_ONE", "TARGET_UNSUPPORTED",
                         "REQUIRES_EXTENDED_SUPPORT", "HISTORY_UNAVAILABLE", "WINDOW_EXPIRED"}
  BY DEF EligibilityReasons
<1> HIDE DEF R
<1>5. R # {} <=> ~RollbackOpen
  BY <1>1, <1>2, <1>3, <1>4 DEF RollbackOpen
<1>6. QED
  BY <1>5 DEF R

LEMMA EligibilityFacts ==
  ASSUME EvidenceOK
  PROVE  LET e == EvaluateEligibility(snap)
         IN  /\ e \in Assessments
             /\ e.eligibility = "unavailable" <=> HistoryRead /\ ~RollbackOpen
BY ReasonsFacts DEF EvaluateEligibility, HistoryRead, Assessments, ReadinessValues, Reasons, Decisions, Confidences,
   FeatureUnverified, AutoUpgradeUnknown

(* Insights: the readiness is theirs, and blocked exactly if usable        *)
(* insights say so; the eligibility is left alone.                         *)
LEMMA InsightsFacts ==
  ASSUME EvidenceOK, NEW e \in Assessments
  PROVE  LET i == ApplyRollbackInsights(e, snap)
         IN  /\ i \in Assessments /\ i.eligibility = e.eligibility
             /\ i.readiness = "blocked" <=>
                  InsightsRead /\ \E x \in snap.insights : x.status \in {"ERROR", "UNKNOWN"}
             /\ i.readiness \in {"ready", "high_risk"} => InsightsRead
<1> DEFINE i == ApplyRollbackInsights(e, snap)
           lost == snap.errors \cap {"list-rollback-insights", "describe-rollback-insight"} # {}
           stale == \E x \in snap.insights : Stale(x)
           statuses == {x.status : x \in snap.insights}
           b == [e EXCEPT !.unverified = @ \ {FeatureUnverified}]
<1>1. InsightsRead <=> ~lost /\ ~stale
  <2>1. \A x \in snap.insights : x.age \in Int /\ MaxAge \in Int
    BY ShapesAssumption, RollbackAssumption DEF EvidenceOK, Snapshots, InsightRecords
  <2>2. QED
    BY <2>1 DEF InsightsRead, Stale
<1>2. b \in Assessments /\ b.eligibility = e.eligibility
  BY DEF Assessments
<1>3. ASSUME NEW x \in Assessments, NEW reason \in Reasons
      PROVE  LET y == InsightsUnusable(x, reason)
             IN  y \in Assessments /\ y.eligibility = x.eligibility /\ y.readiness = "insufficient_evidence"
  BY DEF InsightsUnusable, Assessments, ReadinessValues, Reasons, Decisions, Confidences
<1>4. (statuses \cap {"ERROR", "UNKNOWN"} # {})
        <=> \E x \in snap.insights : x.status \in {"ERROR", "UNKNOWN"}
  OBVIOUS
<1>5. CASE lost
  <2>1. i = InsightsUnusable(e, "EKS_INSIGHTS_UNAVAILABLE")
    BY <1>5 DEF ApplyRollbackInsights
  <2>2. "EKS_INSIGHTS_UNAVAILABLE" \in Reasons
    BY DEF Reasons
  <2> HIDE DEF i, b
  <2>3. i \in Assessments /\ i.eligibility = e.eligibility /\ i.readiness = "insufficient_evidence"
    BY <1>3, <2>1, <2>2
  <2>4. QED
    BY <1>1, <1>5, <2>3 DEF i
<1>6. CASE ~lost /\ stale
  <2>1. i = InsightsUnusable(b, "EKS_INSIGHTS_STALE")
    BY <1>6 DEF ApplyRollbackInsights
  <2>2. "EKS_INSIGHTS_STALE" \in Reasons
    BY DEF Reasons
  <2> HIDE DEF i, b
  <2>3. i \in Assessments /\ i.eligibility = e.eligibility /\ i.readiness = "insufficient_evidence"
    BY <1>2, <1>3, <2>1, <2>2
  <2>4. QED
    BY <1>1, <1>6, <2>3 DEF i
<1>7. CASE ~lost /\ ~stale /\ statuses \cap {"ERROR", "UNKNOWN"} # {}
  <2>1. i = [b EXCEPT !.readiness = "blocked", !.complete = FALSE,
                      !.decision = "do_not_proceed", !.confidence = "high"]
    BY <1>7 DEF ApplyRollbackInsights
  <2> HIDE DEF b, i
  <2>2. i \in Assessments /\ i.eligibility = b.eligibility /\ i.readiness = "blocked"
    BY <1>2, <2>1 DEF Assessments, ReadinessValues, Reasons, Decisions, Confidences
  <2>3. QED
    BY <1>1, <1>2, <1>4, <1>7, <2>2 DEF i
<1>8. CASE ~lost /\ ~stale /\ statuses \cap {"ERROR", "UNKNOWN"} = {}
  <2>1. \/ i = [b EXCEPT !.readiness = "high_risk", !.complete = b.unverified = {},
                         !.decision = "operator_decision_required", !.confidence = "medium"]
        \/ i = [b EXCEPT !.readiness = "insufficient_evidence", !.complete = FALSE, !.confidence = "low"]
        \/ i = [b EXCEPT !.readiness = "ready", !.complete = TRUE,
                         !.decision = "operator_decision_required", !.confidence = "medium"]
    BY <1>8 DEF ApplyRollbackInsights
  <2> HIDE DEF b, i
  <2>2. i \in Assessments /\ i.eligibility = b.eligibility /\ i.readiness # "blocked"
    BY <1>2, <2>1 DEF Assessments, ReadinessValues, Reasons, Decisions, Confidences
  <2>3. QED
    BY <1>1, <1>2, <1>4, <1>8, <2>2 DEF i
<1>9. QED
  BY <1>5, <1>6, <1>7, <1>8
-----------------------------------------------------------------------------
(* Operational readiness: what the checks make of a document. *)

LEMMA SignalFacts ==
  ASSUME NEW d, NEW rules
  PROVE  /\ Signals(d, rules) \subseteq {"warning", "fail"}
         /\ "fail" \in Signals(d, rules) <=>
              \E f \in d.findings : f.rule \in rules /\ f.severity = "Blocker"
BY DEF Signals, RulesOf

LEMMA GatedFacts ==
  ASSUME NEW d, NEW S, S \subseteq Statuses
  PROVE  /\ Gated(d, S) \in Statuses
         /\ Gated(d, S) = "fail" <=> ~Blocks(d) /\ "fail" \in S
         /\ Blocks(d) => Gated(d, S) = "unknown"
<1>1. "unknown" \in Statuses
  BY DEF Statuses
<1>2. QED
  BY <1>1, WorstFacts DEF Gated

(* The checks that can fail, and those that only warn or do not know. *)
LEMMA SoftChecks ==
  ASSUME NEW d, NEW s
  PROVE  {NodegroupRollbackCheck(d, s), SelfManagedNodeCheck(d), FargateCheck(d),
          DisruptionCheck(d), CoverageCheck(d)} \subseteq Statuses \ {"fail"}
<1>1. NodegroupRollbackCheck(d, s) \in Statuses \ {"fail"}
  <2>1. {NodegroupStatus(ng, s) : ng \in d.nodegroups} \subseteq {"unknown", "warning", "pass"}
    BY DEF NodegroupStatus
  <2>2. QED
    BY <2>1, GatedFacts DEF NodegroupRollbackCheck, Statuses
<1>2. DisruptionCheck(d) \in Statuses \ {"fail"}
  <2>1. {"warning" : f \in RulesOf(d, DisruptionRules)} \subseteq {"warning"}
    OBVIOUS
  <2>2. QED
    BY <2>1, GatedFacts DEF DisruptionCheck, Statuses
<1>3. FargateCheck(d) \in Statuses \ {"fail"}
  <2>1. {"warning" : f \in RulesOf(d, {"FARGATE-001"})} \subseteq {"warning"}
    OBVIOUS
  <2>2. Worst({"warning" : f \in RulesOf(d, {"FARGATE-001"})}) \in Statuses \ {"fail"}
    BY <2>1, WorstFacts DEF Statuses
  <2>3. QED
    BY <2>2 DEF FargateCheck, Statuses
<1>4. QED
  BY <1>1, <1>2, <1>3 DEF SelfManagedNodeCheck, CoverageCheck, Statuses

LEMMA AddonAndHealthChecks ==
  ASSUME NEW d
  PROVE  /\ {ManagedAddonCheck(d), SelfManagedAddonCheck(d), WorkloadHealthCheck(d)} \subseteq Statuses
         /\ ("fail" \in {ManagedAddonCheck(d), SelfManagedAddonCheck(d), WorkloadHealthCheck(d)}) <=>
              /\ ~Blocks(d)
              /\ \E f \in d.findings :
                   /\ f.rule \in {"ADDON-001", "ADDON-002", "WORKLOAD-001", "DRAIN-005"}
                   /\ f.severity = "Blocker"
<1> DEFINE managed == {AddonStatus(a) : a \in d.addons} \cup Signals(d, {"ADDON-001", "ADDON-002"})
<1>1. {AddonStatus(a) : a \in d.addons} \subseteq {"unknown", "warning", "pass"}
  BY DEF AddonStatus
<1>2. managed \subseteq Statuses /\ ("fail" \in managed <=> "fail" \in Signals(d, {"ADDON-001", "ADDON-002"}))
  BY <1>1, SignalFacts DEF Statuses
<1>3. Signals(d, {"ADDON-002"}) \subseteq Statuses /\ Signals(d, Health) \subseteq Statuses
  BY SignalFacts DEF Statuses
<1> HIDE DEF managed
<1>4. /\ Gated(d, managed) \in Statuses
      /\ Gated(d, managed) = "fail" <=> ~Blocks(d) /\ "fail" \in managed
  BY <1>2, GatedFacts
<1>5. \A rules : Signals(d, rules) \subseteq Statuses =>
        /\ Gated(d, Signals(d, rules)) \in Statuses
        /\ Gated(d, Signals(d, rules)) = "fail" <=> ~Blocks(d) /\ "fail" \in Signals(d, rules)
  BY GatedFacts
<1>6. /\ ManagedAddonCheck(d) = Gated(d, managed)
      /\ SelfManagedAddonCheck(d) = Gated(d, Signals(d, {"ADDON-002"}))
      /\ WorkloadHealthCheck(d) = Gated(d, Signals(d, Health))
  BY DEF ManagedAddonCheck, SelfManagedAddonCheck, WorkloadHealthCheck, managed
<1>7. /\ "fail" \in managed <=>
           \E f \in d.findings : f.rule \in {"ADDON-001", "ADDON-002"} /\ f.severity = "Blocker"
      /\ "fail" \in Signals(d, {"ADDON-002"}) <=>
           \E f \in d.findings : f.rule \in {"ADDON-002"} /\ f.severity = "Blocker"
      /\ "fail" \in Signals(d, Health) <=>
           \E f \in d.findings : f.rule \in {"WORKLOAD-001", "DRAIN-005"} /\ f.severity = "Blocker"
  BY <1>2, SignalFacts DEF Health
<1>8. QED
  BY <1>3, <1>4, <1>5, <1>6, <1>7
LEMMA ReverseCompatibilityFacts ==
  ASSUME NEW d, NEW s
  PROVE  LET blocker(rules) == \E f \in d.findings : f.rule \in rules /\ f.severity = "Blocker"
         IN  /\ ReverseCompatibilityCheck(d, s) \in Statuses
             /\ ReverseCompatibilityCheck(d, s) = "fail" <=>
                  \/ TargetValidated(d, s) /\ blocker(ApiRules)
                  \/ ~Blocks(d) /\ blocker(CurrentWebhookRules)
                  \/ ~Blocks(d) /\ TargetValidated(d, s) /\ blocker(TargetGatedRules)
<1> DEFINE blocker(rules) == \E f \in d.findings : f.rule \in rules /\ f.severity = "Blocker"
           gate(rules) == IF TargetValidated(d, s) THEN Signals(d, rules)
                          ELSE {"unknown" : f \in RulesOf(d, rules)}
           live == RulesOf(d, CurrentWebhookRules \cup TargetGatedRules)
           untimely == {"unknown" : f \in IF Untimely(d) THEN RulesOf(d, ApiRules) ELSE {}}
           current == IF Blocks(d) THEN {"unknown" : f \in live}
                      ELSE Signals(d, CurrentWebhookRules) \cup gate(TargetGatedRules)
           S == gate(ApiRules) \cup untimely \cup current
<1>1. ReverseCompatibilityCheck(d, s) = Worst(S)
  BY DEF ReverseCompatibilityCheck
<1>2. ASSUME NEW rules
      PROVE  /\ gate(rules) \subseteq {"warning", "unknown", "fail"}
             /\ "fail" \in gate(rules) <=> TargetValidated(d, s) /\ blocker(rules)
  BY SignalFacts
<1>3. untimely \subseteq {"unknown"} /\ {"unknown" : f \in live} \subseteq {"unknown"}
  OBVIOUS
<1>4. /\ Signals(d, CurrentWebhookRules) \subseteq {"warning", "fail"}
      /\ "fail" \in Signals(d, CurrentWebhookRules) <=> blocker(CurrentWebhookRules)
  BY SignalFacts
<1> HIDE DEF blocker, gate, live, untimely
<1>5. /\ current \subseteq {"warning", "unknown", "fail"}
      /\ "fail" \in current <=>
           ~Blocks(d) /\ (blocker(CurrentWebhookRules)
                          \/ (TargetValidated(d, s) /\ blocker(TargetGatedRules)))
  BY <1>2, <1>3, <1>4
<1> HIDE DEF current
<1>6. /\ S \subseteq Statuses
      /\ "fail" \in S <=> (TargetValidated(d, s) /\ blocker(ApiRules)) \/ "fail" \in current
  BY <1>2, <1>3, <1>5 DEF Statuses
<1> HIDE DEF S
<1>7. Worst(S) \in Statuses /\ (Worst(S) = "fail" <=> "fail" \in S)
  BY <1>6, WorstFacts
<1>8. /\ ReverseCompatibilityCheck(d, s) \in Statuses
      /\ ReverseCompatibilityCheck(d, s) = "fail" <=>
           \/ TargetValidated(d, s) /\ blocker(ApiRules)
           \/ ~Blocks(d) /\ blocker(CurrentWebhookRules)
           \/ ~Blocks(d) /\ TargetValidated(d, s) /\ blocker(TargetGatedRules)
  BY <1>1, <1>5, <1>6, <1>7
<1>9. QED
  BY <1>8 DEF blocker

(* The document says stop exactly if it holds a confirmed blocker. *)
LEMMA ChecksFacts ==
  ASSUME EvidenceOK, doc # NoReport
  PROVE  /\ OperationalChecks(doc, snap) \subseteq Statuses
         /\ "fail" \in OperationalChecks(doc, snap) <=> BlockerConfirmed
<1> DEFINE blocker(rules) == \E f \in doc.findings : f.rule \in rules /\ f.severity = "Blocker"
           trusted == \/ doc.cluster = TheCluster /\ doc.age \in -FutureSkew .. MaxAge
                      \/ doc.cluster = "" /\ ~doc.context
           forTarget == snap.current >= 1 /\ doc.target = snap.current - 1
           hard == {"ADDON-001", "ADDON-002", "WORKLOAD-001", "DRAIN-005"}
<1>1. /\ doc.context \in BOOLEAN /\ doc.age \in Int /\ doc.target \in Int
      /\ FutureSkew \in Nat /\ MaxAge \in Nat
  BY ShapesAssumption, RollbackAssumption DEF EvidenceOK, IsDocument
<1>2. trusted <=> ~Blocks(doc)
  <2>1. TheCluster # ""
    BY DEF TheCluster
  <2>2. (doc.age \in -FutureSkew .. MaxAge) <=> ~(doc.age > MaxAge \/ doc.age < -FutureSkew)
    BY <1>1
  <2>3. QED
    BY <2>1, <2>2 DEF Blocks, WrongCluster, Untimely, ManifestOnly
<1>3. forTarget <=> TargetValidated(doc, snap)
  BY <1>1 DEF TargetValidated, Target, PreviousMinor, NoVersion, EvidenceOK, Snapshots
<1>4. ("fail" \in OperationalChecks(doc, snap)) <=>
        \/ ~Blocks(doc) /\ blocker(hard)
        \/ TargetValidated(doc, snap) /\ blocker(ApiRules)
        \/ ~Blocks(doc) /\ blocker(CurrentWebhookRules)
        \/ ~Blocks(doc) /\ TargetValidated(doc, snap) /\ blocker(TargetGatedRules)
  <2>1. ReverseCompatibilityCheck(doc, snap) = "fail" <=>
          \/ TargetValidated(doc, snap) /\ blocker(ApiRules)
          \/ ~Blocks(doc) /\ blocker(CurrentWebhookRules)
          \/ ~Blocks(doc) /\ TargetValidated(doc, snap) /\ blocker(TargetGatedRules)
    BY ReverseCompatibilityFacts
  <2>2. ("fail" \in {ManagedAddonCheck(doc), SelfManagedAddonCheck(doc), WorkloadHealthCheck(doc)})
          <=> ~Blocks(doc) /\ blocker(hard)
    BY AddonAndHealthChecks
  <2>3. ("fail" \in OperationalChecks(doc, snap)) <=>
          \/ "fail" \in {ManagedAddonCheck(doc), SelfManagedAddonCheck(doc), WorkloadHealthCheck(doc)}
          \/ ReverseCompatibilityCheck(doc, snap) = "fail"
    BY SoftChecks DEF OperationalChecks
  <2> HIDE DEF blocker
  <2>4. QED
    BY <2>1, <2>2, <2>3
<1>5. BlockerConfirmed <=>
        \/ forTarget /\ blocker(ApiRules)
        \/ trusted /\ forTarget /\ blocker(TargetGatedRules)
        \/ trusted /\ blocker(CurrentWebhookRules)
        \/ trusted /\ blocker(hard)
  <2> HIDE DEF trusted, forTarget
  <2>1. BlockerConfirmed <=>
          \E f \in doc.findings :
            /\ f.severity = "Blocker"
            /\ \/ f.rule \in {"API-001", "API-002"} /\ forTarget
               \/ f.rule \in TargetGatedRules /\ trusted /\ forTarget
               \/ f.rule \in {"WH-002", "ADDON-001", "ADDON-002", "WORKLOAD-001", "DRAIN-005"} /\ trusted
    BY DEF BlockerConfirmed, trusted, forTarget
  <2>2. QED
    BY <2>1 DEF ApiRules, CurrentWebhookRules
<1>6. OperationalChecks(doc, snap) \subseteq Statuses
  BY SoftChecks, AddonAndHealthChecks, ReverseCompatibilityFacts DEF OperationalChecks
<1> HIDE DEF trusted, forTarget, blocker
<1>7. QED
  BY <1>2, <1>3, <1>4, <1>5, <1>6
(* Operational readiness leaves the eligibility alone, keeps a stop and    *)
(* adds its own; what it still calls ready or risky was both before.       *)
LEMMA OperationalFacts ==
  ASSUME EvidenceOK, NEW i \in Assessments
  PROVE  LET o == ApplyOperationalReadiness(i, doc, snap)
         IN  /\ o \in Assessments /\ o.eligibility = i.eligibility
             /\ o.readiness = "blocked" <=> i.readiness = "blocked" \/ BlockerConfirmed
             /\ o.readiness \in {"ready", "high_risk"} =>
                  /\ i.readiness \in {"ready", "high_risk"}
                  /\ doc # NoReport /\ "unknown" \notin OperationalChecks(doc, snap)
<1> DEFINE checks == IF doc = NoReport THEN {"unknown"} ELSE OperationalChecks(doc, snap)
           operational == ReadinessFromChecks(checks)
           combined == CombineReadiness(i.readiness, operational)
           o == ApplyOperationalReadiness(i, doc, snap)
<1>1. checks \subseteq Statuses /\ ("fail" \in checks <=> BlockerConfirmed)
  <2>1. CASE doc = NoReport
    BY <2>1 DEF Statuses, BlockerConfirmed
  <2>2. CASE doc # NoReport
    BY <2>2, ChecksFacts
  <2>3. QED
    BY <2>1, <2>2
<1>2. o = [i EXCEPT !.readiness = combined,
                    !.complete = @ /\ "unknown" \notin checks /\ combined # "insufficient_evidence"]
  BY DEF ApplyOperationalReadiness
<1> HIDE DEF checks, o
<1>3. /\ operational \in ReadinessValues
      /\ operational = "blocked" <=> BlockerConfirmed
      /\ operational \in {"ready", "high_risk"} => "unknown" \notin checks
  <2>1. /\ Worst(checks) \in Statuses
        /\ Worst(checks) = "fail" <=> "fail" \in checks
        /\ Worst(checks) = "unknown" <=> "unknown" \in checks /\ "fail" \notin checks
    BY <1>1, WorstFacts
  <2>2. QED
    BY <1>1, <2>1 DEF ReadinessFromChecks, ReadinessValues, Statuses
<1> HIDE DEF operational
<1>4. i.readiness \in ReadinessValues
  BY DEF Assessments
<1>5. /\ combined \in ReadinessValues
      /\ combined = "blocked" <=> i.readiness = "blocked" \/ operational = "blocked"
      /\ combined \in {"ready", "high_risk"} =>
           i.readiness \in {"ready", "high_risk"} /\ operational \in {"ready", "high_risk"}
  BY <1>3, <1>4 DEF CombineReadiness, ReadinessValues
<1> HIDE DEF combined
<1>6. o \in Assessments /\ o.eligibility = i.eligibility /\ o.readiness = combined
  BY <1>2, <1>5 DEF Assessments
<1>7. ASSUME "unknown" \notin checks
      PROVE  doc # NoReport /\ "unknown" \notin OperationalChecks(doc, snap)
  BY <1>7 DEF checks
<1>8. QED
  BY <1>3, <1>5, <1>6, <1>7 DEF o

(* The recommendation stops exactly where a pass before it did.            *)
LEMMA RecommendationFacts ==
  ASSUME NEW o \in Assessments
  PROVE  LET a == ApplyRecommendation(o)
         IN  /\ a \in Assessments /\ a.eligibility = o.eligibility /\ a.readiness = o.readiness
             /\ a.decision = "do_not_proceed" <=>
                  o.eligibility = "unavailable" \/ o.readiness = "blocked"
             /\ a.decision = "do_not_proceed" => a.confidence = "high"
             /\ Valid(a)
<1> DEFINE a == ApplyRecommendation(o)
           r == Recommendation(o)
           stop == o.eligibility = "unavailable" \/ o.readiness = "blocked"
           lost == o.eligibility = "unknown" \/ o.readiness = "insufficient_evidence" \/ ~o.complete
<1>1. /\ o.eligibility \in {"unknown", "unavailable", "eligible"}
      /\ o.readiness \in ReadinessValues /\ o.complete \in BOOLEAN
  BY DEF Assessments
<1>2. /\ stop => r = <<"do_not_proceed", "high">>
      /\ ~stop /\ lost => r = <<"operator_decision_required", "low">>
      /\ ~stop /\ ~lost =>
           r \in {<<"fix_forward_preferred", "medium">>, <<"rollback_preferred", "medium">>}
  BY <1>1 DEF Recommendation, ReadinessValues
<1>3. /\ r[1] \in Decisions /\ r[2] \in Confidences
      /\ r[1] = "do_not_proceed" <=> stop
      /\ r[1] = "do_not_proceed" => r[2] = "high"
      /\ r[1] = "rollback_preferred" => ~stop /\ ~lost
      /\ r[2] = "high" => r[1] = "do_not_proceed"
  BY <1>2 DEF Decisions, Confidences
<1>4. a = [o EXCEPT !.decision = r[1], !.confidence = r[2]]
  BY DEF ApplyRecommendation
<1> HIDE DEF r, a
<1>5. /\ a \in Assessments /\ a.eligibility = o.eligibility /\ a.readiness = o.readiness
      /\ a.decision = r[1] /\ a.confidence = r[2]
  BY <1>3, <1>4 DEF Assessments
<1>6. Valid(a)
  BY <1>1, <1>3, <1>5 DEF Valid
<1>7. QED
  BY <1>3, <1>5, <1>6 DEF a

(* The four passes together. *)
LEMMA AssessedFacts ==
  ASSUME EvidenceOK
  PROVE  LET a == Assessed(doc, snap)
         IN  /\ a \in Assessments /\ Valid(a)
             /\ a.decision = "do_not_proceed" <=> StopConfirmed
             /\ a.decision = "do_not_proceed" => a.confidence = "high"
             /\ a.readiness \in {"ready", "high_risk"} =>
                  /\ InsightsRead /\ doc # NoReport
                  /\ "unknown" \notin OperationalChecks(doc, snap)
<1> DEFINE e == EvaluateEligibility(snap)
           i == ApplyRollbackInsights(e, snap)
           o == ApplyOperationalReadiness(i, doc, snap)
           a == ApplyRecommendation(o)
<1>1. Assessed(doc, snap) = a
  BY DEF Assessed
<1>2. e \in Assessments /\ (e.eligibility = "unavailable" <=> HistoryRead /\ ~RollbackOpen)
  BY EligibilityFacts
<1> HIDE DEF e
<1>3. /\ i \in Assessments /\ i.eligibility = e.eligibility
      /\ i.readiness = "blocked" <=>
           InsightsRead /\ \E x \in snap.insights : x.status \in {"ERROR", "UNKNOWN"}
      /\ i.readiness \in {"ready", "high_risk"} => InsightsRead
  BY <1>2, InsightsFacts
<1> HIDE DEF i
<1>4. /\ o \in Assessments /\ o.eligibility = i.eligibility
      /\ o.readiness = "blocked" <=> i.readiness = "blocked" \/ BlockerConfirmed
      /\ o.readiness \in {"ready", "high_risk"} =>
           /\ i.readiness \in {"ready", "high_risk"}
           /\ doc # NoReport /\ "unknown" \notin OperationalChecks(doc, snap)
  BY <1>3, OperationalFacts
<1> HIDE DEF o
<1>5. /\ a \in Assessments /\ a.readiness = o.readiness /\ Valid(a)
      /\ a.decision = "do_not_proceed" <=> o.eligibility = "unavailable" \/ o.readiness = "blocked"
      /\ a.decision = "do_not_proceed" => a.confidence = "high"
  BY <1>4, RecommendationFacts
<1> HIDE DEF a
<1>6. QED
  BY <1>1, <1>2, <1>3, <1>4, <1>5 DEF StopConfirmed
-----------------------------------------------------------------------------
(* The command *)

Before == {"start", "cluster", "insights", "insight", "updates", "update", "versions", "assess"}
AllOld == [f \in Artefacts |-> "old"]

IInv ==
  /\ EvidenceOK
  /\ pc \in Before \cup {"report", "done"}
  /\ pc \in Before => assessment = NoAssessment
  /\ pc \in Before \cup {"report"} => files = AllOld
  /\ pc = "report" => assessment = Assessed(doc, snap)
  /\ pc = "done" => assessment \in {NoAssessment, Assessed(doc, snap)}
  /\ VerdictReachesTheShell

LEMMA EmptySnapshot ==
  [current |-> NoVersion, status |-> "", supportType |-> "", targetStatus |-> "",
   insights |-> {}, updates |-> {}, errors |-> {}] \in Snapshots
<1>1. "" \in Texts /\ "" \in TargetStatuses /\ NoVersion \in Int
  BY DEF Texts, TargetStatuses, NoVersion
<1>2. QED
  BY <1>1 DEF Snapshots

LEMMA InitIInv == Init => IInv
BY EmptySnapshot DEF Init, IInv, EvidenceOK, Before, AllOld, VerdictReachesTheShell

(* The calls shape the snapshot and nothing else. *)
LEMMA CallStep ==
  ASSUME IInv, pc \in Before, snap' \in Snapshots,
         pc' \in Before, UNCHANGED <<doc, assessment, files, exit>>
  PROVE  IInv'
BY DEF IInv, EvidenceOK, Before, VerdictReachesTheShell

LEMMA SnapshotSteps ==
  ASSUME IInv,
         CollectCluster \/ ListInsights \/ DescribeInsight \/ InsightsDone \/ ListUpdates
           \/ DescribeUpdate \/ UpdatesDone \/ CollectClusterVersions
  PROVE  IInv'
<1> USE DEF Go
<1>1. snap \in Snapshots
  BY DEF IInv, EvidenceOK
<1>2. ASSUME NEW key \in Keys, Fail(key) PROVE snap' \in Snapshots
  BY <1>1, <1>2 DEF Fail, Snapshots
<1>3. /\ pc \in Before /\ pc' \in Before /\ UNCHANGED <<doc, assessment, files, exit>>
  BY DEF CollectCluster, ListInsights, DescribeInsight, InsightsDone, ListUpdates,
         DescribeUpdate, UpdatesDone, CollectClusterVersions, Before
<1>4. CASE CollectCluster
  <2>1. \A t \in STRING : t \in Texts
    BY DEF Texts
  <2>2. ASSUME NEW c \in Clusters,
               snap' = [snap EXCEPT !.current = c.current, !.status = c.status,
                                    !.supportType = c.supportType]
        PROVE  snap' \in Snapshots
    <3>1. c.current \in Int /\ c.status \in Texts /\ c.supportType \in Texts
      BY <2>1, ShapesAssumption DEF ClusterRecords
    <3>2. QED
      BY <1>1, <2>2, <3>1 DEF Snapshots
  <2>3. "describe-cluster" \in Keys
    BY DEF Keys, HistoryKeys
  <2>4. snap' \in Snapshots
    BY <1>2, <1>4, <2>2, <2>3 DEF CollectCluster
  <2>5. QED
    BY <1>3, <2>4, CallStep
<1>5. CASE ListInsights \/ ListUpdates
  <2>1. "list-rollback-insights" \in Keys /\ "list-updates" \in Keys
    BY DEF Keys, HistoryKeys
  <2>2. snap' \in Snapshots
    BY <1>1, <1>2, <1>5, <2>1 DEF ListInsights, ListUpdates
  <2>3. QED
    BY <1>3, <2>2, CallStep
<1>6. CASE DescribeInsight
  <2>1. PICK i \in InsightValues, failed \in BOOLEAN :
          snap' = [snap EXCEPT !.insights = @ \cup {i},
                               !.errors = @ \cup IF failed THEN {"describe-rollback-insight"} ELSE {}]
    BY <1>6 DEF DescribeInsight
  <2>2. "describe-rollback-insight" \in Keys
    BY DEF Keys
  <2>3. snap' \in Snapshots
    BY <1>1, <2>1, <2>2 DEF Snapshots
  <2>4. QED
    BY <1>3, <2>3, CallStep
<1>7. CASE DescribeUpdate
  <2>1. "describe-update" \in Keys
    BY DEF Keys, HistoryKeys
  <2>2. ASSUME NEW u \in UpdateValues, snap' = [snap EXCEPT !.updates = @ \cup {u}]
        PROVE  snap' \in Snapshots
    BY <1>1, <2>2 DEF Snapshots
  <2>3. snap' \in Snapshots
    BY <1>2, <1>7, <2>1, <2>2 DEF DescribeUpdate
  <2>4. QED
    BY <1>3, <2>3, CallStep
<1>8. CASE CollectClusterVersions
  <2>1. PICK status \in {"", "STANDARD", "EXTENDED", "UNSUPPORTED"}, failed \in BOOLEAN :
          snap' = [snap EXCEPT !.targetStatus = status,
                               !.errors = @ \cup IF failed THEN {"describe-cluster-versions"} ELSE {}]
    BY <1>8 DEF CollectClusterVersions
  <2>2. status \in TargetStatuses /\ "describe-cluster-versions" \in Keys
    BY DEF TargetStatuses, Keys, HistoryKeys
  <2>3. snap' \in Snapshots
    BY <1>1, <2>1, <2>2 DEF Snapshots
  <2>4. QED
    BY <1>3, <2>3, CallStep
<1>9. CASE InsightsDone \/ UpdatesDone
  BY <1>1, <1>3, <1>9, CallStep DEF InsightsDone, UpdatesDone
<1>10. QED
  BY <1>4, <1>5, <1>6, <1>7, <1>8, <1>9

LEMMA StartStep == IInv /\ Start => IInv'
BY DEF IInv, Start, End, EvidenceOK, Before, VerdictReachesTheShell, Decided, NoAssessment

LEMMA QuietStep == IInv /\ (Interrupt \/ UNCHANGED vars) => IInv'
<1> SUFFICES ASSUME IInv, Interrupt \/ UNCHANGED vars PROVE IInv'
  OBVIOUS
<1>1. UNCHANGED <<pc, doc, snap, assessment, files, exit>>
  BY DEF Interrupt, vars
<1>2. Assessed(doc, snap)' = Assessed(doc, snap) /\ ExitCode(assessment)' = ExitCode(assessment)
  BY <1>1
<1>3. VerdictReachesTheShell'
  BY <1>1, <1>2 DEF IInv, VerdictReachesTheShell, Decided
<1>4. QED
  BY <1>1, <1>2, <1>3 DEF IInv, EvidenceOK

(* Validate accepts what the passes agreed on. *)
LEMMA AssessStep == IInv /\ Assess => IInv'
<1> SUFFICES ASSUME IInv, Assess PROVE IInv'
  OBVIOUS
<1>1. EvidenceOK /\ pc = "assess" /\ UNCHANGED <<doc, snap, files>>
  BY DEF IInv, Assess
<1>2. Valid(Assessed(doc, snap))
  BY <1>1, AssessedFacts
<1>3. pc' = "report" /\ assessment' = Assessed(doc, snap)
  BY <1>2 DEF Assess
<1>4. Assessed(doc, snap)' = Assessed(doc, snap)
  BY <1>1
<1>5. EvidenceOK' /\ VerdictReachesTheShell'
  BY <1>1, <1>3 DEF EvidenceOK, VerdictReachesTheShell
<1>6. files = AllOld
  BY <1>1 DEF IInv, Before
<1>7. QED
  BY <1>1, <1>3, <1>4, <1>5, <1>6 DEF IInv, Before, AllOld

LEMMA ReportStep == IInv /\ (Report \/ ReportFails) => IInv'
<1> SUFFICES ASSUME IInv, Report \/ ReportFails PROVE IInv'
  OBVIOUS
<1>1. pc = "report" /\ pc' = "done" /\ UNCHANGED <<doc, snap, assessment>>
  BY DEF Report, ReportFails, End
<1>2. Assessed(doc, snap)' = Assessed(doc, snap) /\ ExitCode(assessment)' = ExitCode(assessment)
  BY <1>1
<1>3. VerdictReachesTheShell'
  <2>1. CASE ReportFails
    BY <1>1, <2>1 DEF IInv, ReportFails, End, VerdictReachesTheShell, AllOld
  <2>2. CASE Report
    <3>1. PICK t \in Targets : \E good \in 0 .. Len(t), left \in {"old", "torn"} :
            /\ files' = Written(t, good, left)
            /\ exit' = IF good = Len(t) THEN ExitCode(assessment) ELSE 4
      BY <2>2 DEF Report, End
    <3>2. PICK good \in 0 .. Len(t), left \in {"old", "torn"} :
            /\ files' = Written(t, good, left)
            /\ exit' = IF good = Len(t) THEN ExitCode(assessment) ELSE 4
      BY <3>1
    <3>3. CASE good # Len(t)
      BY <1>1, <3>2, <3>3 DEF VerdictReachesTheShell
    <3>4. CASE good = Len(t)
      <4>1. \E i \in 1 .. good : t[i] = "json"
        BY <3>4, ShapesAssumption
      <4>2. files' = [f \in Artefacts |-> IF \E i \in 1 .. good : t[i] = f THEN "whole" ELSE "old"]
        BY <3>2, <3>4 DEF Written
      <4>3. files'["json"] = "whole" /\ \A f \in Artefacts : files'[f] # "torn"
        BY <4>1, <4>2 DEF Artefacts
      <4>4. exit' = ExitCode(assessment)'
        BY <1>2, <3>2, <3>4
      <4>5. QED
        BY <1>1, <4>3, <4>4 DEF VerdictReachesTheShell
    <3>5. QED
      BY <3>3, <3>4
  <2>3. QED
    BY <2>1, <2>2
<1>4. QED
  BY <1>1, <1>2, <1>3 DEF IInv, EvidenceOK, Before
-----------------------------------------------------------------------------
(* The inductive invariant holds of every rollback assessment. *)
THEOREM Invariance == Spec => []IInv
<1>1. IInv /\ [Next]_vars => IInv'
  BY SnapshotSteps, StartStep, QuietStep, AssessStep, ReportStep DEF Next, Step
<1>2. QED
  BY InitIInv, <1>1, PTL DEF Spec

(* An assessment that is there is the one of the passes. *)
LEMMA DecidedFacts ==
  ASSUME IInv, assessment.decision # "" \/ assessment.readiness # ""
  PROVE  EvidenceOK /\ assessment = Assessed(doc, snap)
<1>1. NoAssessment.decision = "" /\ NoAssessment.readiness = ""
  BY DEF NoAssessment
<1>2. QED
  BY <1>1 DEF IInv

(* do_not_proceed rests on evidence that was read, is recent and is about  *)
(* this cluster (ApplyRollbackInsights, ApplyOperationalReadiness).        *)
THEOREM StopConfirmedAlways == Spec => []StopIsConfirmed
<1>1. IInv => StopIsConfirmed
  BY DecidedFacts, AssessedFacts DEF StopIsConfirmed
<1>2. QED
  BY <1>1, Invariance, PTL

(* A stop that one source confirms survives the passes after it, whatever  *)
(* the other sources lost (applyRecommendation).                           *)
THEOREM StopHolds == Spec => []ConfirmedStopHolds
<1>1. IInv => ConfirmedStopHolds
  BY DecidedFacts, AssessedFacts DEF ConfirmedStopHolds, Decided
<1>2. QED
  BY <1>1, Invariance, PTL

(* A readiness without a stop and without missing evidence was earned.     *)
THEOREM ReadinessEarned == Spec => []ReadinessIsEarned
<1>1. IInv => ReadinessIsEarned
  <2> SUFFICES ASSUME IInv, assessment.readiness \in {"ready", "high_risk"}
               PROVE  ReadinessIsEarned
    BY DEF ReadinessIsEarned
  <2>1. assessment.readiness # ""
    OBVIOUS
  <2>2. EvidenceOK /\ InsightsRead /\ doc # NoReport /\ "unknown" \notin OperationalChecks(doc, snap)
    BY <2>1, DecidedFacts, AssessedFacts
  <2>3. /\ SelfManagedNodeCheck(doc) # "unknown" /\ CoverageCheck(doc) # "unknown"
        /\ WorkloadHealthCheck(doc) # "unknown"
    BY <2>2 DEF OperationalChecks
  <2>4. ~Blocks(doc)
    BY <2>3 DEF WorkloadHealthCheck, Gated
  <2>5. doc.age \in Int /\ MaxAge \in Nat /\ FutureSkew \in Nat
    BY <2>2, ShapesAssumption, RollbackAssumption DEF EvidenceOK, IsDocument
  <2>6. /\ doc.cluster \in {TheCluster, ""} /\ (doc.cluster = "" => ~doc.context)
        /\ doc.cluster = TheCluster => doc.age \in -FutureSkew .. MaxAge
    <3>1. TheCluster # ""
      BY DEF TheCluster
    <3>2. ManifestOnly(doc) \/ (doc.cluster = TheCluster /\ ~(doc.age > MaxAge \/ doc.age < -FutureSkew))
      BY <2>4 DEF Blocks, WrongCluster, Untimely
    <3>3. ManifestOnly(doc) => doc.cluster = "" /\ ~doc.context
      BY DEF ManifestOnly
    <3>4. ~(doc.age > MaxAge \/ doc.age < -FutureSkew) => doc.age \in -FutureSkew .. MaxAge
      BY <2>5
    <3>5. QED
      BY <3>1, <3>2, <3>3, <3>4
  <2>7. /\ doc.coverage["kubernetes"] = "complete"
        /\ \A p \in DOMAIN doc.coverage : doc.coverage[p] # "partial"
    BY <2>3 DEF SelfManagedNodeCheck, CoverageCheck
  <2>8. QED
    BY <2>2, <2>6, <2>7 DEF ReadinessIsEarned
<1>2. QED
  BY <1>1, Invariance, PTL

(* Validate never rejects what the passes agreed on, and the shell hears   *)
(* the verdict with whole reports, or an error (rollbackExitCode).         *)
THEOREM VerdictDelivered == Spec => []VerdictReachesTheShell
BY Invariance, PTL DEF IInv
-----------------------------------------------------------------------------
(* What "complete" is worth: only the insights pass ever says it, of calls *)
(* that it looked at itself and of an assessment with nothing left to      *)
(* verify; no pass takes away what the eligibility pass left to verify of  *)
(* an eligible cluster (AutoUpgradeUnknown).                               *)
LEMMA CompleteInsights ==
  ASSUME NEW e \in Assessments,
         e.eligibility = "eligible" => AutoUpgradeUnknown \in e.unverified,
         snap.errors \subseteq Keys
  PROVE  LET i == ApplyRollbackInsights(e, snap)
         IN  /\ i.eligibility = e.eligibility
             /\ i.complete => e.eligibility # "eligible" /\ snap.errors \subseteq HistoryKeys
<1> DEFINE i == ApplyRollbackInsights(e, snap)
           lost == snap.errors \cap {"list-rollback-insights", "describe-rollback-insight"} # {}
           b == [e EXCEPT !.unverified = @ \ {FeatureUnverified}]
<1>1. b \in Assessments /\ b.eligibility = e.eligibility
  BY DEF Assessments
<1>2. b.unverified = {} => e.eligibility # "eligible"
  BY DEF Assessments, AutoUpgradeUnknown, FeatureUnverified
<1>3. ASSUME NEW x \in Assessments, NEW reason
      PROVE  LET y == InsightsUnusable(x, reason)
             IN  y.eligibility = x.eligibility /\ y.complete = FALSE
  BY DEF InsightsUnusable, Assessments
<1>4. \/ i = InsightsUnusable(e, "EKS_INSIGHTS_UNAVAILABLE")
      \/ i = InsightsUnusable(b, "EKS_INSIGHTS_STALE")
      \/ i = [b EXCEPT !.readiness = "blocked", !.complete = FALSE,
                       !.decision = "do_not_proceed", !.confidence = "high"]
      \/ ~lost /\ i = [b EXCEPT !.readiness = "high_risk", !.complete = b.unverified = {},
                                !.decision = "operator_decision_required", !.confidence = "medium"]
      \/ i = [b EXCEPT !.readiness = "insufficient_evidence", !.complete = FALSE,
                       !.confidence = "low"]
      \/ /\ ~lost /\ b.unverified = {}
         /\ i = [b EXCEPT !.readiness = "ready", !.complete = TRUE,
                          !.decision = "operator_decision_required", !.confidence = "medium"]
  BY DEF ApplyRollbackInsights
<1>5. ~lost => snap.errors \subseteq HistoryKeys
  BY DEF Keys
<1> HIDE DEF i, b, lost
<1>6. /\ i.eligibility = e.eligibility
      /\ i.complete => ~lost /\ b.unverified = {}
  BY <1>1, <1>3, <1>4 DEF Assessments
<1>7. QED
  BY <1>2, <1>5, <1>6 DEF i

LEMMA CompleteAssessed ==
  ASSUME EvidenceOK
  PROVE  LET a == Assessed(doc, snap)
         IN  /\ a.complete => a.eligibility # "eligible" /\ snap.errors \subseteq HistoryKeys
             /\ a.decision \in {"operator_decision_required", "do_not_proceed"}
<1> DEFINE e == EvaluateEligibility(snap)
           i == ApplyRollbackInsights(e, snap)
           o == ApplyOperationalReadiness(i, doc, snap)
           a == ApplyRecommendation(o)
<1>1. Assessed(doc, snap) = a
  BY DEF Assessed
<1>2. e \in Assessments /\ (e.eligibility = "eligible" => AutoUpgradeUnknown \in e.unverified)
  BY EligibilityFacts DEF EvaluateEligibility
<1>3. snap.errors \subseteq Keys
  BY DEF EvidenceOK, Snapshots
<1> HIDE DEF e
<1>4. /\ i \in Assessments /\ i.eligibility = e.eligibility
      /\ i.complete => e.eligibility # "eligible" /\ snap.errors \subseteq HistoryKeys
  BY <1>2, <1>3, InsightsFacts, CompleteInsights
<1> HIDE DEF i
<1>5. o \in Assessments /\ o.eligibility = i.eligibility /\ (o.complete => i.complete)
  <2>1. o \in Assessments /\ o.eligibility = i.eligibility
    BY <1>4, OperationalFacts
  <2>2. \E c, r : o = [i EXCEPT !.readiness = r, !.complete = @ /\ c]
    BY DEF ApplyOperationalReadiness
  <2> HIDE DEF o
  <2>3. o.complete => i.complete
    BY <1>4, <2>2 DEF Assessments
  <2>4. QED
    BY <2>1, <2>3
<1> HIDE DEF o
<1>6. ~(o.eligibility = "eligible" /\ o.complete)
  BY <1>4, <1>5
<1>7. Recommendation(o)[1] \in {"operator_decision_required", "do_not_proceed"}
  <2>1. /\ o.eligibility \in {"unknown", "unavailable", "eligible"} /\ o.complete \in BOOLEAN
    BY <1>5 DEF Assessments
  <2>2. Recommendation(o) \in {<<"do_not_proceed", "high">>, <<"operator_decision_required", "low">>}
    BY <1>6, <2>1 DEF Recommendation
  <2>3. QED
    BY <2>2
<1>8. /\ a.complete = o.complete /\ a.eligibility = o.eligibility
      /\ a.decision = Recommendation(o)[1]
  BY <1>5 DEF ApplyRecommendation, Assessments
<1>9. QED
  BY <1>1, <1>4, <1>5, <1>7, <1>8

(* "Complete" overlooks lost evidence only where the eligibility pass had  *)
(* already given up: the calls of the upgrade history (insights.go:80).    *)
OnlyHistoryIsOverlooked == assessment.complete => snap.errors \subseteq HistoryKeys

THEOREM CompleteOverlooksHistory == Spec => []OnlyHistoryIsOverlooked
<1>1. IInv => OnlyHistoryIsOverlooked
  <2> SUFFICES ASSUME IInv, assessment.complete PROVE snap.errors \subseteq HistoryKeys
    BY DEF OnlyHistoryIsOverlooked
  <2>1. NoAssessment.complete = FALSE
    BY DEF NoAssessment
  <2>2. EvidenceOK /\ assessment = Assessed(doc, snap)
    BY <2>1 DEF IInv
  <2>3. QED
    BY <2>2, CompleteAssessed
<1>2. QED
  BY <1>1, Invariance, PTL

(* An eligible cluster's assessment is never complete, so the command      *)
(* prefers neither the rollback nor going on, and never exits with 0       *)
(* (rollbackExitCode).                                                     *)
NothingIsPreferred ==
  /\ assessment.complete => assessment.eligibility # "eligible"
  /\ assessment.decision \in {"", "operator_decision_required", "do_not_proceed"}
  /\ exit # 0

LEMMA NothingPreferredYet ==
  ASSUME IInv, exit # 0
  PROVE  NothingIsPreferred
<1>1. NoAssessment.complete = FALSE /\ NoAssessment.decision = ""
  BY DEF NoAssessment
<1>2. CASE assessment = NoAssessment
  BY <1>1, <1>2 DEF NothingIsPreferred
<1>3. CASE assessment # NoAssessment
  <2>1. EvidenceOK /\ assessment = Assessed(doc, snap)
    BY <1>3 DEF IInv
  <2>2. QED
    BY <2>1, CompleteAssessed DEF NothingIsPreferred
<1>4. QED
  BY <1>2, <1>3

LEMMA ExitStep ==
  ASSUME NothingIsPreferred, [Next]_vars
  PROVE  exit' # 0
<1>1. CASE Start \/ Assess
  <2>1. exit' = 1 \/ exit' = 4 \/ exit' = exit
    BY <1>1 DEF Start, Assess, End
  <2>2. exit # 0
    BY DEF NothingIsPreferred
  <2>3. QED
    BY <2>1, <2>2
<1>2. CASE ReportFails
  BY <1>2 DEF ReportFails, End
<1>3. CASE Report
  <2>1. exit' \in {4, ExitCode(assessment)}
    BY <1>3 DEF Report, End
  <2>2. assessment.decision # "rollback_preferred"
    BY DEF NothingIsPreferred
  <2>3. QED
    BY <2>1, <2>2 DEF ExitCode
<1>4. CASE \/ CollectCluster \/ ListInsights \/ DescribeInsight \/ InsightsDone \/ ListUpdates
           \/ DescribeUpdate \/ UpdatesDone \/ CollectClusterVersions \/ Interrupt
           \/ UNCHANGED vars
  BY <1>4 DEF CollectCluster, ListInsights, DescribeInsight, InsightsDone, ListUpdates,
     DescribeUpdate, UpdatesDone, CollectClusterVersions, Interrupt, Go, vars, NothingIsPreferred
<1>5. QED
  BY <1>1, <1>2, <1>3, <1>4 DEF Next, Step

THEOREM NothingPreferred == Spec => []NothingIsPreferred
<1> DEFINE Nonzero == exit # 0
<1>1. Init => Nonzero
  <2>1. Init => exit = -1
    BY Zenon DEF Init
  <2>2. QED
    BY <2>1
<1>2. IInv /\ Nonzero => NothingIsPreferred
  BY NothingPreferredYet
<1>3. NothingIsPreferred /\ [Next]_vars => Nonzero'
  BY ExitStep
<1> HIDE DEF Nonzero
<1>4. QED
  BY <1>1, <1>2, <1>3, Invariance, PTL DEF Spec
=============================================================================
