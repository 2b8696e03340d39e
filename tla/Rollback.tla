------------------------------ MODULE Rollback ------------------------------
(***************************************************************************)
(* `kubepreflight rollback plan|assess` (internal/cli/rollback.go and      *)
(* internal/rollback): the findings document is read, the EKS API is       *)
(* called one request after the other, each with its own timeout, and the  *)
(* assessment goes through four passes -- eligibility, insights,           *)
(* operational readiness, recommendation -- that each overwrite part of    *)
(* what the one before them decided.                                       *)
(*                                                                         *)
(* A version is its minor number.  An age is counted back from the time of *)
(* the assessment; a negative age is a time stamp in the future.  Errors   *)
(* under a per-item key are only ever asked for by prefix, so one key      *)
(* stands for the prefix.                                                  *)
(***************************************************************************)
EXTENDS Integers, FiniteSets, Sequences

CONSTANTS
  Reports,       \* the findings documents that --findings may name
  Clusters,      \* what DescribeCluster may answer
  InsightValues, \* what an insight may say
  Targets,       \* the artefacts that --output asks for, in their order
  UpdateValues,  \* what an entry of the update history may say
  MaxInsights, MaxUpdates,  \* bounds on what the lists may hold
  MaxFaults,     \* bound on the error keys an uninterrupted collection gets
  Window,        \* rollbackWindow
  MaxAge,        \* rollbackFindingsMaxAge, insightFreshnessWindow
  FutureSkew     \* rollbackFindingsFutureSkewTolerance

ASSUME RollbackAssumption == {Window, MaxAge, FutureSkew, MaxInsights, MaxUpdates, MaxFaults} \subseteq Nat

NoVersion == -1       \* "" or a version that does not parse
Never == MaxAge + 100 \* no time stamp at all
NoReport == [report |-> "none"]
TheCluster == "this"

(* What the documents and the answers of the API look like. *)
Artefacts == {"json", "md", "html"}
ClusterRecords == [current : Int, status : STRING, supportType : STRING]
InsightRecords == [status : STRING, age : Int]
UpdateRecords == [type : STRING, status : STRING, version : Int, age : Int]
IsDocument(d) ==
  /\ {"cluster", "context", "age", "target", "coverage", "findings"} \subseteq DOMAIN d
  /\ d.cluster \in STRING /\ d.context \in BOOLEAN /\ d.age \in Int /\ d.target \in Int
  /\ "kubernetes" \in DOMAIN d.coverage

ASSUME ShapesAssumption ==
  /\ Clusters \subseteq ClusterRecords /\ InsightValues \subseteq InsightRecords
  /\ UpdateValues \subseteq UpdateRecords /\ \A d \in Reports : IsDocument(d)
  /\ \A t \in Targets : t \in Seq(Artefacts) /\ \E i \in 1 .. Len(t) : t[i] = "json"

VARIABLES
  pc,          \* where RunE is
  doc,         \* the findings report read, or NoReport
  cancelled,   \* the collection's signal context
  snap,        \* the Snapshot
  pending,     \* list entries still to be described
  assessment,  \* the Assessment
  files,       \* per target, what its path holds
  exit         \* the process's exit code, once it has ended

vars == <<pc, doc, cancelled, snap, pending, assessment, files, exit>>

Rank(s) == CASE s = "fail" -> 3 [] s = "unknown" -> 2 [] s = "warning" -> 1 [] OTHER -> 0
Worst(S) == CHOOSE s \in S \cup {"pass"} : \A t \in S \cup {"pass"} : Rank(t) <= Rank(s)
-----------------------------------------------------------------------------
(* Eligibility *)

PreviousMinor(v) == IF v < 1 THEN NoVersion ELSE v - 1
Target(s) == PreviousMinor(s.current)

HistoryKeys == {"describe-cluster", "list-updates", "describe-update", "describe-cluster-versions"}

Matching(s) ==
  {u \in s.updates : /\ u.type = "VersionUpdate" /\ u.status = "Successful"
                     /\ \/ s.current = NoVersion \/ u.version = NoVersion
                        \/ u.version = s.current}

(* latestSuccessfulVersionUpdate, and the window it opened. *)
Expired(s) == \E u \in Matching(s) : /\ \A v \in Matching(s) : u.age <= v.age
                                     /\ u.age >= Window

EligibilityReasons(s) ==
  {r \in {"CLUSTER_NOT_ACTIVE", "NOT_N_MINUS_ONE", "TARGET_UNSUPPORTED",
          "REQUIRES_EXTENDED_SUPPORT", "HISTORY_UNAVAILABLE", "WINDOW_EXPIRED"} :
     CASE r = "CLUSTER_NOT_ACTIVE" -> s.status \notin {"", "ACTIVE"}
       [] r = "NOT_N_MINUS_ONE" -> Target(s) = NoVersion
       [] r = "TARGET_UNSUPPORTED" ->
            Target(s) # NoVersion /\ s.targetStatus \notin {"STANDARD", "EXTENDED"}
       [] r = "REQUIRES_EXTENDED_SUPPORT" ->
            /\ Target(s) # NoVersion /\ s.targetStatus = "EXTENDED"
            /\ s.supportType # "EXTENDED"
       [] r = "HISTORY_UNAVAILABLE" -> Matching(s) = {}
       [] r = "WINDOW_EXPIRED" -> Matching(s) # {} /\ Expired(s)}

FeatureUnverified == "EKS_FEATURE_COMPATIBILITY_UNVERIFIED"
AutoUpgradeUnknown == "END_OF_EXTENDED_SUPPORT_AUTO_UPGRADE_UNKNOWN"

(* EvaluateEligibility.  "unverified" are the reason codes of the          *)
(* recommendation that remainingUnknownEvidence counts.                    *)
EvaluateEligibility(s) ==
  CASE s.errors \cap HistoryKeys # {} ->
         [eligibility |-> "unknown", readiness |-> "insufficient_evidence", complete |-> FALSE,
          unverified |-> {}, decision |-> "operator_decision_required", confidence |-> "low"]
    [] s.errors \cap HistoryKeys = {} /\ EligibilityReasons(s) # {} ->
         [eligibility |-> "unavailable", readiness |-> "blocked", complete |-> FALSE,
          unverified |-> {}, decision |-> "do_not_proceed", confidence |-> "high"]
    [] OTHER ->
         [eligibility |-> "eligible", readiness |-> "insufficient_evidence", complete |-> FALSE,
          unverified |-> {FeatureUnverified, AutoUpgradeUnknown},
          decision |-> "operator_decision_required", confidence |-> "low"]
-----------------------------------------------------------------------------
(* Insights *)

Stale(i) == i.age > MaxAge

(* markInsightsUnavailable, markInsightsStale *)
InsightsUnusable(a, reason) ==
  [a EXCEPT !.readiness = "insufficient_evidence", !.complete = FALSE,
            !.unverified = @ \cup {reason},
            !.decision = "operator_decision_required", !.confidence = "low"]

(* ApplyRollbackInsights, whatever the eligibility was: the readiness is   *)
(* replaced, and one stale insight comes before every other's status.      *)
ApplyRollbackInsights(a, s) ==
  LET b == [a EXCEPT !.unverified = @ \ {FeatureUnverified}]
      statuses == {i.status : i \in s.insights}
  IN  IF s.errors \cap {"list-rollback-insights", "describe-rollback-insight"} # {}
      THEN InsightsUnusable(a, "EKS_INSIGHTS_UNAVAILABLE")
      ELSE IF \E i \in s.insights : Stale(i)
      THEN InsightsUnusable(b, "EKS_INSIGHTS_STALE")
      ELSE IF statuses \cap {"ERROR", "UNKNOWN"} # {}
      THEN [b EXCEPT !.readiness = "blocked", !.complete = FALSE,
                     !.decision = "do_not_proceed", !.confidence = "high"]
      ELSE IF "WARNING" \in statuses
      THEN [b EXCEPT !.readiness = "high_risk", !.complete = b.unverified = {},
                     !.decision = "operator_decision_required", !.confidence = "medium"]
      ELSE IF b.unverified # {}
      THEN [b EXCEPT !.readiness = "insufficient_evidence", !.complete = FALSE, !.confidence = "low"]
      ELSE [b EXCEPT !.readiness = "ready", !.complete = TRUE,
                     !.decision = "operator_decision_required", !.confidence = "medium"]
-----------------------------------------------------------------------------
(* Operational readiness *)

ManifestOnly(d) == d.cluster = "" /\ ~d.context

(* validateClusterEvidenceIdentity *)
WrongCluster(d) == ~ManifestOnly(d) /\ d.cluster # TheCluster

(* validateFindingsFreshness: too old, undated, or from the future. *)
Untimely(d) == ~ManifestOnly(d) /\ (d.age > MaxAge \/ d.age < -FutureSkew)

(* Mutant: only the cluster's identity gates the cluster-specific checks. *)
BlocksByIdentity(d) == WrongCluster(d)

(* blocksClusterSpecificEvidence of the two provenance gates. *)
Blocks(d) == WrongCluster(d) \/ Untimely(d)

(* validateRollbackEvidenceTarget *)
TargetValidated(d, s) == d.target # NoVersion /\ d.target = Target(s)

RulesOf(d, rules) == {f \in d.findings : f.rule \in rules}

(* applyFindingSignals *)
Signals(d, rules) ==
  {IF f.severity = "Blocker" THEN "fail" ELSE "warning" : f \in RulesOf(d, rules)}

Gated(d, statuses) == IF Blocks(d) THEN "unknown" ELSE Worst(statuses)

ApiRules == {"API-001", "API-002"}
CurrentWebhookRules == {"WH-002"}
TargetGatedRules == {"CRD-001", "CRD-002", "WH-001", "WH-004", "WH-005"}
DisruptionRules == {"PDB-001", "PDB-002", "DRAIN-001", "DRAIN-002", "DRAIN-003", "DRAIN-004"}
Health == {"WORKLOAD-001", "DRAIN-005"}

NodegroupStatus(ng, s) ==
  CASE ng.version = NoVersion -> "unknown"
    [] ng.version # NoVersion
         /\ (ng.issues \/ (ng.version = s.current /\ Target(s) # NoVersion)) -> "warning"
    [] OTHER -> "pass"

NodegroupRollbackCheck(d, s) == Gated(d, {NodegroupStatus(ng, s) : ng \in d.nodegroups})

(* Self-managed nodes are only known through the cluster itself. *)
SelfManagedNodeCheck(d) == IF d.coverage["kubernetes"] = "complete" THEN "pass" ELSE "unknown"

AddonStatus(addon) ==
  CASE addon.unverified -> "unknown" [] ~addon.unverified /\ ~addon.compatible -> "warning"
    [] OTHER -> "pass"

ManagedAddonCheck(d) ==
  Gated(d, {AddonStatus(a) : a \in d.addons} \cup Signals(d, {"ADDON-001", "ADDON-002"}))

SelfManagedAddonCheck(d) == Gated(d, Signals(d, {"ADDON-002"}))

WorkloadHealthCheck(d) == Gated(d, Signals(d, Health))

(* Disruption findings only warn: the evidence that would make them block  *)
(* is never collected (rollbackOperationEvidenceFromAssessment).           *)
DisruptionCheck(d) == Gated(d, {"warning" : f \in RulesOf(d, DisruptionRules)})

(* reverseCompatibilityCheck: API findings are gated by the target they    *)
(* were made for, and by age only upwards; those on CRDs and webhooks also *)
(* by cluster and age.                                                     *)
ReverseCompatibilityCheck(d, s) ==
  LET gate(rules) == IF TargetValidated(d, s) THEN Signals(d, rules)
                     ELSE {"unknown" : f \in RulesOf(d, rules)}
      live == RulesOf(d, CurrentWebhookRules \cup TargetGatedRules)
  IN Worst(gate(ApiRules)
           \cup {"unknown" : f \in IF Untimely(d) THEN RulesOf(d, ApiRules) ELSE {}}
           \cup (IF Blocks(d) THEN {"unknown" : f \in live}
                 ELSE Signals(d, CurrentWebhookRules) \cup gate(TargetGatedRules)))

FargateCheck(d) ==
  CASE ~d.eks -> "pass"
    [] d.eks /\ d.coverage["aws"] # "complete" -> "unknown"
    [] OTHER -> Worst({"warning" : f \in RulesOf(d, {"FARGATE-001"})})

(* A plane that was asked for and lost something, whichever it is. *)
CoverageCheck(d) ==
  IF \E p \in DOMAIN d.coverage : d.coverage[p] = "partial" THEN "unknown" ELSE "pass"

(* The nine checks of ApplyOperationalReadiness. *)
OperationalChecks(d, s) ==
  {NodegroupRollbackCheck(d, s), SelfManagedNodeCheck(d), FargateCheck(d),
   ManagedAddonCheck(d), SelfManagedAddonCheck(d), WorkloadHealthCheck(d),
   DisruptionCheck(d), ReverseCompatibilityCheck(d, s), CoverageCheck(d)}

ReadinessFromChecks(checks) ==
  CASE Worst(checks) = "fail" -> "blocked"
    [] Worst(checks) = "unknown" -> "insufficient_evidence"
    [] Worst(checks) = "warning" -> "high_risk"
    [] OTHER -> "ready"

(* Mutant: a readiness that is not blocked gives way to the newer one. *)
CombineReadinessNewest(existing, operational) ==
  IF existing = "blocked" THEN existing ELSE operational

CombineReadiness(existing, operational) ==
  CASE existing = "ready" -> operational
    [] existing # "ready" /\ operational = "ready" -> existing
    [] OTHER -> IF "blocked" \in {existing, operational} THEN "blocked"
                ELSE IF "insufficient_evidence" \in {existing, operational}
                     THEN "insufficient_evidence" ELSE "high_risk"

(* Without a findings document one check, of unknown status, stands for    *)
(* the missing evidence.                                                   *)
ApplyOperationalReadiness(a, d, s) ==
  LET checks == IF d = NoReport THEN {"unknown"} ELSE OperationalChecks(d, s)
      combined == CombineReadiness(a.readiness, ReadinessFromChecks(checks))
  IN [a EXCEPT !.readiness = combined,
               !.complete = @ /\ "unknown" \notin checks /\ combined # "insufficient_evidence"]
-----------------------------------------------------------------------------
(* Recommendation *)

(* Mutant: lost evidence is looked at before the eligibility. *)
RecommendationEvidenceFirst(a) ==
  CASE a.readiness = "insufficient_evidence" -> <<"operator_decision_required", "low">>
    [] a.readiness # "insufficient_evidence"
         /\ (a.eligibility = "unavailable" \/ a.readiness = "blocked") -> <<"do_not_proceed", "high">>
    [] OTHER -> <<"operator_decision_required", "low">>

Recommendation(a) ==
  CASE a.eligibility = "unavailable" \/ a.readiness = "blocked" -> <<"do_not_proceed", "high">>
    [] /\ a.eligibility # "unavailable" /\ a.readiness # "blocked"
       /\ (a.eligibility = "unknown" \/ a.readiness = "insufficient_evidence" \/ ~a.complete) ->
         <<"operator_decision_required", "low">>
    [] /\ a.eligibility = "eligible" /\ a.complete /\ a.readiness = "high_risk" ->
         <<"fix_forward_preferred", "medium">>
    [] OTHER -> <<"rollback_preferred", "medium">>

ApplyRecommendation(a) ==
  [a EXCEPT !.decision = Recommendation(a)[1], !.confidence = Recommendation(a)[2]]

(* Mutant: no exemption for a provider's stop. *)
ValidStrict(a) ==
  /\ a.decision = "rollback_preferred" => a.eligibility = "eligible"
  /\ a.readiness = "insufficient_evidence" => a.confidence # "high"

(* Assessment.Validate, as far as an assessment can fail it. *)
Valid(a) ==
  /\ a.decision = "rollback_preferred" => a.eligibility = "eligible"
  /\ a.readiness = "insufficient_evidence" /\ a.confidence = "high" => a.decision = "do_not_proceed"

Assessed(d, s) ==
  ApplyRecommendation(
    ApplyOperationalReadiness(ApplyRollbackInsights(EvaluateEligibility(s), s), d, s))
-----------------------------------------------------------------------------
(* The command *)

NoAssessment == [eligibility |-> "", readiness |-> "", complete |-> FALSE,
                 unverified |-> {}, decision |-> "", confidence |-> ""]

Init ==
  /\ pc = "start" /\ doc = NoReport /\ cancelled = FALSE
  /\ snap = [current |-> NoVersion, status |-> "", supportType |-> "", targetStatus |-> "",
             insights |-> {}, updates |-> {}, errors |-> {}]
  /\ pending = 0 /\ assessment = NoAssessment
  /\ files = [f \in Artefacts |-> "old"] /\ exit = -1

End(code) == pc' = "done" /\ exit' = code

(* The flags are valid; --findings is read before any call, and the AWS    *)
(* configuration loaded.                                                   *)
Start ==
  /\ pc = "start"
  /\ \/ \E d \in Reports \cup {NoReport} : doc' = d /\ pc' = "cluster" /\ UNCHANGED exit
     \/ End(4) /\ UNCHANGED doc
  /\ UNCHANGED <<cancelled, snap, pending, assessment, files>>

Collecting == pc \in {"cluster", "insights", "insight", "updates", "update", "versions"}

(* The collection's signal context; RunE goes on to assess what it has. *)
Interrupt ==
  /\ Collecting /\ ~cancelled
  /\ cancelled' = TRUE
  /\ UNCHANGED <<pc, doc, snap, pending, assessment, files, exit>>

MayFail(key) == cancelled \/ Cardinality(snap.errors \cup {key}) <= MaxFaults
Fail(key) == MayFail(key) /\ snap' = [snap EXCEPT !.errors = @ \cup {key}]
Go(where) == pc' = where /\ UNCHANGED <<doc, cancelled, assessment, files, exit>>

(* DescribeCluster: an error, a timeout or no cluster is one error. *)
CollectCluster ==
  /\ pc = "cluster" /\ UNCHANGED pending /\ Go("insights")
  /\ \/ Fail("describe-cluster")
     \/ /\ ~cancelled
        /\ \E c \in Clusters :
             snap' = [snap EXCEPT !.current = c.current, !.status = c.status,
                                  !.supportType = c.supportType]

(* ListInsights: a page that fails loses the pages before it. *)
ListInsights ==
  /\ pc = "insights"
  /\ \/ Fail("list-rollback-insights") /\ pending' = 0 /\ Go("updates")
     \/ /\ ~cancelled /\ UNCHANGED snap
        /\ \E n \in 0 .. MaxInsights : pending' = n
        /\ Go("insight")

(* DescribeInsight: the record of the list is kept when the call fails. *)
DescribeInsight ==
  /\ pc = "insight" /\ pending > 0 /\ pending' = pending - 1 /\ Go("insight")
  /\ \E i \in InsightValues, failed \in BOOLEAN :
       /\ cancelled => failed
       /\ failed => MayFail("describe-rollback-insight")
       /\ snap' = [snap EXCEPT !.insights = @ \cup {i},
                               !.errors = @ \cup IF failed THEN {"describe-rollback-insight"} ELSE {}]

InsightsDone == pc = "insight" /\ pending = 0 /\ UNCHANGED <<snap, pending>> /\ Go("updates")

ListUpdates ==
  /\ pc = "updates"
  /\ \/ Fail("list-updates") /\ pending' = 0 /\ Go("versions")
     \/ /\ ~cancelled /\ UNCHANGED snap
        /\ \E n \in 0 .. MaxUpdates : pending' = n
        /\ Go("update")

(* DescribeUpdate: an update that cannot be read is left out. *)
DescribeUpdate ==
  /\ pc = "update" /\ pending > 0 /\ pending' = pending - 1 /\ Go("update")
  /\ \/ Fail("describe-update")
     \/ ~cancelled /\ \E u \in UpdateValues : snap' = [snap EXCEPT !.updates = @ \cup {u}]

UpdatesDone == pc = "update" /\ pending = 0 /\ UNCHANGED <<snap, pending>> /\ Go("versions")

(* DescribeClusterVersions for the target: pages read before an error are  *)
(* kept.                                                                   *)
CollectClusterVersions ==
  /\ pc = "versions" /\ UNCHANGED pending /\ Go("assess")
  /\ \E status \in {"", "STANDARD", "EXTENDED", "UNSUPPORTED"}, failed \in BOOLEAN :
       /\ cancelled => failed /\ status = ""
       /\ failed => MayFail("describe-cluster-versions")
       /\ snap' = [snap EXCEPT !.targetStatus = status,
                               !.errors = @ \cup IF failed THEN {"describe-cluster-versions"} ELSE {}]

(* The four passes and Validate, without anything in between; nothing      *)
(* looks at the signal context any more.                                   *)
Assess ==
  /\ pc = "assess"
  /\ assessment' = Assessed(doc, snap)
  /\ IF Valid(Assessed(doc, snap)) THEN pc' = "report" /\ UNCHANGED exit
     ELSE pc' = "rejected" /\ exit' = 1
  /\ cancelled' = FALSE
  /\ UNCHANGED <<doc, snap, pending, files>>

(* rollbackExitCode *)
ExitCode(a) == CASE a.decision = "rollback_preferred" -> 0
                 [] a.decision = "do_not_proceed" -> 2
                 [] OTHER -> 1

(* The terminal summary cannot be rendered, or the directory not made. *)
ReportFails ==
  /\ pc = "report"
  /\ \E code \in {1, 4} : End(code)
  /\ UNCHANGED <<doc, cancelled, snap, pending, assessment, files>>

(* The targets are written in their order, each truncated first; the one   *)
(* that fails ends the command and leaves those before it in place.        *)
Written(targets, good, left) ==
  [f \in Artefacts |->
     IF \E i \in 1 .. good : targets[i] = f THEN "whole"
     ELSE IF good < Len(targets) /\ targets[good + 1] = f THEN left ELSE "old"]

Report ==
  /\ pc = "report"
  /\ \E targets \in Targets : \E good \in 0 .. Len(targets), left \in {"old", "torn"} :
       /\ files' = Written(targets, good, left)
       /\ End(IF good = Len(targets) THEN ExitCode(assessment) ELSE 4)
  /\ UNCHANGED <<doc, cancelled, snap, pending, assessment>>

Step ==
  \/ Start \/ CollectCluster \/ ListInsights \/ DescribeInsight \/ InsightsDone
  \/ ListUpdates \/ DescribeUpdate \/ UpdatesDone \/ CollectClusterVersions
  \/ Assess \/ ReportFails \/ Report

Next == Step \/ Interrupt

Spec == Init /\ [][Next]_vars /\ WF_vars(Step)
-----------------------------------------------------------------------------
(* What the evidence really says, read off without the passes. *)

HistoryRead == snap.errors \cap HistoryKeys = {}
InsightsRead ==
  /\ snap.errors \cap {"list-rollback-insights", "describe-rollback-insight"} = {}
  /\ \A i \in snap.insights : i.age \in Int /\ i.age <= MaxAge

(* The provider would accept the rollback: an active cluster, whose newest *)
(* upgrade to the current version is younger than the window, and a target *)
(* that its support policy covers.                                         *)
RollbackOpen ==
  /\ snap.status \in {"", "ACTIVE"}
  /\ snap.current >= 1
  /\ \/ snap.targetStatus = "STANDARD"
     \/ snap.targetStatus = "EXTENDED" /\ snap.supportType = "EXTENDED"
  /\ \E u \in Matching(snap) : u.age < Window

(* A blocker in findings about this cluster, made less than a day ago, or  *)
(* about an API and made for the rollback's own target.                    *)
BlockerConfirmed ==
  /\ doc # NoReport
  /\ \E f \in doc.findings :
       /\ f.severity = "Blocker"
       /\ LET trusted == \/ doc.cluster = TheCluster /\ doc.age \in -FutureSkew .. MaxAge
                         \/ doc.cluster = "" /\ ~doc.context
              forTarget == snap.current >= 1 /\ doc.target = snap.current - 1
          IN \/ f.rule \in {"API-001", "API-002"} /\ forTarget
             \/ f.rule \in TargetGatedRules /\ trusted /\ forTarget
             \/ f.rule \in {"WH-002", "ADDON-001", "ADDON-002", "WORKLOAD-001", "DRAIN-005"} /\ trusted

StopConfirmed ==
  \/ HistoryRead /\ ~RollbackOpen
  \/ InsightsRead /\ \E i \in snap.insights : i.status \in {"ERROR", "UNKNOWN"}
  \/ BlockerConfirmed

Decided == assessment.decision # ""

(* do_not_proceed always rests on evidence that was read, is recent and is *)
(* about this cluster: a failed call, an interrupt, a stale insight or     *)
(* another cluster's findings never stop a rollback.                       *)
StopIsConfirmed == assessment.decision = "do_not_proceed" => StopConfirmed

(* A stop that one source confirms survives the passes that follow and the *)
(* evidence the other sources lost.                                        *)
ConfirmedStopHolds ==
  Decided /\ StopConfirmed =>
    assessment.decision = "do_not_proceed" /\ assessment.confidence = "high"

(* A readiness without a stop and without missing evidence means that the  *)
(* insights were read and a trusted document came with whole coverage.     *)
ReadinessIsEarned ==
  assessment.readiness \in {"ready", "high_risk"} =>
    /\ InsightsRead
    /\ doc # NoReport
    /\ doc.cluster \in {TheCluster, ""} /\ (doc.cluster = "" => ~doc.context)
    /\ doc.cluster = TheCluster => doc.age \in -FutureSkew .. MaxAge
    /\ doc.coverage["kubernetes"] = "complete"
    /\ \A p \in DOMAIN doc.coverage : doc.coverage[p] # "partial"

(* Whatever was collected, the passes agree on an assessment that Validate *)
(* accepts.  The shell gets its verdict with every report whole: 2 only    *)
(* for a stop, and for a stop that is not delivered whole 4, or 1 with no  *)
(* report written at all.                                                  *)
VerdictReachesTheShell ==
  /\ pc # "rejected"
  /\ pc = "done" /\ Decided =>
       \/ exit = ExitCode(assessment) /\ files["json"] = "whole" /\ "torn" \notin {files[f] : f \in Artefacts}
       \/ exit = 4
       \/ exit = 1 /\ files = [f \in Artefacts |-> "old"]

(* Complete evidence means that none of the calls failed.  (docs: eligibility *)
(* unknown stands for evidence that "could not be collected at all".)      *)
CompleteMeansCollected == assessment.complete => snap.errors = {}
=============================================================================
