---------------------------- MODULE RuleEvidence ----------------------------
(***************************************************************************)
(* Which evidence each of the 31 rules declares it depends on              *)
(* (internal/rules/execution.go), which evidence its Evaluate method       *)
(* actually reads (internal/rules/<rule>.go), and what the registry makes  *)
(* of the declaration (evaluateRuleDependencies, internal/rules/rule.go).  *)
(*                                                                         *)
(* Evidence is named by the collector key whose failure loses it; the      *)
(* dynamic keys that share a prefix ("describe-addon:<name>") are one key, *)
(* and the whole manifest plane is the key "manifests".  One behaviour     *)
(* follows one rule in one scan while more and more collector calls of     *)
(* that scan fail.                                                         *)
(***************************************************************************)
EXTENDS DrainRules

CONSTANTS
  MaxErrors,  \* bound on the collector keys that fail
  Clusters    \* what the rules of module DrainRules may meet

(* The API's own validation: a node has a name, and quantities that are    *)
(* requested or allocatable are not negative.                              *)
ASSUME ClustersAssumption ==
  \A c \in Clusters :
    /\ c = [context |-> c.context, workloads |-> c.workloads, nodes |-> c.nodes,
            pods |-> c.pods, claims |-> c.claims, volumes |-> c.volumes]
    /\ IsFiniteSet(c.nodes) /\ IsFiniteSet(DOMAIN c.pods)
    /\ \A n \in c.nodes : n.name # NoNode /\ \A r \in Resources : n.room[r] \in Nat
    /\ \A k \in DOMAIN c.pods : \A r \in Resources : c.pods[k].asks[r] \in Nat

VARIABLES
  rule,   \* the rule
  mode,   \* per plane: not requested ("off"), requested but nil, or there
  facts,  \* the cluster's objects that context-dependent rules look at
  cluster,  \* the ones that the drain rules look at
  errors  \* the collector keys in the snapshots' Errors maps

evidenceVars == <<rule, mode, facts, cluster, errors>>

VWC == "validatingwebhookconfigurations"
MWC == "mutatingwebhookconfigurations"
CRDs == "customresourcedefinitions"

K8sKeys == {"nodes", "pods", "poddisruptionbudgets", VWC, MWC, "services",
            "endpointslices", CRDs, "deployments", "daemonsets", "statefulsets",
            "persistentvolumes", "persistentvolumeclaims", "coredns-configmap",
            "apiservices", "deprecated-api:"}
AwsKeys == {"describe-cluster", "list-insights", "describe-insight:", "list-addons",
            "describe-addon:", "describe-addon-versions:", "list-nodegroups",
            "describe-nodegroup:", "describe-subnets", "describe-security-group:",
            "describe-vpc:"}
Keys == K8sKeys \cup AwsKeys \cup {"manifests"}

Plane(key) == IF key \in K8sKeys THEN "kubernetes"
              ELSE IF key \in AwsKeys THEN "aws" ELSE "manifests"
Planes == {"kubernetes", "aws", "manifests"}

ManifestRules == {"API-001", "API-002"}
WebhookRules == {"WH-001", "WH-004", "WH-005"}
AddonRules == {"ADDON-001", "ADDON-002"}
NodegroupRules == {"EKS-NG-001", "EKS-NG-002", "EKS-NG-003", "EKS-NG-004"}
InsightRules == {"EKS-INSIGHT-001", "EKS-INSIGHT-002", "EKS-INSIGHT-003"}
ContextRules == {"WH-002", "DRAIN-001", "CRD-002"}
AllRuleIDs ==
  ManifestRules \cup WebhookRules \cup AddonRules \cup NodegroupRules \cup InsightRules
    \cup ContextRules
    \cup {"DRAIN-002", "DRAIN-003", "DRAIN-004", "DRAIN-005", "PDB-001", "PDB-002",
          "NODE-001", "NODE-002", "NODE-003", "NET-002", "WORKLOAD-001", "COREDNS-001",
          "CRD-001", "APISERVICE-001"}

(* NewDefaultRegistry, or NewManifestsOnlyRegistry for --manifests-only. *)
Registered == IF mode["kubernetes"] = "off" THEN ManifestRules ELSE AllRuleIDs
-----------------------------------------------------------------------------
(* What the lists that were collected show of the facts. *)
WebhookServiceReferencePresent == facts.webhookRefs \ errors # {}
ServiceObserved == facts.service /\ "services" \notin errors
HaveK8s == mode["kubernetes"] = "present"

WH002Deps ==
  {VWC, MWC} \cup
    (IF ~HaveK8s \/ {VWC, MWC} \cap errors # {} \/ ~WebhookServiceReferencePresent THEN {}
     ELSE {"services"} \cup (IF ServiceObserved THEN {"endpointslices"} ELSE {}))

(* Mutant: a singleton's pods and PDBs are not declared. *)
DRAIN001DepsBare == {"deployments", "statefulsets"}

DRAIN001Deps ==
  {"deployments", "statefulsets"} \cup
    (IF ~HaveK8s \/ {"deployments", "statefulsets"} \cap errors # {} \/ facts.singletons = {}
     THEN {} ELSE {"pods", "poddisruptionbudgets"})

(* Mutant: the Service list is required only once a Service was observed. *)
CRD002DepsObserved ==
  {CRDs} \cup
    (IF ~HaveK8s \/ CRDs \in errors \/ ~facts.crdRef \/ ~ServiceObserved THEN {}
     ELSE {"services", "endpointslices"})

CRD002Deps ==
  {CRDs} \cup
    (IF ~HaveK8s \/ CRDs \in errors \/ ~facts.crdRef THEN {}
     ELSE {"services"} \cup (IF ServiceObserved THEN {"endpointslices"} ELSE {}))

(* EvidenceDependencies and EvidenceDependenciesFor, rule by rule. *)
Declared(r) ==
  CASE r \in ManifestRules  -> {"deprecated-api:", "manifests"}
    [] r \in WebhookRules   -> {VWC, MWC}
    [] r = "WH-002"         -> WH002Deps
    [] r = "DRAIN-001"      -> DRAIN001Deps
    [] r = "DRAIN-002"      -> {"deployments", "statefulsets", "pods", "nodes",
                                "persistentvolumes", "persistentvolumeclaims"}
    [] r = "DRAIN-003"      -> {"deployments", "statefulsets", "daemonsets", "pods", "nodes"}
    [] r = "DRAIN-004"      -> {"nodes", "pods"}
    [] r = "DRAIN-005"      -> {"statefulsets", "daemonsets"}
    [] r = "PDB-001"        -> {"poddisruptionbudgets"}
    [] r = "PDB-002"        -> {"poddisruptionbudgets", "pods"}
    [] r = "NODE-001"       -> {"nodes"}
    [] r = "NODE-002"       -> {"describe-cluster", "describe-subnets"}
    [] r = "NODE-003"       -> {"deployments", "daemonsets", "statefulsets"}
    [] r = "NET-002"        -> {"describe-cluster", "describe-security-group:", "describe-vpc:"}
    [] r = "WORKLOAD-001"   -> {"pods"}
    [] r \in AddonRules     -> {"list-addons", "describe-addon:", "describe-addon-versions:",
                                "deployments", "daemonsets"}
    [] r \in NodegroupRules -> {"list-nodegroups", "describe-nodegroup:"}
    [] r \in InsightRules   -> {"list-insights", "describe-insight:"}
    [] r = "COREDNS-001"    -> {"coredns-configmap"}
    [] r = "CRD-001"        -> {CRDs}
    [] r = "CRD-002"        -> CRD002Deps
    [] r = "APISERVICE-001" -> {"apiservices"}

(* What Evaluate reads: the snapshot fields it goes through, named by the  *)
(* collector keys that fill them.                                          *)
WH002Reads ==
  {VWC, MWC}
    \cup (IF WebhookServiceReferencePresent THEN {"services"} ELSE {})
    \cup (IF WebhookServiceReferencePresent /\ ServiceObserved THEN {"endpointslices"} ELSE {})

CRD002Reads ==
  LET referenced == facts.crdRef /\ CRDs \notin errors
  IN  {CRDs} \cup (IF referenced THEN {"services"} ELSE {})
             \cup (IF referenced /\ ServiceObserved THEN {"endpointslices"} ELSE {})

(* Manifests too; pods and PDBs only for a live singleton. *)
DRAIN001Reads ==
  {"deployments", "statefulsets", "manifests"}
    \cup (IF facts.singletons \ errors # {} THEN {"pods", "poddisruptionbudgets"} ELSE {})

(* DaemonSets are declared but not read. *)
DRAIN003Reads == {"deployments", "statefulsets", "pods", "nodes"}

(* Manifests too; StatefulSets are declared but not read. *)
NODE003Reads == {"deployments", "daemonsets", "manifests"}

AddonReads == {"list-addons", "describe-addon:", "describe-addon-versions:",
               "deployments", "daemonsets"}

(* The remaining rules read just what they declare. *)
Reads(r) ==
  CASE r = "WH-002"         -> WH002Reads
    [] r = "CRD-002"        -> CRD002Reads
    [] r = "DRAIN-001"      -> DRAIN001Reads
    [] r = "DRAIN-003"      -> DRAIN003Reads
    [] r = "NODE-003"       -> NODE003Reads
    [] r \in AddonRules     -> AddonReads
    [] r \in ManifestRules  -> {"deprecated-api:", "manifests"}
    [] r \in WebhookRules   -> {VWC, MWC}
    [] r = "DRAIN-002"      -> {"deployments", "statefulsets", "pods", "nodes",
                                "persistentvolumes", "persistentvolumeclaims"}
    [] r = "DRAIN-004"      -> {"nodes", "pods"}
    [] r = "DRAIN-005"      -> {"statefulsets", "daemonsets"}
    [] r = "PDB-001"        -> {"poddisruptionbudgets"}
    [] r = "PDB-002"        -> {"poddisruptionbudgets", "pods"}
    [] r = "NODE-001"       -> {"nodes"}
    [] r = "NODE-002"       -> {"describe-cluster", "describe-subnets"}
    [] r = "NET-002"        -> {"describe-cluster", "describe-security-group:", "describe-vpc:"}
    [] r = "WORKLOAD-001"   -> {"pods"}
    [] r \in NodegroupRules -> {"list-nodegroups", "describe-nodegroup:"}
    [] r \in InsightRules   -> {"list-insights", "describe-insight:"}
    [] r = "COREDNS-001"    -> {"coredns-configmap"}
    [] r = "CRD-001"        -> {CRDs}
    [] r = "APISERVICE-001" -> {"apiservices"}

(* The cluster as its collected lists show it. *)
Seen ==
  [cluster EXCEPT
     !.workloads = {w \in @ : w.kind \notin errors},
     !.nodes     = IF "nodes" \in errors THEN {} ELSE @,
     !.pods      = IF "pods" \in errors THEN <<>> ELSE @,
     !.claims    = IF "persistentvolumeclaims" \in errors THEN <<>> ELSE @,
     !.volumes   = IF "persistentvolumes" \in errors THEN <<>> ELSE @]
-----------------------------------------------------------------------------
(* dependencyState and dependencyErrored. *)
DependencyState(key) ==
  IF mode[Plane(key)] = "off" THEN "notApplicable"
  ELSE IF mode[Plane(key)] = "absent" THEN "missing"
  ELSE IF key \in errors THEN "partial" ELSE "available"

(* Mutant: one plane that was not requested makes the rule not applicable. *)
RuleStatusAnyOff(r) ==
  LET some(s) == \E key \in Declared(r) : DependencyState(key) = s
  IN  IF r \notin Registered THEN "not_registered"
      ELSE IF some("notApplicable") THEN "not_applicable"
      ELSE IF some("missing") THEN "missing_plane"
      ELSE IF some("partial") THEN "insufficient_evidence" ELSE "evaluable"

(* evaluateRuleDependencies, and the first test of RunAllWithExecutions. *)
RuleStatus(r) ==
  LET all(s) == \A key \in Declared(r) : DependencyState(key) = s
      some(s) == \E key \in Declared(r) : DependencyState(key) = s
  IN  IF r \notin Registered THEN "not_registered"
      ELSE IF all("notApplicable") THEN "not_applicable"
      ELSE IF some("missing") THEN "missing_plane"
      ELSE IF some("partial") THEN "insufficient_evidence" ELSE "evaluable"

Invoked(r) == RuleStatus(r) \in {"insufficient_evidence", "evaluable"}
-----------------------------------------------------------------------------
(* Every mode a caller can request; a nil Kubernetes snapshot ends the     *)
(* command before any rule runs, so only a library caller passes one.      *)
Modes ==
  [kubernetes : {"present", "absent"}, aws : {"off", "absent", "present"},
   manifests : {"off", "present"}]
    \cup {[kubernetes |-> "off", aws |-> "off", manifests |-> "present"]}

OnlyKubernetes == [kubernetes |-> "present", aws |-> "off", manifests |-> "off"]

Facts == [webhookRefs : SUBSET {VWC, MWC}, singletons : SUBSET {"deployments", "statefulsets"},
          crdRef : BOOLEAN, service : BOOLEAN]
NoCluster == [context |-> "", workloads |-> {}, nodes |-> {}, pods |-> <<>>,
              claims |-> <<>>, volumes |-> <<>>]
NoFacts == [webhookRefs |-> {}, singletons |-> {}, crdRef |-> FALSE, service |-> FALSE]

EvidenceInit ==
  /\ rule \in AllRuleIDs
  /\ mode \in Modes
  /\ facts \in IF rule \in ContextRules THEN Facts ELSE {NoFacts}
  /\ cluster \in IF rule \in DrainRuleIDs /\ mode = OnlyKubernetes THEN Clusters ELSE {NoCluster}
  /\ errors = {}

(* One more collector call of a plane that is there fails. *)
Fail ==
  /\ Cardinality(errors) < MaxErrors
  /\ \E key \in Keys \ errors : mode[Plane(key)] = "present" /\ errors' = errors \cup {key}
  /\ UNCHANGED <<rule, mode, facts, cluster>>

EvidenceSpec == EvidenceInit /\ [][Fail]_evidenceVars
-----------------------------------------------------------------------------
(* A rule is recorded as evaluated only if every piece of live evidence    *)
(* that it reads, on the planes that were requested, was collected.        *)
EvaluatedOnLiveEvidence ==
  RuleStatus(rule) = "evaluable" =>
    \A key \in Reads(rule) \ {"manifests"} :
      mode[Plane(key)] # "off" => mode[Plane(key)] = "present" /\ key \notin errors

(* A registered rule is dismissed as not applicable only when the scan     *)
(* requested nothing that it reads.                                        *)
DismissedOnlyIfNothingToRead ==
  RuleStatus(rule) = "not_applicable" => \A key \in Reads(rule) : mode[Plane(key)] = "off"

(* Losing evidence never makes a rule's answer look better founded, even   *)
(* for the rules whose dependencies depend on the evidence that is left.   *)
LosingEvidenceNeverHelps ==
  [][RuleStatus(rule) # "evaluable" => RuleStatus(rule)' # "evaluable"]_evidenceVars

(* What a drain rule finds with some of the lists lost it also finds, as   *)
(* grave or graver, with all of them.  The exception are three checks of   *)
(* DRAIN-003: a lost node list is a cluster in which no node qualifies;    *)
(* then the rule's record says that its evidence was insufficient.         *)
AsGrave(f, g) ==
  /\ f.on = g.on /\ f.check = g.check
  /\ g.class = f.class \/ g.class = "block" \/ f.class = "warning"

LostEvidenceInventsNothing ==
  Invoked(rule) =>
    \A f \in DrainFindings(rule, Seen) :
      \/ \E g \in DrainFindings(rule, cluster) : AsGrave(f, g)
      \/ /\ f.check \in {"scarcity", "anti-affinity", "topology-spread"}
         /\ RuleStatus(rule) = "insufficient_evidence"

(* The comment of drain004.go calls an insufficient result trustworthy:    *)
(* where DRAIN-004 sees a shortage, there is no way to place the pods that *)
(* must move and those that wait on the other nodes the rule counts, pod   *)
(* by pod, whatever was lost of the evidence.                              *)
Fits(n, where) ==
  LET here == {k \in DOMAIN where : where[k] = n}
  IN  \A r \in Resources :
        \/ Total(cluster, here, r) = 0
        \/ Total(cluster, PodsOn(cluster, n), r) + Total(cluster, here, r) <= n.room[r]

Placeable(n) ==
  LET pods == {k \in LivePods(cluster) :
                 /\ cluster.pods[k].complete
                 /\ cluster.pods[k].node \in {n.name, NoNode}
                 /\ cluster.pods[k].daemon => cluster.pods[k].node = NoNode}
  IN  \E where \in [pods -> Others(cluster, n)] : \A m \in Others(cluster, n) : Fits(m, where)

ShortageIsReal ==
  rule = "DRAIN-004" =>
    \A f \in Drain004(Seen) : \E n \in cluster.nodes : n.name = f.on /\ ~Placeable(n)
=============================================================================
