------------------------------ MODULE AwsRules ------------------------------
(***************************************************************************)
(* The rules a plan projects (internal/rules): what each finds in an AWS   *)
(* snapshot, in the live workloads and API objects, and in the manifests.  *)
(* A finding is a record of its rule, what it is about, the planes of its  *)
(* resources, and its class: "block" gates the upgrade, "decision" asks    *)
(* the operator, "warning" and "info" do neither.                          *)
(***************************************************************************)
EXTENDS Naturals, FiniteSets

CONSTANT Catalog  \* <<add-on, Kubernetes version>> -> [min, recommended, impacts], a part of them

Insights   == {"EKS-INSIGHT-001", "EKS-INSIGHT-002", "EKS-INSIGHT-003"}
Nodegroups == {"EKS-NG-001", "EKS-NG-002", "EKS-NG-003", "EKS-NG-004"}
Addons     == {"ADDON-001", "ADDON-002"}
ApiRules   == {"API-001", "API-002"}
AwsRuleIDs == Insights \cup Nodegroups \cup Addons \cup {"NODE-002", "NET-002"}

Unversioned == 0  \* an installed version that could not be had
Found(rule, on, planes, class) == [rule |-> rule, on |-> on, planes |-> planes, class |-> class]
-----------------------------------------------------------------------------
(* contextual.go: what an upgrade context makes of a finding. *)
GateOf(context, blocking, allowing) ==
  IF context \in blocking THEN "block" ELSE IF context \in allowing THEN "warning" ELSE "decision"

PreconditionGate(context) ==
  GateOf(context, {"control_plane_only", "full_platform_upgrade"}, {"audit_only"})

(* The operational impacts that gate an operation. *)
Control == {"control_plane", "admission_api", "cluster_dns"}
Worker  == {"worker_rollout", "networking", "storage", "cluster_dns"}
Gating(context) ==
  CASE context = "control_plane_only"    -> Control
    [] context = "worker_rollout"        -> Worker
    [] context = "full_platform_upgrade" -> Control \cup Worker \cup {"workload"}
    [] OTHER                             -> {}

AddonGate(context, impacts) ==
  IF context = "audit_only" THEN "warning"
  ELSE IF impacts \cap Gating(context) # {} THEN "block" ELSE "decision"
-----------------------------------------------------------------------------
(* isCatalogManagedEKSAddon; isHighImpactAddon names the same add-ons, so  *)
(* what ADDON-002 does for the others is never reached.                    *)
Managed == {"vpc-cni", "kube-proxy", "coredns", "aws-ebs-csi-driver", "aws-efs-csi-driver"}

(* lookupLiveAddonCatalog: EKS data is not used for a cluster that is not  *)
(* known to be one.                                                        *)
AwsOnly == {"aws-load-balancer-controller"}
Catalogued(name, version) == <<name, version>> \in DOMAIN Catalog
CataloguedLive(name, version, awsAvailable) ==
  Catalogued(name, version) /\ name # "ingress-controller" /\ (name \in AwsOnly => awsAvailable)

InstalledStatus(entry, installed) ==
  IF installed = Unversioned THEN "unknown"
  ELSE IF installed < entry.min THEN "incompatible"
  ELSE IF installed < entry.recommended THEN "upgrade-recommended" ELSE "compatible"

StatusOf(a, version) == InstalledStatus(Catalog[<<a.name, version>>], a.version)
ImpactsOf(a, version) == Catalog[<<a.name, version>>].impacts

Verifiable(aws, a) ==
  /\ ~\E e \in aws.errors : e.call = "describe-addon-versions" /\ e.item = a.name
  /\ a.version # Unversioned

(* Mutant: an add-on whose compatible versions could not be had has none. *)
UnsupportedUnchecked(aws, a) == a.version # Unversioned /\ a.version \notin a.compatible

(* AWS does not list the installed version among the compatible ones. *)
Unsupported(aws, a) == Verifiable(aws, a) /\ a.version \notin a.compatible

Addon001Finding(name, context) ==
  Found("ADDON-001", name, {"aws"}, AddonGate(context, {"unknown"}))
Addon001CatalogFinding(a, version, context, plane) ==
  Found("ADDON-001", a.name, {plane}, AddonGate(context, ImpactsOf(a, version)))
Addon002Finding(name, plane) == Found("ADDON-002", name, {plane}, "warning")

(* What ADDON-001 and ADDON-002 make of a catalogued add-on. *)
Incompatible(a, version) == StatusOf(a, version) = "incompatible"
NeedsReview(a, version) == StatusOf(a, version) \in {"upgrade-recommended", "unknown"}

(* The catalog's word on the add-ons it manages, AWS's on the others. *)
Addon001Aws(aws, version, context) ==
  {Addon001CatalogFinding(a, version, context, "aws") :
     a \in {b \in aws.addons : /\ b.name \in Managed /\ Catalogued(b.name, version)
                               /\ Incompatible(b, version)}}
  \cup {Addon001Finding(a.name, context) :
          a \in {b \in aws.addons : b.name \notin Managed /\ Unsupported(aws, b)}}

Addon002Aws(aws, version) ==
  {Addon002Finding(a.name, "aws") :
     a \in {b \in aws.addons : /\ b.name \in Managed
                               /\ ~Catalogued(b.name, version) \/ NeedsReview(b, version)}}

Addon001LiveFinding(w, version, context) == Addon001CatalogFinding(w, version, context, "live")
Addon002LiveFinding(w) == Addon002Finding(w.name, "live")

(* The add-ons found among the live workloads, whatever AWS says. *)
AddonsLive(workloads, version, context, awsAvailable) ==
  LET known == {w \in workloads : CataloguedLive(w.name, version, awsAvailable)}
  IN  {Addon001LiveFinding(w, version, context) : w \in {k \in known : Incompatible(k, version)}}
      \cup {Addon002LiveFinding(w) :
              w \in (workloads \ known) \cup {k \in known : NeedsReview(k, version)}}
-----------------------------------------------------------------------------
EksInsightFinding(rule, insight, class) == Found(rule, insight.id, {"aws"}, class)
WithStatus(aws, status) == {i \in aws.insights : i.status = status}

InsightFindings(aws) ==
  {EksInsightFinding("EKS-INSIGHT-001", i, "warning") : i \in WithStatus(aws, "ERROR")}
  \cup {EksInsightFinding("EKS-INSIGHT-002", i, "warning") : i \in WithStatus(aws, "WARNING")}
  \cup {EksInsightFinding("EKS-INSIGHT-003", i, "info") : i \in WithStatus(aws, "UNKNOWN")}

EksNgFinding(rule, group, class) == Found(rule, group.name, {"aws"}, class)

(* Health issues, no headroom for a rolling update, a custom image, and a  *)
(* version more than a hop behind.                                         *)
NodegroupFindings(aws, version) ==
  {EksNgFinding("EKS-NG-001", g, "warning") : g \in {n \in aws.nodegroups : n.unhealthy}}
  \cup {EksNgFinding("EKS-NG-002", g, "warning") : g \in {n \in aws.nodegroups : n.desired <= n.min}}
  \cup {EksNgFinding("EKS-NG-003", g, "info") : g \in {n \in aws.nodegroups : n.custom}}
  \cup {EksNgFinding("EKS-NG-004", g, "info") : g \in {n \in aws.nodegroups : n.version + 1 < version}}

MinFreeIPHeadroom == 5
Node002Finding(subnet, context) == Found("NODE-002", subnet.id, {"aws"}, PreconditionGate(context))
Node002(aws, context) ==
  {Node002Finding(s, context) : s \in {t \in aws.subnets : t.free < MinFreeIPHeadroom}}

Net002(aws, context) ==
  {Found("NET-002", id, {"aws"}, PreconditionGate(context)) : id \in aws.issues}

(* What the AWS rules find in a snapshot. *)
AwsFindings(aws, version, context) ==
  Addon001Aws(aws, version, context) \cup Addon002Aws(aws, version) \cup InsightFindings(aws)
    \cup NodegroupFindings(aws, version) \cup Node002(aws, context) \cup Net002(aws, context)
-----------------------------------------------------------------------------
(* An API object is a record of its identity, the version that removes its *)
(* API, and its kind: "plain", "event", or "auto" for the flow-control and *)
(* EndpointSlice objects a controller of the cluster manages.              *)
Removed(objects, version) == {o \in objects : o.removed <= version}
Deprecated(objects, version) == {o \in objects : o.removed > version}

(* Mutant: any finding with a manifest among its planes is projected. *)
IsManifestFinding(f) == "manifest" \in f.planes

(* A finding of the live cluster does not outlive the hop. *)
IsManifestOnlyFinding(f) == f.planes = {"manifest"}

(* mergeAPI001Findings: the findings about one object become one, with the *)
(* class of the first; the live ones come first.                           *)
MergeFindings(live, manifest) ==
  LET names == {f.on : f \in manifest}
  IN  {IF f.on \in names THEN [f EXCEPT !.planes = @ \cup {"manifest"}] ELSE f : f \in live}
      \cup {f \in manifest : f.on \notin {g.on : g \in live}}

Api001LiveFinding(o) == Found("API-001", o.name, {"live"}, "block")
Api001AutoManagedFinding(o) == Found("API-001", o.name, {"live"}, "info")
Api001ManifestFinding(o) == Found("API-001", o.name, {"manifest"}, "block")
Api002LiveFinding(o) == Found("API-002", o.name, {"live"}, "warning")
Api002ManifestFinding(o) == Found("API-002", o.name, {"manifest"}, "warning")

(* A live Event is nobody's task, and no finding. *)
Api001(live, manifests, version) ==
  LET of(kind) == {o \in Removed(live, version) : o.kind = kind}
  IN  MergeFindings({Api001LiveFinding(o) : o \in of("plain")}
                      \cup {Api001AutoManagedFinding(o) : o \in of("auto")},
                    {Api001ManifestFinding(o) : o \in Removed(manifests, version)})

Api002(live, manifests, version) ==
  MergeFindings({Api002LiveFinding(o) : o \in {d \in Deprecated(live, version) : d.kind # "event"}},
                {Api002ManifestFinding(o) : o \in Deprecated(manifests, version)})

ApiFindings(live, manifests, version) ==
  Api001(live, manifests, version) \cup Api002(live, manifests, version)
=============================================================================
