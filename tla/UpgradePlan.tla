---------------------------- MODULE UpgradePlan ----------------------------
(***************************************************************************)
(* The plan command (internal/cli/plan.go, internal/plan): the next hop is *)
(* scanned as the scan command would, the hops after it are predicted.     *)
(* For a later hop the manifest rules run again on the manifests read for  *)
(* the first one, the add-on and insight rules on a fresh AWS collection,  *)
(* and every other rule, and every AWS rule whose evidence has a gap,      *)
(* leaves a note: its silence is not a clean bill.                         *)
(*                                                                         *)
(* One collection context serves every hop, and Ctrl+C cancels it for all  *)
(* of them.  A Kubernetes version is its minor.  The reports are not       *)
(* served: that part of the command is ScanRun's.                          *)
(***************************************************************************)
EXTENDS AwsCollector, AwsRules

CONSTANTS
  Clusters,  \* what may be behind the API server, and on the disk
  Options    \* the flags: eks, from, to, context, manifests

AutoVersion == 0  \* --from-version=auto

(* The rules of the cluster's own state are neither AWS's nor the APIs'. *)
ASSUME PlanAssumption ==
  /\ \A o \in Options : o.from \in Nat /\ o.to \in Nat /\ o.eks \in BOOLEAN
  /\ \A c \in Clusters : c.version \in Nat /\ \A f \in c.state : f.rule \notin AwsRuleIDs \cup ApiRules

VARIABLES
  pc,        \* where the command is
  opts,      \* the flags
  cluster,   \* [version, apis, workloads, state, files, chart]
  from,      \* resolvedFromVersion
  hop,       \* the version the current hop leads to
  live,      \* the Kubernetes snapshot
  manifests, \* the manifest snapshot
  aws,       \* the AWS plane: skipped, unavailable or loaded
  reports,   \* version -> the report of the hop to it
  exitCode,  \* the variable that outlives the command: hop 1's code
  exit       \* the exit code of the process

inputs == <<opts, cluster>>
evidence == <<live, manifests, aws>>
vars == <<collectorVars, pc, inputs, from, hop, evidence, reports, exitCode, exit>>

NoExit == -1
Lists == {"deprecated-api", "workloads", "state"}
NothingLive == [apis |-> {}, workloads |-> {}, state |-> {}, errors |-> {}]
NoManifests == [objects |-> {}, errors |-> {}]

Init ==
  /\ CollectorInit
  /\ pc = "resolve" /\ opts \in Options /\ cluster \in Clusters
  /\ from = NoVersion /\ hop = NoVersion
  /\ live = NothingLive /\ manifests = NoManifests /\ aws = "skipped"
  /\ reports = <<>> /\ exitCode = 0 /\ exit = NoExit

(* exitCodeForError: the report's code, 4 for what infraFailure marks, 1   *)
(* for any other error.                                                    *)
Exit(code) == pc' = "done" /\ exit' = code
Goto(stage) == pc' = stage /\ UNCHANGED exit
FailTimes(n) == ~cancelled /\ faults + n <= MaxFaults /\ faults' = faults + n
Aside == UNCHANGED <<account, target, todo, listed, snap, cancelled>>
-----------------------------------------------------------------------------
(* resolveFromVersion, rejectDowngrade and GenerateHops. *)
Path(version) ==
  IF version < opts.to
  THEN Goto("kubernetes") /\ from' = version /\ hop' = version + 1
  ELSE Exit(1) /\ UNCHANGED <<from, hop>>

(* EKS is asked first, then the API server. *)
Resolve ==
  LET sources == IF opts.eks THEN 2 ELSE 1
  IN  /\ pc = "resolve"
      /\ Aside /\ UNCHANGED <<inputs, evidence, reports, exitCode>>
      /\ \/ opts.from # AutoVersion /\ Path(opts.from) /\ UNCHANGED faults
         \/ opts.from = AutoVersion /\ \E n \in 0 .. sources - 1 : FailTimes(n) /\ Path(cluster.version)
         \/ /\ opts.from = AutoVersion /\ Exit(1) /\ UNCHANGED <<from, hop>>
            /\ FailTimes(sources) \/ (cancelled /\ UNCHANGED faults)

(* The Kubernetes collector (module K8sCollector) loses some lists, or all *)
(* of them under a cancelled context, and says so.                         *)
Seen(lost) ==
  [apis      |-> IF "deprecated-api" \in lost THEN {} ELSE cluster.apis,
   workloads |-> IF "workloads" \in lost THEN {} ELSE cluster.workloads,
   state     |-> IF "state" \in lost THEN {} ELSE cluster.state,
   errors    |-> lost]

CollectKubernetes ==
  /\ pc = "kubernetes" /\ Goto(IF opts.eks THEN "load" ELSE "manifests")
  /\ Aside /\ UNCHANGED <<inputs, from, hop, manifests, aws, reports, exitCode>>
  /\ \/ cancelled /\ live' = Seen(Lists) /\ UNCHANGED faults
     \/ \E lost \in SUBSET Lists : FailTimes(Cardinality(lost)) /\ live' = Seen(lost)

(* LoadCollector: without credentials the plan goes on without AWS. *)
Load ==
  /\ pc = "load"
  /\ UNCHANGED <<inputs, from, hop, live, manifests, reports, exitCode>>
  /\ \/ Answers /\ Begin(hop) /\ aws' = "loaded" /\ Goto("aws")
     \/ Fails /\ Aside /\ aws' = "unavailable" /\ Goto("manifests")

(* A call of the AWS collector, for the first hop or a later one. *)
CollectAws ==
  /\ pc \in {"aws", "fresh"} /\ CollectStep
  /\ UNCHANGED <<pc, inputs, from, hop, evidence, reports, exitCode, exit>>

(* manifest.Collector.Collect.  Reading the directories does not look at   *)
(* the context; a document that does not decode, or a file that cannot be  *)
(* read and ends its directory, costs objects and leaves a key.            *)
ReadManifests ==
  /\ pc = "manifests" \/ (pc = "aws" /\ ~Collecting)
  /\ Aside /\ UNCHANGED <<inputs, from, hop, live, aws, reports, exitCode>>
  /\ \/ ~opts.manifests /\ Goto("assess") /\ UNCHANGED <<manifests, faults>>
     \/ /\ opts.manifests /\ Goto("charts")
        /\ \/ manifests' = [objects |-> cluster.files, errors |-> {}] /\ UNCHANGED faults
           \/ /\ faults < MaxFaults /\ faults' = faults + 1
              /\ \E kept \in SUBSET cluster.files :
                   manifests' = [objects |-> kept, errors |-> {"files"}]

(* `helm template` runs under the collection's context.  A chart that is   *)
(* not rendered has no objects; one whose output decodes in part keeps     *)
(* those that do.                                                          *)
Rendered(kept, errors) ==
  manifests' = [objects |-> manifests.objects \cup kept, errors |-> manifests.errors \cup errors]

RenderCharts ==
  /\ pc = "charts" /\ Goto("assess")
  /\ Aside /\ UNCHANGED <<inputs, from, hop, live, aws, reports, exitCode>>
  /\ \/ Answers /\ Rendered(cluster.chart, {})
     \/ Fails /\ Rendered({}, {"chart"})
     \/ FailTimes(1) /\ \E kept \in SUBSET cluster.chart : Rendered(kept, {"chart"})
-----------------------------------------------------------------------------
(* Evidence.  An AWS error key names a rule's evidence exactly or by the   *)
(* prefix before its item.                                                 *)
AwsDependsOn(rule) ==
  CASE rule \in Insights   -> {"list-insights", "describe-insight"}
    [] rule \in Addons     -> {"list-addons", "describe-addon", "describe-addon-versions"}
    [] rule \in Nodegroups -> {"list-nodegroups", "describe-nodegroup"}
    [] rule = "NODE-002"   -> {"describe-cluster", "describe-subnets"}
    [] rule = "NET-002"    -> {"describe-cluster", "describe-security-group", "describe-vpc"}
    [] OTHER               -> {}

AwsGap(rule) == \E e \in snap.errors : e.call \in AwsDependsOn(rule)

(* evaluateRuleDependencies, for the rules modelled here. *)
NeedsAws(rule) == opts.eks /\ rule \in AwsRuleIDs
Withheld(rule) == (NeedsAws(rule) /\ aws # "loaded") \/ (~opts.eks /\ rule \in AwsRuleIDs \ Addons)
Gap(rule) ==
  \/ NeedsAws(rule) /\ AwsGap(rule)
  \/ rule \in Addons /\ "workloads" \in live.errors
  \/ rule \in ApiRules /\ ("deprecated-api" \in live.errors \/ manifests.errors # {})

(* What the rules find for version with what was collected; the rules of   *)
(* the cluster's own state are other modules', and their findings data.    *)
AllFindings(version) ==
  (IF aws = "loaded" THEN AwsFindings(snap, version, opts.context) ELSE {})
  \cup AddonsLive(live.workloads, version, opts.context, aws = "loaded")
  \cup ApiFindings(live.apis, manifests.objects, version)
  \cup live.state

HasClass(findings, classes) == \E f \in findings : f.class \in classes

(* buildScanCoverage and IsComplete. *)
Complete1 ==
  /\ live.errors = {} /\ manifests.errors = {}
  /\ opts.eks => aws = "loaded" /\ snap.errors = {}

ReportExitCode(findings, complete) ==
  IF ~complete THEN 3 ELSE IF HasClass(findings, {"block"}) THEN 2
  ELSE IF HasClass(findings, {"decision", "warning"}) THEN 1 ELSE 0

(* The plan gains the report of the current hop. *)
Planned(report) == [v \in DOMAIN reports \cup {hop} |-> IF v = hop THEN report ELSE reports[v]]

(* The first hop: a scan. *)
Assess ==
  LET found == {f \in AllFindings(hop) : ~Withheld(f.rule)}
  IN  /\ pc = "assess" /\ Goto("next")
      /\ reports' = Planned([findings |-> found, complete |-> Complete1,
                             silent |-> {r \in AwsRuleIDs \cup ApiRules : ~Withheld(r) /\ ~Gap(r)}])
      /\ exitCode' = ReportExitCode(found, Complete1)
      /\ UNCHANGED <<collectorVars, inputs, from, hop, evidence>>
-----------------------------------------------------------------------------
(* assessHop.  A hop after the first one begins: AWS is asked again, if it *)
(* could be asked for the first.                                           *)
NextHop ==
  /\ pc = "next" /\ hop < opts.to
  /\ hop' = hop + 1
  /\ UNCHANGED <<inputs, from, evidence, reports, exitCode>>
  /\ \/ aws = "loaded" /\ Begin(hop + 1) /\ Goto("fresh")
     \/ aws # "loaded" /\ UNCHANGED collectorVars /\ Goto("project")

ManifestProjectable == ApiRules
AwsProjectable == Addons \cup Insights

(* awsProjectionIncomplete. *)
ProjectionIncomplete(rule) == aws # "loaded" \/ AwsGap(rule)

Projected(f) ==
  \/ f.rule \in ManifestProjectable /\ IsManifestOnlyFinding(f)
  \/ f.rule \in AwsProjectable /\ aws = "loaded"

(* The rules that leave no CarryForwardNote: nothing else speaks for a hop *)
(* that is not the first.                                                  *)
SilentRules(version) ==
  {r \in ManifestProjectable :
     \A f \in ApiFindings(live.apis, manifests.objects, version) :
       f.rule = r => IsManifestOnlyFinding(f)}
  \cup {r \in AwsProjectable : ~ProjectionIncomplete(r)}

(* A predicted report covers no live cluster, and AWS and the manifests as *)
(* far as there are any.                                                   *)
PredictedComplete == manifests.errors = {} /\ (aws = "loaded" => snap.errors = {})

Project ==
  /\ pc = "project" \/ (pc = "fresh" /\ ~Collecting)
  /\ Goto("next")
  /\ reports' = Planned([findings |-> {f \in AllFindings(hop) : Projected(f)},
                         complete |-> PredictedComplete, silent |-> SilentRules(hop)])
  /\ UNCHANGED <<collectorVars, inputs, from, hop, evidence, exitCode>>

(* BuildPlan is done: the terminal summary, and the files. *)
Render ==
  /\ pc = "next" /\ hop = opts.to
  /\ UNCHANGED <<collectorVars, inputs, from, hop, evidence, reports, exitCode>>
  /\ Goto("write") \/ Exit(1)

Write ==
  /\ pc = "write"
  /\ UNCHANGED <<collectorVars, inputs, from, hop, evidence, reports, exitCode>>
  /\ Exit(exitCode) \/ Exit(4)

Signal ==
  /\ pc # "done" /\ Interrupt
  /\ UNCHANGED <<pc, inputs, from, hop, evidence, reports, exitCode, exit>>

Main ==
  \/ Resolve \/ CollectKubernetes \/ Load \/ CollectAws \/ ReadManifests \/ RenderCharts
  \/ Assess \/ NextHop \/ Project \/ Render \/ Write

Next == Main \/ Signal

(* The command goes on: a call of the API servers and a chart have their   *)
(* deadlines.  Reading directories has none (the comment on Collect of the *)
(* manifest collector says why), nor has decoding what was read: that the  *)
(* file system answers, and the decoder gets past an error, is assumed.    *)
Spec == Init /\ [][Next]_vars /\ WF_vars(Main)
-----------------------------------------------------------------------------
(* BuildActionPlan, of the first hop's report. *)
FirstHop == from + 1
Assessed == FirstHop \in DOMAIN reports
First == reports[FirstHop]

(* criticalBlockerActions: the rules of each template, and whether its     *)
(* action is only recommended when nothing of it gates.                    *)
Templates ==
  {[rules |-> ApiRules \cup {"CRD-001", "CRD-002", "APISERVICE-001"}, optional |-> TRUE],
   [rules |-> {"EKS-INSIGHT-001"}, optional |-> FALSE],
   [rules |-> {"WH-001", "WH-002", "WH-004", "WH-005"}, optional |-> FALSE],
   [rules |-> {"PDB-001", "PDB-002", "DRAIN-001"}, optional |-> FALSE],
   [rules |-> {"NODE-001"}, optional |-> FALSE],
   [rules |-> {"COREDNS-001"}, optional |-> FALSE]}
  \cup {[rules |-> {r}, optional |-> TRUE] :
          r \in {"DRAIN-002", "DRAIN-003", "DRAIN-004", "DRAIN-005", "WORKLOAD-001", "NODE-003"}}

CriticalRules == UNION {t.rules : t \in Templates}

HasBlockerFor(rules) == \E f \in First.findings : f.rule \in rules /\ f.class = "block"

(* Mutant: an optional template is never required. *)
RequiredUnlessOptional(t) == \E f \in First.findings : f.rule \in t.rules /\ ~t.optional

Required(t) ==
  /\ \E f \in First.findings : f.rule \in t.rules
  /\ t.optional => HasBlockerFor(t.rules)

Phase3Blocked == \E t \in Templates : Required(t)

ActionPlanVerdict ==
  IF ~First.complete THEN "ASSESSMENT_INCOMPLETE"
  ELSE IF Phase3Blocked THEN "BLOCKED" ELSE "READY"
-----------------------------------------------------------------------------
(* The findings that evidence without a gap gives for version. *)
TrueAwsFindings(version) == AwsFindings(Complete(version), version, opts.context)
TrueFindings ==
  (IF opts.eks THEN TrueAwsFindings(FirstHop) ELSE {})
  \cup AddonsLive(cluster.workloads, FirstHop, opts.context, opts.eks)
  \cup ApiFindings(cluster.apis, IF opts.manifests THEN cluster.files \cup cluster.chart ELSE {}, FirstHop)
  \cup cluster.state

(* A finding about an add-on or a node group that AWS lists on a later     *)
(* page, which the collector does not ask for.                             *)
OnLaterPage(f) ==
  /\ f.planes = {"aws"}
  /\ \/ f.rule \in Addons /\ \E a \in account.addons \cap account.later : a.name = f.on
     \/ f.rule \in Nodegroups /\ \E g \in account.nodegroups \cap account.later : g.name = f.on

(* The comment on Snapshot.Addons: it holds every EKS-managed add-on that  *)
(* is installed.  It does not, where AWS lists them on several pages.      *)
AddonsHoldEveryAddon ==
  (aws = "loaded" /\ ~Collecting /\ Key("list-addons", "") \notin snap.errors) =>
    {a.name : a \in account.addons} \subseteq {a.name : a \in snap.addons}

(* In no hop does an AWS rule keep silent about a problem of the account   *)
(* unless its record or its note says that its evidence had a gap: what a  *)
(* call lost, and the calls that an earlier failure kept from being made,  *)
(* left a key that the rule looks for.  The later pages of add-ons and     *)
(* node groups are lost without a key, and nothing else is.                *)
AwsSilenceIsEarned ==
  \A v \in DOMAIN reports : \A f \in TrueAwsFindings(v) :
    (opts.eks /\ f.rule \in reports[v].silent) => f \in reports[v].findings \/ OnLaterPage(f)

(* ADDON-001 never calls an add-on incompatible because AWS could not be   *)
(* asked about it (the checks before isVersionCompatible).                 *)
NoFalseIncompatibility ==
  \A v \in DOMAIN reports : \A f \in reports[v].findings :
    (f.rule = "ADDON-001" /\ f.planes = {"aws"}) => f \in TrueAwsFindings(v)

(* The plan exits with a passing code only if evidence without a gap has   *)
(* no blocker for the next hop but such as are on a later page; the codes  *)
(* of errors are not meant.                                                *)
PlanPassIsEarned ==
  (Assessed /\ exitCode \in {0, 1}) =>
    ~HasClass({f \in TrueFindings : ~OnLaterPage(f)}, {"block"})

(* A later hop predicts nothing about an object of the live cluster from   *)
(* the API rules, and yet says of every removed API in the manifests that  *)
(* were read that it is one, or that API-001 must be run again.            *)
ManifestsAreProjected ==
  \A v \in DOMAIN reports \ {FirstHop} :
    /\ \A f \in reports[v].findings : f.rule \in ApiRules => f.planes = {"manifest"}
    /\ \A o \in Removed(manifests.objects, v) :
         \/ "API-001" \notin reports[v].silent
         \/ Found("API-001", o.name, {"manifest"}, "block") \in reports[v].findings

(* The action plan calls the upgrade ready only if nothing that Phase 1    *)
(* is for gates it, found or not.                                          *)
ReadyIsEarned ==
  (Assessed /\ ActionPlanVerdict = "READY") =>
    ~HasClass({f \in TrueFindings : f.rule \in CriticalRules}, {"block"})

(* The plan command ends, however many pages and hops there are. *)
PlanEnds == <>(pc = "done")

(* docs/false-positive-governance.md: a flow-control or EndpointSlice      *)
(* object in a manifest is never downgraded, always a blocker.  The merge  *)
(* of the planes takes the severity of the live finding.                   *)
ManifestBlockersStayBlockers ==
  Assessed => \A o \in Removed(manifests.objects, FirstHop) :
    \E f \in First.findings : f.rule = "API-001" /\ f.on = o.name /\ f.class = "block"
=============================================================================
