# KubePreflight in TLA+

KubePreflight is a command-line tool that collects evidence about a Kubernetes
cluster (and, if asked to, about its EKS control plane and a directory of
manifests), runs 31 rules over it and reports whether an upgrade may go ahead.
The whole value of the answer is in one asymmetry: it may be too pessimistic,
but *"clean"* must never be said because something was lost on the way: a
result lost to a race, an error that nobody recorded, a rule that was not run,
evidence collected under a cancelled context, a report from an older scan.
The modules here state that, layer by layer, model-check it on small instances
and prove it for every instance: each safety invariant and each action property
that a run checks is a theorem, and only liveness is left to model checking.

Paths below are relative to the repository root.

## 1. Inventory

### Components, their state and operations

| Component | Source | State | Operations |
|---|---|---|---|
| Kubernetes collector | `internal/collectors/k8s/collector.go` | the shared `Snapshot` (typed fields, two append slices, `Errors`), mutex, semaphore, WaitGroup | `Collect` (about 50 tasks), `collectResource`, `runBoundedPool`, `ServerVersion` |
| AWS collector | `internal/collectors/aws/collector.go` | its `Snapshot` and `Errors`, keyed per call | `LoadCollector`, `Collect` (cluster, insights, add-ons, node groups, subnets, security groups) |
| Manifest collector | `internal/collectors/manifest/collector.go` | documents and `Errors` per file or chart | `Collect`, Helm rendering |
| Evidence dependencies | `internal/rules/execution.go`, `defaults.go` | none: a function of the scan context | `EvidenceDependencies`, `EvidenceDependenciesFor`, `dependencyState` |
| Rule execution | `internal/rules/rule.go` | execution records, kept findings, joined error | `RunAllWithExecutions`, `evaluateRuleSafely`, `evaluateRuleDependencies` |
| Rules | `internal/rules/*.go` | none | `Evaluate` |
| Report model | `internal/findings/report.go`, `context.go`, `priority.go`, `internal/report/evaluation_coverage.go` | the report | `NewReportWithUpgradeContext`, `SetCoverage`, `Result`, `ExitCode`, `BuildUpgradeReadinessSummary` |
| scan command | `internal/cli/scan.go`, `coverage.go`, `root.go` | the two signal contexts, artefacts, the exit code | `RunE`, `serveReports`, `writeReportFile`, `exitCodeForError` |
| Report server | `internal/reportserver/server.go` | listener, `errCh` | `Start`, `Wait` |
| Comparison, gate | `internal/comparison`, `internal/gate` | none | `Compare`, `LoadAndNormalize`, `Evaluate` |
| Rollback assessment | `internal/rollback`, `internal/cli/rollback.go` | a snapshot of the EKS API and an assessment that four passes rewrite | `Collect`, `EvaluateEligibility`, `ApplyRollbackInsights`, `ApplyOperationalReadiness`, `ApplyRecommendation`, `Validate` |
| Upgrade plan | `internal/plan`, `internal/cli/plan.go` | one report per hop, the hop-1 exit code | `GenerateHops`, `assessHop`, `BuildPlan`, `BuildActionPlan` |
| Redaction, catalogs, exemptions, renderers, providers, build info | `internal/redact`, `apicatalog`, `compatcatalog`, `exemptions`, `report`, `providers`, `buildinfo`, `v1compat` | tables | pure functions |

### How they interact

`scan` calls the collectors one plane after the other (Kubernetes, AWS,
manifests); only the Kubernetes collector is concurrent inside. Collectors do
not fail: they write what went wrong under a *key* in `Errors`. The rules'
dependencies are written in terms of those keys, which is the contract between
a collector and the registry. The registry gives one record per rule; the
report joins the findings, the records and a per-plane coverage into a result,
a scorecard and an exit code. Only then are artefacts written, and possibly
served until Ctrl+C. The exit code travels past the command's error in a
pointer and is overridden by any error.

`plan` is a scan for the next minor version followed by a prediction for each
later one: the manifest rules run again on the manifests already read, the
add-on and insight rules on a fresh AWS collection, and every rule that nothing
can be said of leaves a note. `rollback` takes the findings document of an
earlier scan as evidence, asks the EKS API for its own, and lets four passes
rewrite one assessment, whose recommendation becomes the exit code.

### What is hard here

* **Concurrency**: goroutines over one snapshot; a version probe that outlives
  its caller; two signal contexts, registered at different times, for the same
  signals.
* **Torn reads**: a rule such as WH-002 joins lists taken at different moments
  of a cluster that keeps changing, any of which may have failed.
* **Partial failure**: an empty list because a call failed, a rule that panics,
  a missing plane, a write that fails halfway: each must be *confessed*
  somewhere that reaches the exit code.
* **Ordering**: the scorecard is computed before the facts it depends on are
  known, and brought into line later.
* **Staleness**: artefacts of an earlier scan in the output directory; a findings
  document of another cluster or of last week offered to `rollback`; a prediction
  made of evidence that the hop before it will have changed.
* **Hidden calls**: an AWS call that fails hides the calls that needed its answer,
  and those leave no key of their own.

`PROJECT.json` lists the main hazards at their lines with the properties that cover them.

### What makes each component correct

| Component | Properties |
|---|---|
| Kubernetes collector | bounded pool; the snapshot says exactly what the calls said; nobody writes it after the return; a cancelled task leaves an error; `Collect` returns |
| Evidence dependencies | what a rule reads is declared; losing evidence never makes the answer look better founded; nil planes are never read |
| Rule execution | one record per rule; lost findings are confessed; an empty result is earned |
| WH-002, CRD-002 | findings were true at some moment; silence is earned |
| Report | scorecard and exit code agree; "may continue" is earned; one more finding never helps |
| scan, server | exit 0 is earned; an interrupt is confessed; artefacts are whole and this scan's; the command ends |
| Comparison, gate | what is resolved is gone; a pass and a new blocker are earned; repairs never fail the gate |
| Rollback | a stop rests on evidence that was read, and survives the passes after it; a readiness is earned; the shell gets the verdict |
| Upgrade plan, AWS | no hop is silent about what could not be read; an add-on is never called incompatible because AWS could not be asked; a passing code and a ready action plan are earned; predictions are about manifests |
| Drain rules | lost evidence invents nothing that its record does not excuse; a capacity shortage is one for every placement of the pods |

## 2. Modules

```
Collection  <---implements---  K8sCollector  <---EXTENDS---  K8sCollectorProofs
                                    | Errors keys
      DrainRules <-- RuleEvidence --+-- WebhookBackend <-- WebhookBackendProofs
                          ^
                          | RuleStatus
        RuleExecution <-- Registry <-- RuleProofs ---> SumLemmas
              | findings, "every record evaluated"
ReportVerdict  <--EXTENDS--  ScanReport  <---EXTENDS---  ReportProofs ---> SumLemmas
      ^------------EXTENDS--  Comparison (the documents of two scans)  <--'
      ^------------EXTENDS--  ScanRun  <---EXTENDS---  ScanRunProofs
AwsCollector, AwsRules  <--EXTENDS--  UpgradePlan  <---EXTENDS---  UpgradePlanProofs
Rollback (the findings document of a scan, and an API of its own)  <---EXTENDS---  RollbackProofs
```

An arrow without a word is EXTENDS; a bar says what one layer hands to the next.

**Collection** is the abstract promise of `Collect`: each task is settled once,
as data, as an error, or as nothing where nothing is legitimate, and the
snapshot is returned when all are.

**K8sCollector** is the code. One action per thing a goroutine does between two
synchronisations: `Spawn` (`wg.Add`, `go`), `Acquire` (the send into the
semaphore, and the call that fails at once under a cancelled context), `Answer`
and `Expire` (the API call's end), `Lock` and `Write` (the two halves of a
critical section, an append being a read and a write), `Release` and `Done` (the
deferred calls, last in first out), `Return` (`wg.Wait` falls through), `Cancel`
(Ctrl+C). A task is a number in the order of the `run(key, fn)` calls;
`AppendTasks` are the `deprecated-api:` tasks that share a slice,
`NotFoundIsFine` the tasks that accept NotFound. The refinement mapping
`OutcomeOf` reads a task's outcome off the snapshot and, for a task that
legitimately wrote nothing, off its goroutine's phase.

**WebhookBackend** is WH-002 (with two lists of webhook configurations) or
CRD-002 (with one): `Change` is the environment, `Collect(l)` one LIST with its
success or failure, `Evaluate` the rule with its context-dependent
dependencies. The history variables `everBroken`, `everWhole` and
`alwaysReferred` record what was true while the lists were taken.

**RuleEvidence** is the table of the 31 rules: what each declares (`Declared`,
with the three context-dependent rules spelt out), what its `Evaluate` reads
(`Reads`, taken from the rule's own file), and `RuleStatus`, the registry's
verdict. A behaviour takes one rule in one scan mode and lets one collector key
after the other fail. `cluster` is what the drain rules meet, `Seen` what is left
of it after the failures.

**DrainRules** has DRAIN-002, DRAIN-003 and DRAIN-004 as operators of what was
collected: volumes that one node holds, nodes that qualify, host ports, and the
capacity arithmetic. `Placeable` in `RuleEvidence` is the reference definition the
arithmetic is compared with: it tries every placement of the pods, one by one.

**RuleExecution** is `RunAllWithExecutions` over an arbitrary `RuleStatus`:
`Dismiss`, `Withhold`, `Evaluate`. A rule may return valid and invalid
findings, an error, or panic, in any combination. `Rows` and `EvaluationCoverage`
are what `evaluation_coverage.go` makes of the records: the labels a reader sees.

**Registry** EXTENDS both: the collectors lose what they lose (`CollectorFails`), then
the loop (`RunRule`) takes the verdict on each rule of `Universe` from `RuleStatus` on the
evidence that is left. A behaviour follows the evidence of one rule, and goes on into the
loop if that rule is one of the universe.

**ReportVerdict** has the pure operators of the report: effective gate, result,
exit code, category status, penalty, score, "may continue". Findings are a bag
over category and kind, because nothing else of a finding matters to them.

**ScanReport** puts them in the order of the code: `NewReport` against a
placeholder coverage, `AssignRuleExecutions`, `SetCoverage`. Before that, `Find`
adds one finding at a time, so that the effect of one more can be stated as an
action property.

**ScanRun** is one run of the command, from flags to exit: `Setup`, the version
probe with its goroutine and buffered channel, the planes, `RunRules`,
`BuildReport`, `Render`, the artefacts (`Truncate`, `Write`, one after the
other), `StartServer`, `Register` (the second signal context), `Wait`'s three
ends, and `Signal` at any moment. `robbed` remembers that a live plane was
collected under a context already cancelled.

**Comparison** is two scans of one cluster and what `compare` makes of them.
`ScanBaseline` and `ScanCurrent` each pick a scope, a target, a context, a build
(with execution records or before them) and a flaw (a rule lost evidence on a
plane, or failed), and write a document as the code does: the rules' findings with
their fingerprints, the allowlist's filter, the records, the coverage, the score.
`Change` is the cluster between them. `RunCompare` is `LoadAndNormalize`, `Compare`
and the gate's `Evaluate`. Six rules stand for the ways of identifying and grading:
merged over planes (API-001), on both planes but not merged (DRAIN-001, NODE-003),
graded by the context (PDB-001) or by the object (WH-002), and with the target left out
of the fingerprint (EKS-NG-001). One file declares an object. The documents also carry the cluster as it was and what
the rules saw, which no code reads, so that properties can speak of the truth.

**AwsCollector** is `Collector.Collect` of the AWS plane, a list of calls still to
make: each answers or fails, an answer appends the calls that need it, a failure
leaves its key, pages of insights arrive in any partition, and the version-less
retry forgets the first error if it succeeds. `ListAddons` and `ListNodegroups` are
asked for one page, as in the code: what the account holds on a later one (`later`) is
never heard of and leaves no key (`FirstPage`). It is a library of actions; the command
that calls it supplies `Begin`.

**AwsRules** is what the projected rules find in a snapshot: the insight, node
group, add-on, subnet and network rules, and API-001/API-002 with the merge of
their planes. A finding is its rule, its subject, the planes of its resources and
its class.

**UpgradePlan** EXTENDS both: `Resolve` (the version, and the hops), the three
planes of the first hop (of a chart whose output is broken what decodes is kept:
`Rendered`), `Assess` (hop 1 is a scan), then `NextHop`, a fresh AWS
collection and `Project` for each later one, `Render`, `Write`. `silent` is the set
of rules whose silence in a report is meant as an answer: recorded as evaluated in
hop 1, without a carry-forward note later. `Templates`, `Required` and
`ActionPlanVerdict` are the action plan of the first hop. `TrueFindings` is what
evidence without a gap gives, which no code computes; `OnLaterPage` picks those about an
add-on or a node group of a later page, the one loss that leaves no gap.

**Rollback** is the rollback command: `Start` (the findings document), the EKS calls
one after the other with lost, cancelled and truncated answers, the four passes as
operators from assessment to assessment in the code's order, `Validate`, the
artefacts and the exit. The checks of the operational pass are an operator each,
named as their functions.

## 3. Runs

| Run | Question | Bounds |
|---|---|---|
| `k8s_collector` | Is the pool bounded, the snapshot truthful and final, does `Collect` return, is it a `Collection`? | 3 tasks, pool of 2 (asked for 7): one more task than slots, so a task queues behind two running ones; two tasks share the slice |
| `webhook_backend` | Are WH-002's evaluated findings, and its silence, justified on a moving cluster? | 2 Services (symmetric), 2 lists of webhooks, 2 changes: enough to break and mend one Service, or move a reference between lists, between any two LISTs |
| `registry` | Do declarations cover reads, in every mode? Does lost evidence make up findings? Is a shortage real? Is every rule recorded, every loss confessed, emptiness earned? | every rule, every mode, any 2 failed keys (dependencies look at most two lists deep); for the drain rules about 700 clusters: a workload with every mix of volumes or constraints on 2 nodes, or 4 pods on 3 nodes of which one may be full, closed or a control-plane node; the loop over API-001, which every mode registers, and NET-002, which meets all five statuses |
| `scan_report` | Do scorecard and exit code agree, and is each monotone in the findings? | 1 category (categories do not interact but in a sum), 6 findings: past both penalty caps, 5 blockers and 6 warnings |
| `scan_run` | What may exit codes and artefacts be trusted for; does it end? | every combination of planes, `--output` and `--serve-report`; 1 Ctrl+C at any moment; no finding or a blocker; an older run's `report.md`, `report.html` and `upgrade-plan.json` in the directory |
| `comparison` | Is *resolved* gone, is a pass earned, is a new blocker new, does a repair ever fail? | 4 rules of the six, 1 object each (findings of one rule differ by their fingerprint only), 2 oddities between both scans: one loss combined with one difference of scope, or two differences; 1 change; the default policy and one that looks at new warnings |
| `comparison_duplicates` | Can what a scan wrote always be compared? **No** | DRAIN-001 and NODE-003, one object each |
| `rollback` | Is a stop confirmed and does it hold, is a readiness earned, does the shell hear of it? | 4 clusters, 11 findings documents (clean, of another cluster, target or age, with each kind of finding, with gaps), 2 insights, 2 updates around the edge of the window, 2 calls that fail on their own and Ctrl+C |
| `rollback_complete` | Does "complete" mean that everything was collected? **No** | the same |
| `upgrade_plan` | May a plan's silence, its exit code, its predictions and its action plan be trusted, and does it end? | two hops (a first and a predicted one), an account with a problem for every AWS rule and one whose only problems, an add-on and a node group that would block, are on a second page, a clean cluster and one with live and manifest objects of APIs that each hop removes, 5 sets of options, 2 faults (a call and the retry that answers it, or two planes) and Ctrl+C |
| `addons_truncated` | Does the snapshot of a collection without errors hold every add-on? **No** | the same, without faults |
| `manifest_downgraded` | Is a removed object in a manifest always a blocker? **No** | the same |

`comparison` leaves DRAIN-001 and NODE-003 out: their documents may not be comparable at
all (disagreement 1), and they do not declare the manifests they read, so a manifest that
could not be read makes their finding *resolved*; with either among the rules
`ResolvedIsGone` fails. `ResolvedIsGone` also asks that the later scan looked at no
less than the earlier one, which `compare` itself does not ask.

`LostEvidenceInventsNothing` has one exception written into it: a node list that
could not be had is, for three checks of DRAIN-003, a cluster in which no node
qualifies. The finding is false, and the property asks only that the rule's record
then says `insufficient_evidence`.

`ShortageIsReal` compares with placements on the nodes the rule itself counts
(ready, schedulable, without the control-plane taint). A pod that tolerates that
taint, or a waiting DaemonSet pod that only its own node can take, is thus outside
of what the property promises.

`AwsSilenceIsEarned` and `PlanPassIsEarned` have one, too: `OnLaterPage`. Without it both
fail, on the healthy-looking account (disagreement 4).

`CHECK_DEADLOCK FALSE` is set throughout because every modelled operation ends:
`Collect` returns, the rules are done, the process exits.

### The disagreements found

Each is delimited by a theorem that says where the code is as it should be.

1. *Duplicate fingerprints* (`drain001.go:72`, `node003.go:58-75`; run
   `comparison_duplicates`): a workload seen live and in its manifest gives two
   findings with one fingerprint, and `compare` refuses the scan's document. Of the six
   rules of the model DRAIN-001 and NODE-003 alone do that, and only in that way
   (`OnlyTwinsCollide`); the theorem says nothing of rules that are not modelled there.
2. *Complete again* (`rollback/eks/insights.go:80`; run `rollback_complete`): the
   eligibility pass finds the upgrade history missing and calls the evidence
   incomplete; the insights pass, which looked at insights only, calls it complete.
   Nothing but calls of the history is overlooked (`CompleteOverlooksHistory`).
3. *A manifest blocker downgraded* (`api001.go:326`; run `manifest_downgraded`): a
   removed flow-control or EndpointSlice object that is in a manifest and, managed
   by a controller, in the cluster becomes one finding with the live one's
   information level; alone, the manifest's would have been a blocker. Without such a
   twin it stays one (`OnlyTwinsAreDowngraded`).
4. *Later pages lost* (`collectors/aws/collector.go:499` and `557`; run
   `addons_truncated`): `ListAddons` and `ListNodegroups` are called once, and the token of
   the next page is not looked at. An add-on or node group of a second page is in no
   snapshot, no key of `Errors` tells, and a plan whose only blocker it is passes. Nothing
   else is lost without a key (`AwsSilence`, `PlanPassSafety`).

Smaller observations, made while modelling, without a run of their own.

*Collection and rules.* With concurrency 1 the collector's goroutines race for the
one slot, so the calls are made one at a time but not in the order the doc of
`Collect` promises (`collector.go:296`). A failed Service LIST makes every
referenced Service "missing" (`wh002.go:119`): the record says
`insufficient_evidence`, the report's banner that the findings shown are valid.
DRAIN-001 and NODE-003 read manifests although `NewManifestsOnlyRegistry`'s comment
counts API-001 and API-002 only (`defaults.go:54`). With AWS asked for and
unavailable, ADDON-001's live half is withheld although its comment says it always
runs (`addon001.go:56`). DRAIN-003 declares DaemonSets and NODE-003 StatefulSets that
they do not read, which can only make them more pessimistic. DRAIN-002 finds a
Deployment's node by a prefix of the ReplicaSet's name (`drain002.go:316`), where its
comment speaks of the workload's label selector (`drain002.go:300`): the pod of
"web-api" passes for one of "web". `isHighImpactAddon` and
`isCatalogManagedEKSAddon` name the same add-ons, so a branch of `addonVerificationError`
is dead.

*Scan and server.* Between the server's start and the registration of its signal
context, Ctrl+C goes to the collection's context, which nobody waits for any more, so
the listener is stranded until the next one (`scan.go:577`). A rendering or serving
error after the report turns any verdict into exit 1 (`root.go:71`). With the
namespace allowlist a rule whose findings were all dropped reads "No issue detected".
A `report.md` that this run was not asked for is served when it lies in the directory.

*Compare and gate.* A finding that the allowlist of the later scan drops is reported as
resolved (`compare.go:91`). A warning that becomes a blocker keeps its fingerprint, so
the gate on new blockers does not see it; verdict and score usually do
(`gate/evaluate.go:59`).

*Rollback.* Nothing ever removes `AUTO_UPGRADE_UNKNOWN`, so an eligible cluster's
evidence never becomes complete, and `rollback_preferred` and `fix_forward`, which
`docs/rollback-readiness.md:493` lists with exit 0, are out of reach
(`NothingPreferred`). One stale insight
hides a fresh one in status ERROR. An API-001 blocker of a stale document still stops
when its target matches.

*Plan and AWS.* In later hops the live halves of the add-on rules put findings about
live workloads into reports whose coverage says that Kubernetes was skipped. Predicted
findings are not filtered by the namespace allowlist. API rules with failed evidence
get no note in a later hop. Insights that the version-less retry brings home for other
versions appear as predictions. An action plan may call its phase 3
"ready" while its verdict is ASSESSMENT_INCOMPLETE; a NET-002 blocker is in no action,
and with a blocker of ADDON-001 or NODE-002 the command exits 2 while the action plan's
verdict is READY. The root README names two optional templates where the code has seven;
a mere warning of one that is not optional blocks phase 3.

### Fairness

* `K8sCollector`: weak fairness on every step of a goroutine and on `Expire`,
  because the Go scheduler runs runnable goroutines and `context.WithTimeout`
  fires. None on `Answer` (the server may never answer) nor on `Cancel`. Weak
  fairness suffices for `Acquire` and `Lock` here because there are finitely many
  tasks and each passes once.
* `ScanRun`: weak fairness on the command's main line (`Main`) and on the probe's send.
  Calls of the API servers, charts and the server's shutdown are bounded by a deadline.
  Reading manifest directories is not, deliberately (`manifest/collector.go:94-101`), and
  the decode loop (`225-235`) goes on after an error: that the file system answers and that
  the decoder gets past what it could not decode is assumed. None on `ProbeAnswered`, `ShutDown` (clients may hold on), `ServerFails`, `Signal`.
* `UpgradePlan`: weak fairness of the command's line (`Main`), on the same grounds and
  under the same assumption. None on `Signal`.
* `RuleExecution`, `Rollback`: weak fairness of the one thread of the loop and of the
  command. No liveness is claimed of them: both are straight lines. `Registry` has none.
* `Collection`: weak fairness of `Next`, which the collector implements
  (`ImplementsCollection`, liveness included, by TLC).

## 4. Proofs

Eight modules, checked by TLAPS. In each, a strengthening is shown to follow from
`Init`, to be kept by every step and to imply the properties; `SumLemmas` has what the
proofs need of sums.

`K8sCollectorProofs` proves, for **every** number of tasks, every set
of append tasks and every requested concurrency, from three assumptions
(`NumTasksAssumption`, `TaskKindsAssumption`, `ConcurrencyAssumption`: the tasks
are numbered, the kinds are sets of tasks, the clamp is a non-empty range of
positive sizes):

| Theorem | Statement |
|---|---|
| `Invariance` | `Spec => []IInv` |
| `TypeCorrect` | `Spec => []TypeOK` |
| `PoolBounded` | `Spec => []InFlightBounded` |
| `SnapshotTruth` | `Spec => []SnapshotTellsTheTruth` |
| `SnapshotFinal` | `Spec => SnapshotFrozen` |
| `Refinement` | the collector's steps are `Collection`'s steps or stutters |
| `NoDeadlock` | until `Collect` returns somebody can take a step that needs no answer |
| `OnlyForward` | each step takes one goroutine further, or is Ctrl+C or the return |
| `InterruptedOwnUp` | a task that Ctrl+C found unstarted has its error in what is returned |

None of the properties is inductive by itself. `IInv` adds what the code relies
on without saying so:

* **token accounting**: the semaphore holds as many tokens as there are goroutines
  between `Acquire` and `Release`, and the WaitGroup counts those between `Spawn`
  and `Done`; without it neither the bound nor "returned means all are done" follows;
* **the main loop**: tasks below `next` are spawned, the others not, so that a
  WaitGroup at zero after the loop means every task is done;
* **mutex ownership**: whoever is in `writing` holds the mutex, so at most one is,
  and what it read of the slice is still what the slice holds; this is what
  an unprotected append would break;
* **what a phase says of the snapshot**: before its write a task has left nothing
  there, after it exactly what its result calls for;
* **the return**: a `Collect` that returned has every goroutine at its end.

Each action preserves each part in a lemma of its own; the temporal theorems
combine `Init => IInv`, `IInv /\ [Next]_vars => IInv'` and the implication.

`NoDeadlock` and `OnlyForward` are what `CollectReturns` rests on but for fairness: the
guards are written out (`CanMove`, `CanReturn`), since ENABLED is out of the prover's
reach. If no goroutine holds a token the semaphore is empty, if none is writing the
mutex is free, and if none is left the WaitGroup is zero; and there are at most seven
steps for each task. `InterruptedOwnUp` is a box within a box: an unstarted task
under a cancelled context is doomed (`Doomed`) and stays so until it has left its error.

`WebhookBackendProofs` is for **every** set of Services, every non-empty list of webhook
lists and every number of changes (`ListsAssumption`): `Invariance`, `FindingsReal`
(`EvaluatedFindingsAreReal`) and `SilenceEarned` (`EvaluatedSilenceIsEarned`). A rule
that reads lists taken at different moments can only be right about *some* moment, so
`IInv` carries history: what was ever broken or whole only grows, what was always
referred to only shrinks (`HistoryInv`); each list that was taken shows the cluster of
a moment the history knows (`SnapInv`); and a verdict says of the lists what the rule
computes from them (`VerdictInv`).

`RuleProofs` is for the registry. Of the **loop** it proves, for **every** universe of rules,
of any length, and every assignment of statuses (`UniverseAssumption`), `Invariance`,
`EveryRuleRecorded`, `LostConfessed` and `CleanEarned`. `IInv` says of each rule already
passed that its record agrees with what it did (`RowInv`), of each rule not reached that
nothing is known of it (`Untouched`), and where the loop is (`PositionInv`).

Of the **evidence** it proves, for **every** rule and mode, every number of failed calls and every
set of clusters with finitely many nodes and pods that ask for natural amounts
(`ClustersAssumption`):

* `EvaluatedSafety` and `DismissalSafety`: for a rule whose dependencies are a table, what
  it reads is among what it declares, and what it declares, missing, withholds it; the
  three rules whose dependencies look at the evidence get a lemma each;
* `LossNeverHelps`: those three could declare less once a list is gone, and do not;
* `LossInventsNothing`: a finding on part of the lists is one on all of them, but for the
  three checks that a missing node list excuses;
* `ShortageSafety`: a placement of the pods partitions the demand by the node it lands on,
  so that the sum over pods is the sum over nodes of sums (`SumPartition`), each
  bounded by the room of its node: where DRAIN-004 finds the sum too large there is none;
The invariant is small (`EvidenceInv`: types, and only calls of planes that are there
fail); the weight is in lemmas about the operators.

Of the **registry** it proves of `RegistrySpec`, in which the statuses are no longer
arbitrary, `RegistryInvariance` (the invariants of both halves hold, and the verdicts the
loop takes are those of the evidence left) and `CleanOnEvidence`: a row that reads *No
issue detected* stands for a rule that found nothing on live evidence none of which was
lost.

`ReportProofs` is for **every** finite set of categories (`CategoriesAssumption`) and every bag
of findings: `ReportInvariance`, `ReadinessAgreement`, `ContinueSafety` and
`FindingsNeverHelp`. The invariant says which parts of a report were computed from which
evidence at each stage; monotonicity goes operator by operator from the counters, sums
over kinds, to the penalty with its caps, the score and the exit code.

It is also for **every** two scans, set of objects, number of oddities and policy
(`ComparisonAssumption`: the six rules, or some of them; finitely many objects, since the
score counts them; the policy's score delta is an integer): `CompareInvariance`,
`NewBlockersAreNew`, `PassSafety`, `RepairSafety`, `OnlyTwinsCollide` and
`ResolutionSafety`. The invariant says that both documents are those of scans (`IsScan`) and
that the outcome is what `compare` makes of them. `RepairSafety` is the long one: where
nothing got worse, no fingerprint is new, nobody's class worsened, so that neither counter,
score nor verdict can; the gate has no reason left. `ResolutionSafety` has the
hypothesis `EveryPlaneDeclared`, which the rules of the run meet and DRAIN-001 and NODE-003 do not. `OnlyTwinsCollide`: a
document that cannot be indexed is one of a scan that could see a workload live and in its
manifest (`Twins`) with one of those two rules.

`SumLemmas` proves of the community modules' sum of a function over a finite set that it
exists (the fold is a recursive function picked by CHOOSE), that one element may be taken
out in any order, that it is monotone, and that it can be grouped. Induction is by a
smallest counterexample among subsets (`SmallestSubset`), as the induction theorems with an
operator parameter cannot be instantiated.

`UpgradePlanProofs` is for **every** account, cluster, set of options, number of hops and of
faults. `AccountsAssumption` says that an account is finite and no two of its add-ons share
a name, as the EKS API guarantees; `PlanAssumption` that versions are natural numbers, and
that findings that are data are not those of rules which are operators. `AwsInv` is about
the collection: of each part of the account the snapshot knows all (of the add-ons and
node groups, all of the first page: `ListedAddons`, `ListedGroups`), or a call that leads
there is still to be made, or a recorded failure hides it (`InsightsKnown` to
`IssuesKnown`), and what it says of an add-on is so, unless its versions could not be
had (`AddonsReal`). It is kept by every call, and when no call is left it says that a rule
without a gap sees all it would have seen of the first pages; what it misses of the account
is on a later page (`LaterPagesMissed`), which is the exception that `AwsSilence` and
`PlanPassSafety` state. `ReadySafety` needs none: no template names those rules. `PlanInv` adds where the command is, what was
collected when, and what each report may claim. From it follow `AwsSilence`,
`IncompatibilitySafety`, `ProjectionSafety`, `PlanPassSafety`, `ReadySafety`, and, with the
live objects still in the first report (`ApisKept`), `OnlyTwinsAreDowngraded`.

`ScanRunProofs` is for **every** set of bags of findings, of leftovers in the output
directory and any number of signals, and assumes nothing: `Invariance`, `GreenEarned`,
`InterruptConfessed`, `ArtefactsWhole`, `ServedThisScan`. A property of the exit says
nothing of the way there, so `IInv` says what each stage may rely on: planes that were
passed have been looked at (`CoverageInv`), a live plane collected under a cancelled
context has cost a rule its evidence (`RobbedInv`), the report is the one of the
evidence still held (`ReportInv`), past the loop over the targets all are this scan's
(`WrittenInv`), and since when there is a server, and what it serves (`ServerInv`). As
long as the command runs the promises follow from these (`PromisesWhileAlive`); the
ends are `FailingExit` and `SuccessfulExit`.

`NobodyWaits` and `OnlyOnward` are what its liveness rests on but for fairness: the command
only ever waits in `Wait`, with the server up and its context live; a late answer of the
probe finds the channel empty; a cancelled `waitCtx` finds the command in `Wait`. And each
step leads to a later stage, begins a plane, brings an artefact to its next state, or is
one of the few of the probe, the server and the signals.

`RollbackProofs` is for **every** findings document, cluster, insight and update, every
window and every bound, from two assumptions: the bounds are natural numbers
(`RollbackAssumption`), and documents and answers have the shape of the code's types,
every list of targets holding the JSON artefact (`ShapesAssumption`).
`StopConfirmedAlways`, `StopHolds`, `ReadinessEarned` and `VerdictDelivered` state the
four properties of the run. The argument is in the passes, one lemma each:
`EligibilityFacts` (that needs the newest update to exist, hence the well-foundedness of
the ages), `InsightsFacts`, `ChecksFacts` and `OperationalFacts` (a check fails exactly
for a confirmed blocker, and a stop once made is kept), `RecommendationFacts` (and
`Validate` accepts it); `AssessedFacts` puts them together. The documents that TLC
enumerates are eleven; here there is no bound on them. `CompleteAssessed` follows the word
"complete" through the passes: only the insights pass says it, of an assessment with
nothing left to verify and of insights that were read. Hence `CompleteOverlooksHistory` and
`NothingPreferred`.

`TypeOK` of the collector is no property of a run, since `TypeCorrect` proves it for
every instance.

Model-checked only: liveness, which needs ENABLED: `CollectReturns`,
`InterruptedTasksAreRecorded`, the fairness that `ImplementsCollection` includes (its
safety is `Refinement`), `ScanEnds`, `ProbeDoesNotLeak`, `InterruptEndsWait` and `PlanEnds`. The
safety that all but the last rest on is proved.
`ResolvedIsGone` with DRAIN-001 or NODE-003 among the rules is not proved because it is not so (section 3).

## 5. What is not modelled, and why

* Presentation (renderers, console, wording) and static tables (catalogs,
  exemptions, providers): no state that a checker could explore.
* The inside of the rules beyond what evidence they read, except those of
  `WebhookBackend`, `DrainRules` and `AwsRules`. In `UpgradePlan` the findings of the
  other rules are data (`cluster.state`); how a version, an image or a certificate is
  parsed is data everywhere.
* In `DrainRules`, namespaces and several host ports: the rules treat each of them
  separately, so one stands for all.
* In `UpgradePlan`, the namespace allowlist and serving the plan: both are as in the
  scan, where they are modelled.
* The documents' JSON, redaction, HTTP itself, and the maintenance commands: redaction
  renames and the documents are read back whole or refused.
* Of `compare`: redaction, Markdown, the gate's advisories, and the effect of the
  target on which APIs are removed (documents of different targets are only compared
  with a warning, which makes the gate neutral).
* Flag validation before `RunE`'s real work: it ends the command before anything
  modelled happens.
* The namespace allowlist in `ScanRun`: `fs` is what is left after it, and exit codes
  speak of that, as in the code; its effect on comparisons is in `Comparison`.
* In `Comparison`, an object declared in several manifest files: the code makes one more
  finding of each, as of the live twin.
* A second Ctrl+C: Go delivers it to the same contexts, so one suffices for safety;
  `MaxSignals` is the bound.
* The missing dynamic client (`collector.go:564`): no command gets there.

## 6. Plan

The order was: first what everything else trusts (the collector and its proof, the
evidence contract, the rule loop, the verdict, the command, the comparison), then the
commands built on it (rollback, AWS plane, plan), then the arithmetic of the drain rules,
then the proofs, until every safety property of every run had its theorem.

What is left, in order of worth:

1. of `UpgradePlan`, a measure that every step of the command lowers, as `OnlyOnward` does
   for the scan: the calls that an answer can still append, hop by hop;
2. promises of the rule loop and of the rollback passes as abstract specifications in the
   manner of `Collection`, with their refinements;
3. the remaining rules (PDB-001/002, NODE-001/003, WH-004/005, CRD-001) as operators
   in the manner of `DrainRules`;
4. redaction as a renaming that keeps distinct names distinct.
