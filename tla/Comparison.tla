----------------------------- MODULE Comparison -----------------------------
(***************************************************************************)
(* kubepreflight compare: two scans of one cluster, the cluster changing   *)
(* in between, are compared by fingerprint (internal/comparison) and       *)
(* gated (internal/gate).                                                  *)
(*                                                                         *)
(* A sighting is a thing that is wrong, seen on one plane; six rules stand *)
(* for the ways in which the 31 identify and grade what they find:         *)
(*   API-001     merges what it sees of an object live and in manifests;   *)
(*   DRAIN-001   and                                                       *)
(*   NODE-003    report both, under the same fingerprint;                  *)
(*   PDB-001     grades by the upgrade context;                            *)
(*   WH-002      grades by the failure policy of the webhook;              *)
(*   EKS-NG-001  needs AWS, and leaves the target out of its fingerprint.  *)
(* One file declares an object.                                            *)
(* The documents carry, besides what the scan wrote, what its rules saw    *)
(* and how the cluster was: no code reads that.                            *)
(***************************************************************************)
EXTENDS ReportVerdict

CONSTANTS
  RuleIDs,      \* the rules that take part
  Objects,      \* the objects each of them looks at
  Policies,     \* the gate policies
  MaxOddities,  \* bound on what sets the two scans apart from plain ones
  MaxChanges    \* bound on the changes to the cluster between them

ASSUME ComparisonAssumption ==
  /\ RuleIDs \subseteq {"API-001", "DRAIN-001", "NODE-003", "PDB-001", "WH-002", "EKS-NG-001"}
  /\ IsFiniteSet(Objects)
  /\ \A policy \in Policies : policy.minimumScoreDelta \in Int

VARIABLES
  world,     \* what is wrong with the cluster, and how badly
  baseline,  \* the findings.json of the earlier scan
  current,   \* the findings.json of the later scan
  outcome    \* what compare makes of the two

vars == <<world, baseline, current, outcome>>

(* The rules that look at workloads, live and in manifests. *)
Unmerged == {"DRAIN-001", "NODE-003"}

SeenOn(rule) ==
  CASE rule \in {"API-001"} \cup Unmerged -> {"kubernetes", "manifests"}
    [] rule \in {"PDB-001", "WH-002"}     -> {"kubernetes"}
    [] rule = "EKS-NG-001"                -> {"aws"}

Sightings == UNION {[rule : {r}, object : Objects, plane : SeenOn(r)] : r \in RuleIDs}
Namespaced(s) == s.rule \in {"API-001", "PDB-001"} \cup Unmerged

(* How a thing can be wrong: a webhook's failure policy decides its grade. *)
Ways(s) == IF s.rule = "WH-002" THEN {"absent", "ignore", "fail"} ELSE {"absent", "present"}
Worlds == {w \in [Sightings -> {"absent", "present", "ignore", "fail"}] :
             \A s \in Sightings : w[s] \in Ways(s)}

Graded(severity, gate) == [severity |-> severity, gate |-> gate, global |-> FALSE]

DrainDependentGate(context) ==
  IF context = "worker-rollout" THEN Graded("Blocker", "block")
  ELSE Graded("Warning", "operator_decision")

Kind(s, way, context) ==
  CASE s.rule = "PDB-001" -> DrainDependentGate(context)
    [] s.rule = "API-001" \/ way = "fail" -> Graded("Blocker", "")
    [] OTHER -> Graded("Warning", "")

CategoryOf(rule) ==
  CASE rule = "API-001"    -> "API Compatibility"
    [] rule = "DRAIN-001"  -> "Drain Readiness"
    [] rule = "PDB-001"    -> "Disruption Safety"
    [] rule = "WH-002"     -> "Admission Webhooks"
    [] rule \in {"NODE-003", "EKS-NG-001"} -> "Node Readiness"
-----------------------------------------------------------------------------
(* How a scan is run: what is asked for, by which build, and which rule    *)
(* misses what it should have seen: evidence on a plane was lost, or the   *)
(* rule itself failed.                                                     *)
NoFlaw == [rule |-> "none", lost |-> "none"]
Flaws == {NoFlaw} \cup UNION {[rule : {r}, lost : SeenOn(r) \cup {"itself"}] : r \in RuleIDs}
Setups ==
  [target : {"1.33", "1.34"}, context : {"worker-rollout", "unspecified"},
   planes : {{"kubernetes"} \cup p : p \in SUBSET {"aws", "manifests"}} \cup {{"manifests"}},
   restricted : BOOLEAN, native : BOOLEAN, flaw : Flaws]

Oddities(setup) ==
  Cardinality(Planes \ setup.planes)
    + Cardinality({odd \in {"target", "context", "restricted", "native", "flaw"} :
        setup[odd] # [target |-> "1.34", context |-> "worker-rollout", restricted |-> FALSE,
                      native |-> TRUE, flaw |-> NoFlaw][odd]})

(* The planes of a rule's declared evidence: DRAIN-001 and NODE-003 read   *)
(* manifests without declaring them.                                       *)
Declares(rule) == IF rule \in Unmerged THEN {"kubernetes"} ELSE SeenOn(rule)

(* Without a cluster, NewManifestsOnlyRegistry.                            *)
Applicable(rule, setup) ==
  /\ Declares(rule) \cap setup.planes # {}
  /\ "kubernetes" \notin setup.planes => rule = "API-001"

Visible(setup, w) ==
  {s \in Sightings : w[s] # "absent" /\ s.plane \in setup.planes /\ Applicable(s.rule, setup)}

(* FingerprintV2 over the rule, the target and the resource's concept key, *)
(* which is the same for a live object and the manifest that declares it.  *)
Fingerprint(s, target) ==
  [rule |-> s.rule, object |-> s.object,
   target |-> IF s.rule = "EKS-NG-001" THEN "" ELSE target]

(* mergeAPI001Findings: one finding that carries every plane's resource.   *)
ResourcePlanes(s, seen) ==
  IF s.rule = "API-001"
  THEN {t.plane : t \in {u \in seen : u.rule = s.rule /\ u.object = s.object}}
  ELSE {s.plane}

FindingsOf(setup, w, seen) ==
  {[fingerprint |-> Fingerprint(s, setup.target), planes |-> ResourcePlanes(s, seen),
    kind |-> Kind(s, w[s], setup.context)] : s \in seen}

(* FilterByNamespaceAllowlist, with an allowlist without the objects'      *)
(* namespaces: cluster-scoped and provider findings stay.                  *)
Allowed(setup, seen) == {s \in seen : setup.restricted => ~Namespaced(s)}

RecordOf(rule, setup) ==
  IF ~setup.native THEN "unrecorded"
  ELSE IF ~Applicable(rule, setup) THEN "not_applicable"
  ELSE IF setup.flaw.rule # rule THEN "evaluated"
  ELSE IF setup.flaw.lost = "itself" THEN "failed"
  ELSE IF setup.flaw.lost \in Declares(rule) THEN "insufficient_evidence" ELSE "evaluated"

(* buildScanCoverage: a plane on which evidence was lost is partial; a     *)
(* rule that fails leaves the coverage alone.                              *)
CoverageOf(setup) ==
  [p \in Planes |-> IF p \notin setup.planes THEN "skipped"
                    ELSE IF setup.flaw.lost = p THEN "partial" ELSE "complete"]

Count(fs) ==
  [class \in Classes |->
     Cardinality({f \in fs : <<CategoryOf(f.fingerprint.rule), f.kind>> = class})]

NoDocument == [setup |-> "none"]
Document(setup, w, missed) ==
  LET seen == Visible(setup, w) \ missed
      fs == FindingsOf(setup, w, Allowed(setup, seen))
  IN  [setup |-> setup, world |-> w, findings |-> fs,
       coverage |-> CoverageOf(setup),
       records |-> [r \in RuleIDs |-> RecordOf(r, setup)],
       normalized |-> FALSE,
       score |-> ReadinessScore(Count(fs))]

(* Builds before the execution records gave up when a rule failed.         *)
Scans ==
  {setup \in Setups :
     /\ Oddities(setup) <= MaxOddities
     /\ setup.flaw # NoFlaw =>
          /\ Applicable(setup.flaw.rule, setup)
          /\ setup.flaw.lost \in setup.planes \/ (setup.flaw.lost = "itself" /\ setup.native)}

Missable(setup, w) ==
  SUBSET {s \in Visible(setup, w) :
            s.rule = setup.flaw.rule /\ setup.flaw.lost \in {s.plane, "itself"}}
-----------------------------------------------------------------------------
HasFinding(doc, rule) == \E f \in doc.findings : f.fingerprint.rule = rule

(* Mutant: a document without records is taken to have evaluated all. *)
NormalizeToEvaluated(doc) ==
  IF doc.setup.native THEN doc
  ELSE [doc EXCEPT !.normalized = TRUE, !.records = [r \in RuleIDs |-> "evaluated"]]

(* LoadAndNormalize: a document without execution records gets them from   *)
(* the presence of findings.                                               *)
LoadAndNormalize(doc) ==
  IF doc.setup.native THEN doc
  ELSE [doc EXCEPT !.normalized = TRUE,
          !.records = [r \in RuleIDs |->
                         IF HasFinding(doc, r) THEN "evaluated" ELSE "not_evaluated"]]

EvaluatedAll(doc) ==
  doc.normalized \/ \A r \in RuleIDs : doc.records[r] \in {"not_applicable", "evaluated"}
Complete(doc) == IsComplete(doc.coverage, EvaluatedAll(doc))
VerdictOf(doc) == Result(Count(doc.findings), doc.coverage, EvaluatedAll(doc))

(* indexByFingerprint. *)
Indexable(doc) ==
  \A f, g \in doc.findings : f.fingerprint = g.fingerprint => f = g

(* Mutant: only a change of the target version is warned about. *)
WarningsTarget(b, c) == b.setup.target # c.setup.target

CompareWarnings(b, c) == b.setup.target # c.setup.target \/ b.setup.context # c.setup.context

Matching(f, doc) == {g \in doc.findings : g.fingerprint = f.fingerprint}

RuleProvenEvaluated(rule, doc) == doc.records[rule] = "evaluated"

Gone(b, c) == {f \in b.findings : Matching(f, c) = {}}

Compare(b, c) ==
  [new |-> {f \in c.findings : Matching(f, b) = {}},
   changed |-> {f \in c.findings : Matching(f, b) \notin {{}, {f}}},
   unchanged |-> {f \in c.findings : Matching(f, b) = {f}},
   resolved |-> {f \in Gone(b, c) : RuleProvenEvaluated(f.fingerprint.rule, c)},
   notReEvaluated |-> {f \in Gone(b, c) : ~RuleProvenEvaluated(f.fingerprint.rule, c)}]

VerdictRank(verdict) ==
  CASE verdict = "BLOCKED" -> 2 [] verdict = "PASSED_WITH_WARNINGS" -> 1 [] OTHER -> 0

NewBlockers(cmp) == {f \in cmp.new : Blocking(f.kind)}
NewWarnings(cmp) == {f \in cmp.new : f.kind.severity = "Warning"}

(* Mutant: the evidence of the baseline is not looked at. *)
TrustworthyCurrent(b, c) == Complete(c) /\ ~CompareWarnings(b, c)

(* Mutant: the evidence of the current scan is not looked at. *)
TrustworthyBaseline(b, c) == Complete(b) /\ ~CompareWarnings(b, c)

Trustworthy(b, c) == Complete(b) /\ Complete(c) /\ ~CompareWarnings(b, c)

Reasons(b, c, cmp, policy) ==
  {reason \in {"NEW_BLOCKERS_DETECTED", "NEW_WARNINGS_DETECTED", "WARNINGS_PRESENT",
               "READINESS_VERDICT_REGRESSED", "READINESS_SCORE_REGRESSED"} :
     CASE reason = "NEW_BLOCKERS_DETECTED" ->
            policy.failOnNewBlockers /\ NewBlockers(cmp) # {}
       [] reason = "NEW_WARNINGS_DETECTED" ->
            policy.warningPolicy = "fail_on_new" /\ NewWarnings(cmp) # {}
       [] reason = "WARNINGS_PRESENT" ->
            policy.warningPolicy = "fail_on_any" /\ Warnings(Count(c.findings))
       [] reason = "READINESS_VERDICT_REGRESSED" ->
            /\ policy.failOnVerdictRegression
            /\ VerdictRank(VerdictOf(c)) > VerdictRank(VerdictOf(b))
       [] reason = "READINESS_SCORE_REGRESSED" ->
            c.score - b.score < policy.minimumScoreDelta}

(* gate.Evaluate: evidence quality always wins over policy. *)
Gate(b, c, cmp, policy) ==
  IF ~Trustworthy(b, c)
  THEN [decision |-> "neutral", reasons |-> {"INSUFFICIENT_EVIDENCE"}]
  ELSE LET reasons == Reasons(b, c, cmp, policy)
       IN  [decision |-> IF reasons = {} THEN "pass" ELSE "fail", reasons |-> reasons]
-----------------------------------------------------------------------------
NoOutcome == [status |-> "none"]

Init ==
  /\ world \in Worlds
  /\ baseline = NoDocument
  /\ current = NoDocument
  /\ outcome = NoOutcome

ScanBaseline ==
  /\ baseline = NoDocument
  /\ \E setup \in Scans : \E missed \in Missable(setup, world) :
       baseline' = Document(setup, world, missed)
  /\ UNCHANGED <<world, current, outcome>>

(* The cluster, its manifests or its node groups change. *)
Change ==
  /\ baseline # NoDocument /\ current = NoDocument
  /\ \E s \in Sightings : \E way \in Ways(s) \ {world[s]} : world' = [world EXCEPT ![s] = way]
  /\ Cardinality({s \in Sightings : world'[s] # baseline.world[s]}) <= MaxChanges
  /\ UNCHANGED <<baseline, current, outcome>>

ScanCurrent ==
  /\ baseline # NoDocument /\ current = NoDocument
  /\ \E setup \in {other \in Scans :
                     Oddities(baseline.setup) + Oddities(other) <= MaxOddities} :
       \E missed \in Missable(setup, world) : current' = Document(setup, world, missed)
  /\ UNCHANGED <<world, baseline, outcome>>

(* compare --gate-out: a document with two findings of one fingerprint is  *)
(* an error, and nothing is written.                                       *)
RunCompare(policy) ==
  /\ current # NoDocument /\ outcome = NoOutcome
  /\ LET b == LoadAndNormalize(baseline)
         c == LoadAndNormalize(current)
         cmp == Compare(b, c)
     IN  outcome' = IF Indexable(b) /\ Indexable(c)
                    THEN [status |-> "compared", policy |-> policy, cmp |-> cmp,
                          gate |-> Gate(b, c, cmp, policy)]
                    ELSE [status |-> "error"]
  /\ UNCHANGED <<world, baseline, current>>

Next == ScanBaseline \/ Change \/ ScanCurrent \/ \E policy \in Policies : RunCompare(policy)

Spec == Init /\ [][Next]_vars
-----------------------------------------------------------------------------
Compared == outcome.status = "compared"
LooksAtLeastAs(setup, other) ==
  /\ other.planes \subseteq setup.planes
  /\ setup.restricted => other.restricted
InScope(s, setup) ==
  s.plane \in setup.planes /\ Applicable(s.rule, setup) /\ (setup.restricted => ~Namespaced(s))
Blocks(s, doc) ==
  InScope(s, doc.setup) /\ doc.world[s] # "absent"
    /\ Blocking(Kind(s, doc.world[s], doc.setup.context))

(* A finding that is reported as resolved is gone: where the later scan    *)
(* looked at no less than the earlier one, at the same target, nothing is  *)
(* wrong any more with that object.  Of a document without execution       *)
(* records this is said only of rules that report nothing in it, as those  *)
(* that report something are taken to have seen everything.                *)
ResolvedIsGone ==
  Compared /\ LooksAtLeastAs(current.setup, baseline.setup) =>
    \A f \in outcome.cmp.resolved :
      /\ baseline.setup.target = current.setup.target
      /\ current.setup.native \/ ~HasFinding(current, f.fingerprint.rule)
      => \A s \in Sightings :
           /\ s.rule = f.fingerprint.rule /\ s.object = f.fingerprint.object
           /\ s.plane \in f.planes
           => current.world[s] = "absent"

(* A gate that fails on new blockers and passes has earned it: whatever    *)
(* blocks the upgrade within the scope of the later scan, the earlier scan *)
(* had already reported.                                                   *)
PassIsEarned ==
  Compared /\ outcome.gate.decision = "pass" /\ outcome.policy.failOnNewBlockers =>
    \A s \in Sightings : Blocks(s, current) =>
      \E f \in baseline.findings : f.fingerprint = Fingerprint(s, current.setup.target)

(* A new blocker that fails the gate is new: the earlier scan looked at as *)
(* much and the object was not wrong then.                                 *)
NewBlockerIsNew ==
  /\ Compared /\ LooksAtLeastAs(baseline.setup, current.setup)
  /\ "NEW_BLOCKERS_DETECTED" \in outcome.gate.reasons
  => \E s \in Sightings : Blocks(s, current) /\ baseline.world[s] = "absent"

(* Who only repairs things is not stopped, unless the policy stops on any  *)
(* warning or asks for a better score: where the earlier scan looked at no *)
(* less, a cluster in which nothing got worse never fails the gate.        *)
RepairNeverFails ==
  /\ Compared /\ outcome.gate.decision = "fail"
  /\ outcome.policy.minimumScoreDelta <= 0
  /\ LooksAtLeastAs(baseline.setup, current.setup)
  /\ "WARNINGS_PRESENT" \notin outcome.gate.reasons
  => \E s \in Sightings : current.world[s] \notin {"absent", baseline.world[s]}

(* compare.go: two findings with the same fingerprint must not be in one   *)
(* document, so what two scans wrote can always be compared.               *)
ScansCanBeCompared == outcome.status # "error"
=============================================================================
