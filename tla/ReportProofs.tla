---------------------------- MODULE ReportProofs ----------------------------
(***************************************************************************)
(* Proofs about what a report concludes and what compare makes of two: the *)
(* readiness agrees with the result and more findings never improve it;    *)
(* the gate's new blockers are new, its passes are earned, what it calls   *)
(* resolved is gone, and repairing things does not fail it.                *)
(***************************************************************************)
EXTENDS ScanReport, Comparison, SumLemmas

Counts == [Classes -> Nat]

LEMMA EightAreFinite ==
  ASSUME NEW a, NEW b, NEW c, NEW d, NEW e, NEW f, NEW g, NEW h
  PROVE  IsFiniteSet({a, b, c, d, e, f, g, h})
<1>1. IsFiniteSet({a} \cup {b}) /\ IsFiniteSet({c} \cup {d})
      /\ IsFiniteSet({e} \cup {f}) /\ IsFiniteSet({g} \cup {h})
  BY FS_Singleton, FS_Union
<1>2. IsFiniteSet(({a} \cup {b}) \cup ({c} \cup {d})) /\ IsFiniteSet(({e} \cup {f}) \cup ({g} \cup {h}))
  BY <1>1, FS_Union
<1>3. IsFiniteSet((({a} \cup {b}) \cup ({c} \cup {d})) \cup (({e} \cup {f}) \cup ({g} \cup {h})))
  BY <1>2, FS_Union
<1>4. {a, b, c, d, e, f, g, h}
        = (({a} \cup {b}) \cup ({c} \cup {d})) \cup (({e} \cup {f}) \cup ({g} \cup {h}))
  OBVIOUS
<1>5. QED
  BY <1>3, <1>4

LEMMA KindsFinite == IsFiniteSet(Kinds)
BY EightAreFinite, Zenon DEF Kinds

(* What the counters of a category count: there is a finding in it. *)
LEMMA CountPositive ==
  ASSUME NEW f \in Counts, NEW c \in Categories, NEW ks \in SUBSET Kinds
  PROVE  /\ CountOf(f, c, ks) \in Nat
         /\ CountOf(f, c, ks) > 0 <=> \E k \in ks : f[<<c, k>>] > 0
<1> DEFINE g == [k \in ks |-> f[<<c, k>>]]
<1>1. DOMAIN g = ks /\ \A k \in ks : g[k] = f[<<c, k>>] /\ g[k] \in Nat
  BY DEF Counts, Classes
<1>2. IsFiniteSet(ks)
  BY KindsFinite, FS_Subset
<1>3. CountOf(f, c, ks) = SumFunctionOnSet(g, ks)
  BY <1>1 DEF CountOf, SumFunction
<1> HIDE DEF g
<1>4. /\ SumFunctionOnSet(g, ks) \in Nat
      /\ SumFunctionOnSet(g, ks) > 0 <=> \E k \in ks : g[k] > 0
  BY <1>1, <1>2, SumPositive
<1>5. QED
  BY <1>1, <1>3, <1>4

NoLess(f, g) == \A class \in Classes : f[class] <= g[class]

LEMMA CountMonotone ==
  ASSUME NEW f \in Counts, NEW h \in Counts, NoLess(f, h),
         NEW c \in Categories, NEW ks \in SUBSET Kinds
  PROVE  CountOf(f, c, ks) <= CountOf(h, c, ks)
<1> DEFINE a == [k \in ks |-> f[<<c, k>>]]
           b == [k \in ks |-> h[<<c, k>>]]
<1>1. /\ DOMAIN a = ks /\ DOMAIN b = ks
      /\ \A k \in ks : a[k] \in Int /\ b[k] \in Int /\ a[k] <= b[k]
  BY DEF Counts, Classes, NoLess
<1>2. IsFiniteSet(ks)
  BY KindsFinite, FS_Subset
<1>3. CountOf(f, c, ks) = SumFunctionOnSet(a, ks) /\ CountOf(h, c, ks) = SumFunctionOnSet(b, ks)
  BY <1>1 DEF CountOf, SumFunction
<1> HIDE DEF a, b
<1>4. SumFunctionOnSet(a, ks) <= SumFunctionOnSet(b, ks)
  BY <1>1, <1>2, SumMonotone
<1>5. QED
  BY <1>3, <1>4

BlockingKinds == {k \in Kinds : Blocking(k)}
WarningKinds == {k \in Kinds : Deciding(k) \/ (~Blocking(k) /\ k.severity = "Warning")}

(* A category that loses points for f loses no fewer for more findings. *)
LEMMA PenaltyMonotone ==
  ASSUME NEW f \in Counts, NEW h \in Counts, NoLess(f, h), NEW c \in Categories
  PROVE  Penalty(f, c) \in Nat /\ Penalty(f, c) <= Penalty(h, c)
<1> DEFINE bf == BlockerCount(f, c)
           bh == BlockerCount(h, c)
           wf == WarningCount(f, c)
           wh == WarningCount(h, c)
<1>1. bf \in Nat /\ bh \in Nat /\ bf <= bh
  BY CountPositive, CountMonotone DEF BlockerCount
<1>2. wf \in Nat /\ wh \in Nat /\ wf <= wh
  BY CountPositive, CountMonotone DEF WarningCount
<1>3. /\ Penalty(f, c) = IF bf > 0 THEN Capped(15 + 3 * (bf - 1), 25)
                         ELSE IF wf > 0 THEN Capped(5 + (wf - 1), 10) ELSE 0
      /\ Penalty(h, c) = IF bh > 0 THEN Capped(15 + 3 * (bh - 1), 25)
                         ELSE IF wh > 0 THEN Capped(5 + (wh - 1), 10) ELSE 0
  BY Zenon DEF Penalty, Status
<1> HIDE DEF bf, bh, wf, wh
<1>4. QED
  BY <1>1, <1>2, <1>3 DEF Capped

LEMMA ScoreMonotone ==
  ASSUME NEW f \in Counts, NEW h \in Counts, NoLess(f, h)
  PROVE  /\ ReadinessScore(f) \in Nat /\ ReadinessScore(h) \in Nat
         /\ ReadinessScore(h) <= ReadinessScore(f)
<1> DEFINE a == [c \in Categories |-> Penalty(f, c)]
           b == [c \in Categories |-> Penalty(h, c)]
           p == SumFunctionOnSet(a, Categories)
           q == SumFunctionOnSet(b, Categories)
<1>1. NoLess(h, h)
  BY DEF NoLess, Counts
<1>2. /\ DOMAIN a = Categories /\ DOMAIN b = Categories
      /\ \A c \in Categories : a[c] \in Int /\ b[c] \in Int /\ a[c] <= b[c]
  BY <1>1, PenaltyMonotone
<1>3. /\ ReadinessScore(f) = IF 100 - p < 0 THEN 0 ELSE 100 - p
      /\ ReadinessScore(h) = IF 100 - q < 0 THEN 0 ELSE 100 - q
  BY <1>2 DEF ReadinessScore, SumFunction
<1> HIDE DEF a, b
<1>4. p \in Int /\ q \in Int /\ p <= q
  BY <1>2, CategoriesAssumption, SumMonotone, SumRemove
<1> HIDE DEF p, q
<1>5. QED
  BY <1>3, <1>4
-----------------------------------------------------------------------------
Stages == {"none", "new", "executions", "done"}
Verdicts == {"INCOMPLETE", "BLOCKED", "PASSED_WITH_WARNINGS", "CLEAN"}

ReportTypeOK ==
  /\ fs \in Counts
  /\ coverage \in [Planes -> {"partial", "complete"}]
  /\ evaluated \in BOOLEAN
  /\ report = [stage |-> report.stage, coverage |-> report.coverage,
               evaluated |-> report.evaluated, readiness |-> report.readiness]
  /\ report.stage \in Stages

(* What has been assigned so far, and that the readiness is recomputed last. *)
ReportInv ==
  /\ ReportTypeOK
  /\ report.stage \in {"executions", "done"} => report.evaluated = evaluated
  /\ Done => /\ report.coverage = coverage
             /\ report.readiness = Readiness(fs, coverage, evaluated)

LEMMA ReportInitInv == ReportInit => ReportInv
<1> SUFFICES ASSUME ReportInit PROVE ReportInv
  OBVIOUS
<1>1. fs \in Counts
  BY DEF ReportInit, Counts
<1>2. report.stage = "none" /\ ReportTypeOK
  BY <1>1 DEF ReportInit, ReportTypeOK, Stages
<1>3. QED
  BY <1>2 DEF ReportInv, Done

LEMMA FindStep ==
  ASSUME NEW class \in Classes, ReportTypeOK, Find(class)
  PROVE  fs' \in Counts /\ NoLess(fs, fs') /\ UNCHANGED <<coverage, evaluated, report>>
BY DEF Find, ReportTypeOK, Counts, NoLess

LEMMA ReportNextInv == ReportInv /\ [ReportNext]_reportVars => ReportInv'
<1> SUFFICES ASSUME ReportInv, [ReportNext]_reportVars PROVE ReportInv'
  OBVIOUS
<1>1. ReportTypeOK
  BY DEF ReportInv
<1>2. ASSUME NEW class \in Classes, Find(class) PROVE ReportInv'
  <2>1. fs' \in Counts /\ UNCHANGED <<coverage, evaluated, report>>
    BY <1>1, <1>2, FindStep
  <2>2. report.stage = "none"
    BY <1>2 DEF Find
  <2>3. QED
    BY <1>1, <2>1, <2>2 DEF ReportInv, ReportTypeOK, Done
<1>3. CASE NewReport
  <2>1. /\ report'.stage = "new" /\ report'.coverage = report.coverage
        /\ report' = [stage |-> report'.stage, coverage |-> report'.coverage,
                      evaluated |-> report'.evaluated, readiness |-> report'.readiness]
        /\ UNCHANGED <<fs, coverage, evaluated>>
    BY <1>1, <1>3, Zenon DEF NewReport, ReportTypeOK
  <2>2. QED
    BY <1>1, <2>1 DEF ReportInv, ReportTypeOK, Done, Stages
<1>4. CASE AssignRuleExecutions
  BY <1>1, <1>4 DEF AssignRuleExecutions, ReportInv, ReportTypeOK, Done, Stages
<1>5. CASE SetCoverage
  BY <1>1, <1>5 DEF SetCoverage, ReportInv, ReportTypeOK, Done, Stages
<1>6. CASE UNCHANGED reportVars
  <2>1. UNCHANGED <<fs, coverage, evaluated, report>>
    BY <1>6 DEF reportVars
  <2>2. Readiness(fs, coverage, evaluated)' = Readiness(fs, coverage, evaluated)
    BY <2>1
  <2>3. QED
    BY <2>1, <2>2 DEF ReportInv, ReportTypeOK, Done
<1>7. QED
  BY <1>2, <1>3, <1>4, <1>5, <1>6 DEF ReportNext

THEOREM ReportInvariance == ReportSpec => []ReportInv
BY ReportInitInv, ReportNextInv, PTL DEF ReportSpec

LEMMA ReadinessIs ==
  ASSUME NEW f, NEW c, NEW e
  PROVE  /\ Readiness(f, c, e).verdict = Result(f, c, e)
         /\ Readiness(f, c, e).continue = UpgradeContinue(f, Result(f, c, e))
         /\ Readiness(f, c, e).score = ReadinessScore(f)
BY DEF Readiness, BuildUpgradeReadinessSummary

LEMMA ResultIncomplete ==
  ASSUME NEW f, NEW c, NEW e
  PROVE  Result(f, c, e) = "INCOMPLETE" <=> ~IsComplete(c, e)
BY DEF Result

(* What the reports show beside the verdict was computed from the coverage *)
(* and the records that the result and the exit code are derived from,     *)
(* whatever the findings (upgradeReadinessSummary, BuildOverallCoverage).  *)
THEOREM ReadinessAgreement == ReportSpec => []ReadinessAgreesWithResult
<1>1. ReportInv => ReadinessAgreesWithResult
  <2> SUFFICES ASSUME ReportInv, Done
               PROVE  /\ report.readiness.verdict = FinalResult
                      /\ OverallCoverage = "complete" <=> FinalResult # "INCOMPLETE"
    BY DEF ReadinessAgreesWithResult
  <2>1. /\ report.coverage = coverage /\ report.evaluated = evaluated
        /\ report.readiness = Readiness(fs, coverage, evaluated)
    BY DEF ReportInv, Done
  <2>2. report.readiness.verdict = FinalResult
    BY <2>1, ReadinessIs DEF FinalResult
  <2>3. OverallCoverage = "complete" <=> report.evaluated /\ DegradedPlanes = {}
    BY DEF OverallCoverage
  <2>4. IsComplete(report.coverage, report.evaluated)
          <=> report.evaluated /\ DegradedPlanes = {}
    BY DEF IsComplete, DegradedPlanes
  <2>5. QED
    BY <2>2, <2>3, <2>4, ResultIncomplete DEF FinalResult
<1>2. QED
  BY <1>1, ReportInvariance, PTL

(* A finding that gates is counted as a blocker of its category. *)
LEMMA BlockerIsCounted ==
  ASSUME NEW f \in Counts
  PROVE  Blockers(f) <=> \E c \in Categories : BlockerCount(f, c) > 0
<1>1. Blockers(f) <=> \E class \in Classes : class[2] \in BlockingKinds /\ f[class] > 0
  BY DEF Blockers, Some, BlockingKinds
<1>2. (\E class \in Classes : class[2] \in BlockingKinds /\ f[class] > 0)
        <=> \E c \in Categories : \E k \in BlockingKinds : f[<<c, k>>] > 0
  <2>1. \A class \in Classes :
          class = <<class[1], class[2]>> /\ class[1] \in Categories /\ class[2] \in Kinds
    BY DEF Classes
  <2>2. \A c \in Categories, k \in BlockingKinds : <<c, k>> \in Classes /\ <<c, k>>[2] = k
    BY DEF Classes, BlockingKinds
  <2>3. QED
    BY <2>1, <2>2
<1>3. ASSUME NEW c \in Categories
      PROVE  BlockerCount(f, c) > 0 <=> \E k \in BlockingKinds : f[<<c, k>>] > 0
  BY CountPositive DEF BlockerCount, BlockingKinds
<1>4. QED
  BY <1>1, <1>2, <1>3

(* "Upgrade may continue" is said only of a scan with complete evidence    *)
(* and every rule evaluated that found nothing that gates the upgrade or   *)
(* waits for a decision (BuildUpgradeReadinessSummary), for any number of  *)
(* findings in any categories.                                             *)
THEOREM ContinueSafety == ReportSpec => []ContinueIsEarned
<1>1. ReportInv => ContinueIsEarned
  <2> SUFFICES ASSUME ReportInv, Done, report.readiness.continue
               PROVE  /\ \A p \in Planes : coverage[p] = "complete"
                      /\ evaluated
                      /\ ~Blockers(fs) /\ ~OperatorDecisions(fs)
                      /\ ExitCode(FinalResult) \in {0, 1}
    BY DEF ContinueIsEarned
  <2>1. /\ report.coverage = coverage /\ report.evaluated = evaluated /\ fs \in Counts
        /\ report.readiness = Readiness(fs, coverage, evaluated)
        /\ coverage \in [Planes -> {"partial", "complete"}]
    BY DEF ReportInv, ReportTypeOK, Done
  <2>2. UpgradeContinue(fs, Result(fs, coverage, evaluated))
    BY <2>1, ReadinessIs
  <2>3. IsComplete(coverage, evaluated) /\ ~Blockers(fs) /\ ~OperatorDecisions(fs)
    BY <2>1, <2>2, ResultIncomplete, BlockerIsCounted DEF UpgradeContinue
  <2>4. (\A p \in Planes : coverage[p] = "complete") /\ evaluated
    BY <2>1, <2>3 DEF IsComplete
  <2>5. FinalResult \in {"PASSED_WITH_WARNINGS", "CLEAN"}
    BY <2>1, <2>3 DEF FinalResult, Result
  <2>6. ExitCode(FinalResult) \in {0, 1}
    BY <2>5 DEF ExitCode
  <2>7. QED
    BY <2>3, <2>4, <2>6
<1>2. QED
  BY <1>1, ReportInvariance, PTL

LEMMA SomeMonotone ==
  ASSUME NEW f \in Counts, NEW h \in Counts, NoLess(f, h), NEW ks, Some(f, ks)
  PROVE  Some(h, ks)
BY DEF Some, NoLess, Counts

LEMMA ExitCodeMonotone ==
  ASSUME NEW f \in Counts, NEW h \in Counts, NoLess(f, h), NEW c, NEW e
  PROVE  ExitCode(Result(h, c, e)) >= ExitCode(Result(f, c, e))
<1>1. /\ Blockers(f) => Blockers(h)
      /\ Warnings(f) => Warnings(h)
      /\ OperatorDecisions(f) => OperatorDecisions(h)
  BY SomeMonotone DEF Blockers, Warnings, OperatorDecisions
<1>2. QED
  BY <1>1 DEF Result, ExitCode

(* One more finding never improves the conclusions: the score does not     *)
(* rise, the exit code does not fall, and a scan that may not continue     *)
(* still may not (score.go, resultAndExitCode), for any scorecard.         *)
THEOREM FindingsNeverHelp == ReportSpec => FindingMoreNeverHelps
<1> DEFINE Worse ==
      LET before == Readiness(fs, coverage, evaluated)
          after == Readiness(fs', coverage, evaluated)
      IN  /\ after.score <= before.score
          /\ ExitCode(after.verdict) >= ExitCode(before.verdict)
          /\ after.continue => before.continue
<1>1. ReportInv /\ [ReportNext]_reportVars => [fs' # fs => Worse]_reportVars
  <2> SUFFICES ASSUME ReportInv, ReportNext, fs' # fs PROVE Worse
    BY DEF reportVars
  <2>1. PICK class \in Classes : Find(class)
    BY DEF ReportNext, NewReport, AssignRuleExecutions, SetCoverage
  <2>2. fs \in Counts /\ fs' \in Counts /\ NoLess(fs, fs')
    BY <2>1, FindStep DEF ReportInv, ReportTypeOK
  <2> DEFINE b == Result(fs, coverage, evaluated)
             a == Result(fs', coverage, evaluated)
  <2>3. ReadinessScore(fs') <= ReadinessScore(fs)
    BY <2>2, ScoreMonotone
  <2>4. ExitCode(a) >= ExitCode(b)
    BY <2>2, ExitCodeMonotone
  <2>5. UpgradeContinue(fs', a) => UpgradeContinue(fs, b)
    <3>1. a = "INCOMPLETE" <=> b = "INCOMPLETE"
      BY ResultIncomplete
    <3>2. Blockers(fs) => Blockers(fs')
      BY <2>2, SomeMonotone DEF Blockers
    <3>3. OperatorDecisions(fs) => OperatorDecisions(fs')
      BY <2>2, SomeMonotone DEF OperatorDecisions
    <3> HIDE DEF a, b
    <3>4. QED
      BY <2>2, <3>1, <3>2, <3>3, BlockerIsCounted DEF UpgradeContinue
  <2>6. QED
    BY <2>3, <2>4, <2>5, ReadinessIs
<1>2. QED
  BY <1>1, ReportInvariance, PTL DEF ReportSpec, FindingMoreNeverHelps
-----------------------------------------------------------------------------
(* What the document of a scan holds. *)
SeenBy(setup, w, missed) == Allowed(setup, Visible(setup, w) \ missed)

LEMMA SetupFacts ==
  ASSUME NEW setup \in Scans
  PROVE  /\ setup.planes \subseteq Planes
         /\ setup.flaw # NoFlaw =>
              /\ Applicable(setup.flaw.rule, setup)
              /\ setup.flaw.lost \in setup.planes \/ (setup.flaw.lost = "itself" /\ setup.native)
<1>1. setup \in Setups
  BY DEF Scans
<1>2. setup.planes \in {{"kubernetes"} \cup p : p \in SUBSET {"aws", "manifests"}} \cup {{"manifests"}}
  BY <1>1 DEF Setups
<1>3. QED
  BY <1>2 DEF Scans, Planes

Shows(doc, setup, w, missed) ==
  /\ doc.setup = setup /\ doc.world = w
  /\ doc.findings = FindingsOf(setup, w, SeenBy(setup, w, missed))
  /\ doc.coverage = CoverageOf(setup)
  /\ doc.score = ReadinessScore(Count(doc.findings))

Records(doc, setup) == \A r \in RuleIDs : doc.records[r] = RecordOf(r, setup)
Presences(doc, old) ==
  \A r \in RuleIDs : doc.records[r] = IF HasFinding(old, r) THEN "evaluated" ELSE "not_evaluated"

LEMMA DocumentIs ==
  ASSUME NEW setup, NEW w, NEW missed
  PROVE  LET doc == Document(setup, w, missed)
         IN  Shows(doc, setup, w, missed) /\ Records(doc, setup) /\ doc.normalized = FALSE
BY DEF Document, SeenBy, Shows, Records

LEMMA NormalizedIs ==
  ASSUME NEW setup, NEW w, NEW missed
  PROVE  LET old == Document(setup, w, missed)
             doc == LoadAndNormalize(old)
         IN  /\ Shows(doc, setup, w, missed)
             /\ setup.native => doc.normalized = FALSE /\ Records(doc, setup)
             /\ ~setup.native => Presences(doc, old)
<1> DEFINE old == Document(setup, w, missed)
           doc == LoadAndNormalize(old)
           rs == [r \in RuleIDs |-> IF HasFinding(old, r) THEN "evaluated" ELSE "not_evaluated"]
<1>1. Shows(old, setup, w, missed) /\ Records(old, setup) /\ old.normalized = FALSE
  BY DocumentIs
<1>2. old = [setup |-> old.setup, world |-> old.world, findings |-> old.findings,
             coverage |-> old.coverage, records |-> old.records,
             normalized |-> old.normalized, score |-> old.score]
  BY DEF Document
<1> HIDE DEF old
<1>3. CASE setup.native
  <2>1. doc = old
    BY <1>1, <1>3 DEF LoadAndNormalize, Shows
  <2> HIDE DEF doc
  <2>2. QED
    BY <1>1, <1>3, <2>1 DEF old, doc
<1>4. CASE ~setup.native
  <2>1. doc = [old EXCEPT !.normalized = TRUE, !.records = rs]
    BY <1>1, <1>4 DEF LoadAndNormalize, Shows
  <2>2. \A r \in RuleIDs : rs[r] = IF HasFinding(old, r) THEN "evaluated" ELSE "not_evaluated"
    OBVIOUS
  <2> HIDE DEF rs, doc
  <2>3. /\ doc.setup = old.setup /\ doc.world = old.world /\ doc.findings = old.findings
        /\ doc.coverage = old.coverage /\ doc.score = old.score /\ doc.records = rs
    BY <1>2, <2>1
  <2>4. Shows(doc, setup, w, missed) /\ Presences(doc, old)
    BY <1>1, <2>2, <2>3 DEF Shows, Presences
  <2>5. QED
    BY <1>4, <2>4 DEF old, doc
<1>5. QED
  BY <1>3, <1>4

(* Evidence that was lost is owned up to: a complete document shows all    *)
(* that there was to see within its scope.                                 *)
LEMMA CompleteMissesNothing ==
  ASSUME NEW setup \in Scans, NEW w, NEW missed \in Missable(setup, w),
         Complete(LoadAndNormalize(Document(setup, w, missed)))
  PROVE  missed = {}
<1> DEFINE doc == LoadAndNormalize(Document(setup, w, missed))
<1> SUFFICES ASSUME NEW s \in missed PROVE FALSE
  OBVIOUS
<1>1. /\ s \in Visible(setup, w) /\ s.rule = setup.flaw.rule
      /\ setup.flaw.lost \in {s.plane, "itself"}
  BY DEF Missable
<1>2. /\ s.plane \in setup.planes /\ Applicable(s.rule, setup) /\ s.plane \in Planes
      /\ s \in Sightings
  BY <1>1, SetupFacts DEF Visible
<1>3. /\ Shows(doc, setup, w, missed)
      /\ setup.native => doc.normalized = FALSE /\ Records(doc, setup)
  BY NormalizedIs
<1>4. (\A p \in Planes : doc.coverage[p] # "partial") /\ EvaluatedAll(doc)
  BY DEF Complete, IsComplete
<1> HIDE DEF doc
<1>5. CASE setup.flaw.lost = s.plane
  <2>1. CoverageOf(setup)[s.plane] = "partial"
    BY <1>2, <1>5 DEF CoverageOf
  <2>2. QED
    BY <1>2, <1>3, <1>4, <2>1 DEF Shows
<1>6. CASE setup.flaw.lost # s.plane
  <2>1. setup.flaw.lost = "itself" /\ setup.flaw # NoFlaw
    BY <1>1, <1>6 DEF NoFlaw
  <2>2. setup.native
    BY <2>1, SetupFacts DEF Planes
  <2>3. s.rule \in RuleIDs
    BY <1>2 DEF Sightings
  <2>4. doc.records[s.rule] = RecordOf(s.rule, setup)
    BY <1>3, <2>2, <2>3 DEF Records
  <2>5. RecordOf(s.rule, setup) = "failed"
    BY <1>1, <1>2, <2>1, <2>2 DEF RecordOf
  <2>6. QED
    BY <1>3, <1>4, <2>2, <2>3, <2>4, <2>5 DEF EvaluatedAll
<1>7. QED
  BY <1>5, <1>6

LEMMA SeenIs ==
  ASSUME NEW setup, NEW w, NEW missed, NEW s
  PROVE  s \in SeenBy(setup, w, missed) <=>
           s \in Sightings /\ InScope(s, setup) /\ w[s] # "absent" /\ s \notin missed
BY DEF SeenBy, Allowed, Visible, InScope

LEMMA FindingOf ==
  ASSUME NEW setup, NEW w, NEW seen, NEW s \in seen
  PROVE  \E f \in FindingsOf(setup, w, seen) :
           /\ f.fingerprint = Fingerprint(s, setup.target)
           /\ f.kind = Kind(s, w[s], setup.context)
<1> DEFINE f == [fingerprint |-> Fingerprint(s, setup.target), planes |-> ResourcePlanes(s, seen),
                 kind |-> Kind(s, w[s], setup.context)]
<1>1. f \in FindingsOf(setup, w, seen)
  BY DEF FindingsOf
<1>2. f.fingerprint = Fingerprint(s, setup.target) /\ f.kind = Kind(s, w[s], setup.context)
  OBVIOUS
<1>3. QED
  BY <1>1, <1>2

LEMMA SightingOf ==
  ASSUME NEW setup, NEW w, NEW seen, NEW f \in FindingsOf(setup, w, seen)
  PROVE  \E s \in seen : /\ f.fingerprint = Fingerprint(s, setup.target)
                         /\ f.kind = Kind(s, w[s], setup.context)
                         /\ f.planes = ResourcePlanes(s, seen)
BY DEF FindingsOf

LEMMA FingerprintIs ==
  ASSUME NEW s, NEW target
  PROVE  Fingerprint(s, target).rule = s.rule /\ Fingerprint(s, target).object = s.object
BY DEF Fingerprint

(* A scan that looks at no less has every sighting in scope that another   *)
(* one has.                                                                *)
LEMMA ScopeGrows ==
  ASSUME NEW setup, NEW other, LooksAtLeastAs(setup, other), NEW s, InScope(s, other)
  PROVE  InScope(s, setup)
<1>1. other.planes \subseteq setup.planes /\ (setup.restricted => other.restricted)
  BY DEF LooksAtLeastAs
<1>2. s.plane \in other.planes /\ Applicable(s.rule, other) /\ (other.restricted => ~Namespaced(s))
  BY DEF InScope
<1>3. Applicable(s.rule, setup)
  BY <1>1, <1>2 DEF Applicable
<1>4. QED
  BY <1>1, <1>2, <1>3 DEF InScope

IsScan(doc) ==
  \E setup \in Scans : \E w : \E missed \in Missable(setup, w) : doc = Document(setup, w, missed)

(* What can be said of a scan's document once it is loaded. *)
LEMMA LoadedScan ==
  ASSUME NEW doc, IsScan(doc)
  PROVE  \E missed :
           /\ doc.setup \in Scans /\ missed \in Missable(doc.setup, doc.world)
           /\ Shows(doc, doc.setup, doc.world, missed)
           /\ Shows(LoadAndNormalize(doc), doc.setup, doc.world, missed)
           /\ doc.setup.native =>
                LoadAndNormalize(doc).normalized = FALSE /\ Records(LoadAndNormalize(doc), doc.setup)
           /\ ~doc.setup.native => Presences(LoadAndNormalize(doc), doc)
           /\ Complete(LoadAndNormalize(doc)) => missed = {}
<1>1. PICK setup \in Scans : \E w : \E missed \in Missable(setup, w) : doc = Document(setup, w, missed)
  BY DEF IsScan
<1>2. PICK w : \E missed \in Missable(setup, w) : doc = Document(setup, w, missed)
  BY <1>1
<1>3. PICK missed \in Missable(setup, w) : doc = Document(setup, w, missed)
  BY <1>2
<1>4. Shows(doc, setup, w, missed)
  BY <1>3, DocumentIs
<1>5. doc.setup = setup /\ doc.world = w
  BY <1>4 DEF Shows
<1>6. /\ Shows(LoadAndNormalize(doc), setup, w, missed)
      /\ setup.native => LoadAndNormalize(doc).normalized = FALSE /\ Records(LoadAndNormalize(doc), setup)
      /\ ~setup.native => Presences(LoadAndNormalize(doc), doc)
  BY <1>3, NormalizedIs
<1>7. Complete(LoadAndNormalize(doc)) => missed = {}
  BY <1>3, CompleteMissesNothing
<1>8. QED
  BY <1>4, <1>5, <1>6, <1>7

LEMMA GateIs ==
  ASSUME NEW b, NEW c, NEW cmp, NEW policy
  PROVE  LET gate == Gate(b, c, cmp, policy)
             reasons == Reasons(b, c, cmp, policy)
         IN  /\ gate.decision = "pass" => Trustworthy(b, c) /\ reasons = {}
             /\ gate.decision = "fail" => Trustworthy(b, c) /\ reasons # {} /\ gate.reasons = reasons
             /\ "NEW_BLOCKERS_DETECTED" \in gate.reasons =>
                  Trustworthy(b, c) /\ "NEW_BLOCKERS_DETECTED" \in reasons
<1> DEFINE gate == Gate(b, c, cmp, policy)
           reasons == Reasons(b, c, cmp, policy)
<1>1. CASE ~Trustworthy(b, c)
  <2>1. gate.decision = "neutral" /\ gate.reasons = {"INSUFFICIENT_EVIDENCE"}
    BY <1>1 DEF Gate
  <2>2. QED
    BY <2>1
<1>2. CASE Trustworthy(b, c)
  <2>1. gate.decision = (IF reasons = {} THEN "pass" ELSE "fail") /\ gate.reasons = reasons
    BY <1>2 DEF Gate
  <2> HIDE DEF gate, reasons
  <2>2. QED
    BY <1>2, <2>1 DEF gate, reasons
<1>3. QED
  BY <1>1, <1>2

LEMMA NewBlockersReason ==
  ASSUME NEW b, NEW c, NEW cmp, NEW policy
  PROVE  "NEW_BLOCKERS_DETECTED" \in Reasons(b, c, cmp, policy)
           <=> policy.failOnNewBlockers /\ NewBlockers(cmp) # {}
BY DEF Reasons

(* What a trustworthy comparison of two scans rests on. *)
Pair(b, c, m, n) ==
  /\ b.setup \in Scans /\ c.setup \in Scans
  /\ Shows(b, b.setup, b.world, m) /\ Shows(c, c.setup, c.world, n)

LEMMA TrustworthyPair ==
  ASSUME NEW b, NEW c, IsScan(b), IsScan(c),
         Trustworthy(LoadAndNormalize(b), LoadAndNormalize(c))
  PROVE  /\ Pair(b, c, {}, {}) /\ Pair(LoadAndNormalize(b), LoadAndNormalize(c), {}, {})
         /\ LoadAndNormalize(b).setup = b.setup /\ LoadAndNormalize(c).setup = c.setup
         /\ LoadAndNormalize(b).world = b.world /\ LoadAndNormalize(c).world = c.world
         /\ b.setup.target = c.setup.target /\ b.setup.context = c.setup.context
<1>1. /\ Complete(LoadAndNormalize(b)) /\ Complete(LoadAndNormalize(c))
      /\ LoadAndNormalize(b).setup.target = LoadAndNormalize(c).setup.target
      /\ LoadAndNormalize(b).setup.context = LoadAndNormalize(c).setup.context
  BY DEF Trustworthy, CompareWarnings
<1>2. /\ b.setup \in Scans /\ Shows(b, b.setup, b.world, {})
      /\ Shows(LoadAndNormalize(b), b.setup, b.world, {})
  BY <1>1, LoadedScan
<1>3. /\ c.setup \in Scans /\ Shows(c, c.setup, c.world, {})
      /\ Shows(LoadAndNormalize(c), c.setup, c.world, {})
  BY <1>1, LoadedScan
<1>4. QED
  BY <1>1, <1>2, <1>3 DEF Pair, Shows

(* A sighting in the scope of a scan that missed nothing is a finding. *)
LEMMA InScopeIsFound ==
  ASSUME NEW doc, Shows(doc, doc.setup, doc.world, {}),
         NEW s \in Sightings, InScope(s, doc.setup), doc.world[s] # "absent"
  PROVE  \E f \in doc.findings : /\ f.fingerprint = Fingerprint(s, doc.setup.target)
                                 /\ f.kind = Kind(s, doc.world[s], doc.setup.context)
<1> DEFINE seen == SeenBy(doc.setup, doc.world, {})
<1>1. s \in seen
  BY SeenIs
<1>2. doc.findings = FindingsOf(doc.setup, doc.world, seen)
  BY DEF Shows
<1> HIDE DEF seen
<1>3. QED
  BY <1>1, <1>2, FindingOf

LEMMA FoundIsInScope ==
  ASSUME NEW doc, NEW missed, Shows(doc, doc.setup, doc.world, missed), NEW f \in doc.findings
  PROVE  \E s \in Sightings :
           /\ InScope(s, doc.setup) /\ doc.world[s] # "absent" /\ s \notin missed
           /\ f.fingerprint = Fingerprint(s, doc.setup.target)
           /\ f.kind = Kind(s, doc.world[s], doc.setup.context)
<1> DEFINE seen == SeenBy(doc.setup, doc.world, missed)
<1>1. doc.findings = FindingsOf(doc.setup, doc.world, seen)
  BY DEF Shows
<1> HIDE DEF seen
<1>2. PICK s \in seen : /\ f.fingerprint = Fingerprint(s, doc.setup.target)
                        /\ f.kind = Kind(s, doc.world[s], doc.setup.context)
  BY <1>1, SightingOf
<1>3. s \in Sightings /\ InScope(s, doc.setup) /\ doc.world[s] # "absent" /\ s \notin missed
  BY <1>2, SeenIs DEF seen
<1>4. QED
  BY <1>2, <1>3
-----------------------------------------------------------------------------
(* What the gate says of two scans, the later one against the earlier one. *)
Judgement(b, c, policy) ==
  Gate(LoadAndNormalize(b), LoadAndNormalize(c),
       Compare(LoadAndNormalize(b), LoadAndNormalize(c)), policy)

LEMMA CompareNew ==
  ASSUME NEW b, NEW c
  PROVE  NewBlockers(Compare(b, c)) = {f \in c.findings : Matching(f, b) = {} /\ Blocking(f.kind)}
BY DEF NewBlockers, Compare

LEMMA MatchingEmpty ==
  ASSUME NEW f, NEW doc
  PROVE  Matching(f, doc) = {} <=> \A g \in doc.findings : g.fingerprint # f.fingerprint
BY DEF Matching

LEMMA BlockerSeenIsFound ==
  ASSUME NEW b, NEW c, NEW policy, IsScan(b), IsScan(c), LooksAtLeastAs(b.setup, c.setup),
         "NEW_BLOCKERS_DETECTED" \in Judgement(b, c, policy).reasons
  PROVE  \E s \in Sightings : Blocks(s, c) /\ b.world[s] = "absent"
<1> DEFINE bb == LoadAndNormalize(b)
           cc == LoadAndNormalize(c)
<1>1. Trustworthy(bb, cc) /\ NewBlockers(Compare(bb, cc)) # {}
  BY GateIs, NewBlockersReason, Zenon DEF Judgement
<1>2. /\ Pair(bb, cc, {}, {})
      /\ bb.setup = b.setup /\ cc.setup = c.setup /\ bb.world = b.world /\ cc.world = c.world
      /\ b.setup.target = c.setup.target /\ b.setup.context = c.setup.context
  BY <1>1, TrustworthyPair
<1> HIDE DEF bb, cc
<1>3. PICK f \in cc.findings : Matching(f, bb) = {} /\ Blocking(f.kind)
  BY <1>1, CompareNew
<1>4. Shows(cc, cc.setup, cc.world, {}) /\ Shows(bb, bb.setup, bb.world, {})
  BY <1>2 DEF Pair
<1>5. PICK s \in Sightings :
        /\ InScope(s, c.setup) /\ c.world[s] # "absent"
        /\ f.fingerprint = Fingerprint(s, c.setup.target)
        /\ f.kind = Kind(s, c.world[s], c.setup.context)
  <2>1. \E s \in Sightings :
          /\ InScope(s, cc.setup) /\ cc.world[s] # "absent"
          /\ f.fingerprint = Fingerprint(s, cc.setup.target)
          /\ f.kind = Kind(s, cc.world[s], cc.setup.context)
    BY <1>3, <1>4, FoundIsInScope
  <2>2. QED
    BY <1>2, <2>1
<1>6. Blocks(s, c)
  BY <1>3, <1>5 DEF Blocks
<1>7. ASSUME b.world[s] # "absent" PROVE FALSE
  <2>1. InScope(s, b.setup)
    BY <1>5, ScopeGrows
  <2>2. \E g \in bb.findings : g.fingerprint = Fingerprint(s, bb.setup.target)
    BY <1>2, <1>4, <1>7, <2>1, InScopeIsFound
  <2>3. QED
    BY <1>2, <1>3, <1>5, <2>2, MatchingEmpty
<1>8. QED
  BY <1>6, <1>7

LEMMA PassedIsReported ==
  ASSUME NEW b, NEW c, NEW policy, IsScan(b), IsScan(c), policy.failOnNewBlockers,
         Judgement(b, c, policy).decision = "pass",
         NEW s \in Sightings, Blocks(s, c)
  PROVE  \E f \in b.findings : f.fingerprint = Fingerprint(s, c.setup.target)
<1> DEFINE bb == LoadAndNormalize(b)
           cc == LoadAndNormalize(c)
<1>1. Trustworthy(bb, cc) /\ NewBlockers(Compare(bb, cc)) = {}
  <2>1. Trustworthy(bb, cc) /\ Reasons(bb, cc, Compare(bb, cc), policy) = {}
    BY GateIs, Zenon DEF Judgement
  <2> HIDE DEF bb, cc
  <2>2. "NEW_BLOCKERS_DETECTED" \notin Reasons(bb, cc, Compare(bb, cc), policy)
    BY <2>1
  <2>3. QED
    BY <2>1, <2>2, NewBlockersReason
<1>2. /\ Pair(b, c, {}, {}) /\ Pair(bb, cc, {}, {})
      /\ bb.setup = b.setup /\ cc.setup = c.setup /\ bb.world = b.world /\ cc.world = c.world
      /\ b.setup.target = c.setup.target /\ b.setup.context = c.setup.context
  BY <1>1, TrustworthyPair
<1> HIDE DEF bb, cc
<1>3. /\ Shows(cc, cc.setup, cc.world, {}) /\ Shows(bb, bb.setup, bb.world, {})
      /\ Shows(b, b.setup, b.world, {})
  BY <1>2 DEF Pair
<1>4. /\ InScope(s, c.setup) /\ c.world[s] # "absent"
      /\ Blocking(Kind(s, c.world[s], c.setup.context))
  BY DEF Blocks
<1>5. PICK f \in cc.findings : /\ f.fingerprint = Fingerprint(s, c.setup.target)
                               /\ f.kind = Kind(s, c.world[s], c.setup.context)
  BY <1>2, <1>3, <1>4, InScopeIsFound
<1>6. Matching(f, bb) # {}
  <2>1. Blocking(f.kind)
    BY <1>4, <1>5
  <2>2. f \notin {g \in cc.findings : Matching(g, bb) = {} /\ Blocking(g.kind)}
    BY <1>1, CompareNew
  <2>3. QED
    BY <1>5, <2>1, <2>2
<1>7. b.findings = bb.findings
  BY <1>2, <1>3 DEF Shows
<1>8. QED
  BY <1>5, <1>6, <1>7, MatchingEmpty

LEMMA SightingIs ==
  ASSUME NEW s \in Sightings
  PROVE  /\ s.rule \in RuleIDs /\ s.object \in Objects /\ s.plane \in SeenOn(s.rule)
         /\ s = [rule |-> s.rule, object |-> s.object, plane |-> s.plane]
<1>1. PICK r \in RuleIDs : s \in [rule : {r}, object : Objects, plane : SeenOn(r)]
  BY DEF Sightings
<1> DEFINE planes == SeenOn(r)
<1> HIDE DEF planes
<1>2. s \in [rule : {r}, object : Objects, plane : planes]
  BY <1>1 DEF planes
<1>3. s.rule = r /\ s.object \in Objects /\ s.plane \in planes
      /\ s = [rule |-> s.rule, object |-> s.object, plane |-> s.plane]
  BY <1>2
<1>4. QED
  BY <1>3 DEF planes

LEMMA SameSighting ==
  ASSUME NEW s \in Sightings, NEW t \in Sightings,
         s.rule = t.rule, s.object = t.object, s.plane = t.plane
  PROVE  s = t
BY SightingIs

(* The planes a finding names are planes it was seen on. *)
LEMMA NamedIsSeen ==
  ASSUME NEW seen \in SUBSET Sightings, NEW u \in seen, NEW s \in Sightings,
         s.rule = u.rule, s.object = u.object, s.plane \in ResourcePlanes(u, seen)
  PROVE  s \in seen
<1>1. PICK t \in seen : t.rule = u.rule /\ t.object = u.object /\ t.plane = s.plane
  BY DEF ResourcePlanes
<1>2. QED
  BY <1>1, SameSighting

(* A rule that is recorded as evaluated missed nothing on the planes it    *)
(* declares; without records, one that reports something is taken for it.  *)
LEMMA EvaluatedMissesNothing ==
  ASSUME NEW doc, NEW missed \in Missable(doc.setup, doc.world), NEW s \in missed,
         doc.setup \in Scans, SeenOn(s.rule) \subseteq Declares(s.rule),
         Records(LoadAndNormalize(doc), doc.setup),
         LoadAndNormalize(doc).records[s.rule] = "evaluated"
  PROVE  ~doc.setup.native
<1>1. /\ s \in Sightings /\ s.plane \in doc.setup.planes /\ Applicable(s.rule, doc.setup)
      /\ s.rule = doc.setup.flaw.rule /\ doc.setup.flaw.lost \in {s.plane, "itself"}
  BY DEF Missable, Visible
<1>2. s.rule \in RuleIDs /\ s.plane \in Declares(s.rule)
  BY <1>1, SightingIs
<1>3. RecordOf(s.rule, doc.setup) = "evaluated"
  BY <1>2 DEF Records
<1>4. QED
  BY <1>1, <1>2, <1>3 DEF RecordOf

LEMMA ResolvedWasSeen ==
  ASSUME NEW b, NEW c, IsScan(b), IsScan(c), LooksAtLeastAs(c.setup, b.setup),
         b.setup.target = c.setup.target,
         NEW f \in Compare(LoadAndNormalize(b), LoadAndNormalize(c)).resolved,
         c.setup.native \/ ~HasFinding(c, f.fingerprint.rule),
         NEW s \in Sightings, SeenOn(s.rule) \subseteq Declares(s.rule),
         s.rule = f.fingerprint.rule, s.object = f.fingerprint.object, s.plane \in f.planes
  PROVE  c.world[s] = "absent"
<1> SUFFICES ASSUME c.world[s] # "absent" PROVE FALSE
  OBVIOUS
<1> DEFINE bb == LoadAndNormalize(b)
           cc == LoadAndNormalize(c)
<1>1. f \in bb.findings /\ Matching(f, cc) = {} /\ cc.records[s.rule] = "evaluated"
  BY DEF Compare, Gone, RuleProvenEvaluated
<1>2. PICK m : Shows(bb, b.setup, b.world, m)
  BY LoadedScan
<1>3. PICK n \in Missable(c.setup, c.world) :
        /\ c.setup \in Scans /\ Shows(cc, c.setup, c.world, n)
        /\ c.setup.native => Records(cc, c.setup)
        /\ ~c.setup.native => Presences(cc, c)
  BY LoadedScan
<1> DEFINE seen == SeenBy(b.setup, b.world, m)
<1>4. PICK u \in seen : /\ f.fingerprint = Fingerprint(u, b.setup.target)
                        /\ f.planes = ResourcePlanes(u, seen)
  BY <1>1, <1>2, SightingOf DEF Shows
<1>5. seen \subseteq Sightings
  BY SeenIs
<1> HIDE DEF seen, bb, cc
<1>6. s \in seen /\ u.rule = s.rule /\ u.object = s.object
  BY <1>4, <1>5, FingerprintIs, NamedIsSeen
<1>7. InScope(s, c.setup)
  BY <1>6, SeenIs, ScopeGrows DEF seen
<1>8. Fingerprint(s, c.setup.target) = f.fingerprint
  BY <1>4, <1>6 DEF Fingerprint
<1>9. s \in n
  <2>1. SUFFICES ASSUME s \notin n PROVE FALSE
    OBVIOUS
  <2>2. s \in SeenBy(c.setup, c.world, n)
    BY <1>7, <2>1, SeenIs
  <2>3. \E g \in cc.findings : g.fingerprint = Fingerprint(s, c.setup.target)
    BY <1>3, <2>2, FindingOf DEF Shows
  <2>4. QED
    BY <1>1, <1>8, <2>3, MatchingEmpty
<1>10. ~c.setup.native
  BY <1>1, <1>3, <1>9, EvaluatedMissesNothing DEF cc
<1>11. s.rule \in RuleIDs
  BY SightingIs
<1>12. HasFinding(c, s.rule)
  BY <1>1, <1>3, <1>10, <1>11 DEF Presences
<1>13. QED
  BY <1>10, <1>12
-----------------------------------------------------------------------------
(* A document holds finitely many findings, so they can be counted. *)
LEMMA SightingsFinite == IsFiniteSet(Sightings)
<1> DEFINE T == (RuleIDs \X Objects) \X Planes
           place == [s \in Sightings |-> <<<<s.rule, s.object>>, s.plane>>]
<1>1. IsFiniteSet(Planes)
  <2>1. IsFiniteSet(({"kubernetes"} \cup {"aws"}) \cup {"manifests"})
    BY FS_Singleton, FS_Union
  <2>2. QED
    BY <2>1 DEF Planes
<1>2. IsFiniteSet(T)
  <2> DEFINE six == {"API-001", "DRAIN-001", "NODE-003", "PDB-001", "WH-002", "EKS-NG-001"}
  <2>1. IsFiniteSet((({"API-001"} \cup {"DRAIN-001"}) \cup ({"PDB-001"} \cup {"WH-002"}))
                      \cup ({"NODE-003"} \cup {"EKS-NG-001"}))
    BY FS_Singleton, FS_Union
  <2>2. IsFiniteSet(six)
    BY <2>1
  <2>3. IsFiniteSet(RuleIDs) /\ IsFiniteSet(Objects)
    BY <2>2, ComparisonAssumption, FS_Subset
  <2>4. QED
    BY <1>1, <2>3, FS_Product
<1>3. ASSUME NEW s \in Sightings PROVE s.plane \in Planes
  <2>1. s.rule \in RuleIDs /\ s.plane \in SeenOn(s.rule)
    BY SightingIs
  <2>2. s.rule \in {"API-001", "DRAIN-001", "NODE-003", "PDB-001", "WH-002", "EKS-NG-001"}
    BY <2>1, ComparisonAssumption
  <2>3. QED
    BY <2>1, <2>2 DEF SeenOn, Unmerged, Planes
<1>4. place \in [Sightings -> T]
  BY <1>3, SightingIs
<1>5. ASSUME NEW s \in Sightings, NEW t \in Sightings, place[s] = place[t] PROVE s = t
  BY <1>5, SameSighting
<1>6. place \in Injection(Sightings, T)
  BY <1>4, <1>5 DEF Injection, IsInjective
<1> HIDE DEF place, T
<1>7. QED
  BY <1>2, <1>6, FS_Injection

LEMMA FindingsFinite ==
  ASSUME NEW setup, NEW w, NEW seen \in SUBSET Sightings
  PROVE  IsFiniteSet(FindingsOf(setup, w, seen))
<1> DEFINE finding == [s \in seen |-> [fingerprint |-> Fingerprint(s, setup.target),
                                        planes |-> ResourcePlanes(s, seen),
                                        kind |-> Kind(s, w[s], setup.context)]]
<1>1. finding \in Surjection(seen, FindingsOf(setup, w, seen))
  BY DEF Surjection, FindingsOf
<1>2. IsFiniteSet(seen)
  BY SightingsFinite, FS_Subset
<1> HIDE DEF finding
<1>3. QED
  BY <1>1, <1>2, FS_Surjection

OfClass(F, class) == {f \in F : <<CategoryOf(f.fingerprint.rule), f.kind>> = class}

LEMMA CountIs ==
  ASSUME NEW F, IsFiniteSet(F)
  PROVE  /\ Count(F) \in Counts
         /\ \A class \in Classes : Count(F)[class] = Cardinality(OfClass(F, class))
<1>1. ASSUME NEW class \in Classes PROVE Cardinality(OfClass(F, class)) \in Nat
  BY FS_Subset, FS_CardinalityType DEF OfClass
<1>2. QED
  BY <1>1 DEF Count, Counts, OfClass

(* Findings that all have a counterpart of their kind under their          *)
(* fingerprint are no more than those counterparts.                        *)
LEMMA CountNoLess ==
  ASSUME NEW F, NEW G, IsFiniteSet(F), IsFiniteSet(G),
         \A f, h \in F : f.fingerprint = h.fingerprint => f = h,
         \A f \in F : \E g \in G : g.fingerprint = f.fingerprint /\ g.kind = f.kind
  PROVE  NoLess(Count(F), Count(G))
<1> SUFFICES ASSUME NEW class \in Classes
             PROVE  Cardinality(OfClass(F, class)) <= Cardinality(OfClass(G, class))
  BY CountIs DEF NoLess
<1> DEFINE A == OfClass(F, class)
           B == OfClass(G, class)
           match == [f \in A |-> CHOOSE g \in B : g.fingerprint = f.fingerprint]
<1>1. ASSUME NEW f \in A PROVE \E g \in B : g.fingerprint = f.fingerprint
  <2>1. f \in F /\ <<CategoryOf(f.fingerprint.rule), f.kind>> = class
    BY DEF OfClass
  <2>2. PICK g \in G : g.fingerprint = f.fingerprint /\ g.kind = f.kind
    BY <2>1
  <2>3. <<CategoryOf(g.fingerprint.rule), g.kind>> = class
    BY <2>1, <2>2
  <2>4. QED
    BY <2>2, <2>3 DEF OfClass
<1>2. A \subseteq F /\ IsFiniteSet(B)
  BY FS_Subset DEF OfClass
<1> HIDE DEF A, B
<1>3. \A f \in A : match[f] \in B /\ match[f].fingerprint = f.fingerprint
  BY <1>1
<1>4. match \in [A -> B]
  BY <1>3
<1> HIDE DEF match
<1>5. match \in Injection(A, B)
  BY <1>2, <1>3, <1>4 DEF Injection, IsInjective
<1>6. QED
  BY <1>2, <1>5, FS_Injection DEF A, B

LEMMA VerdictMonotone ==
  ASSUME NEW f \in Counts, NEW h \in Counts, NoLess(f, h), NEW c, NEW d, NEW e, NEW g,
         IsComplete(c, e), IsComplete(d, g)
  PROVE  VerdictRank(Result(f, c, e)) <= VerdictRank(Result(h, d, g))
<1>1. /\ Blockers(f) => Blockers(h)
      /\ Warnings(f) => Warnings(h)
      /\ OperatorDecisions(f) => OperatorDecisions(h)
  BY SomeMonotone DEF Blockers, Warnings, OperatorDecisions
<1>2. QED
  BY <1>1 DEF Result, VerdictRank

(* Where nothing got worse, what the later scan reports is a part of what  *)
(* the earlier one reported.                                               *)
NothingWorse(b, c) == \A s \in Sightings : c.world[s] \in {"absent", b.world[s]}

LEMMA RepairedIsPart ==
  ASSUME NEW b, NEW c, Pair(b, c, {}, {}), NothingWorse(b, c),
         LooksAtLeastAs(b.setup, c.setup),
         b.setup.target = c.setup.target, b.setup.context = c.setup.context,
         NEW f \in c.findings
  PROVE  \E g \in b.findings : g.fingerprint = f.fingerprint /\ g.kind = f.kind
<1>1. Shows(b, b.setup, b.world, {}) /\ Shows(c, c.setup, c.world, {})
  BY DEF Pair
<1>2. PICK s \in Sightings :
        /\ InScope(s, c.setup) /\ c.world[s] # "absent"
        /\ f.fingerprint = Fingerprint(s, c.setup.target)
        /\ f.kind = Kind(s, c.world[s], c.setup.context)
  BY <1>1, FoundIsInScope
<1>3. InScope(s, b.setup) /\ b.world[s] = c.world[s]
  BY <1>2, ScopeGrows DEF NothingWorse
<1>4. \E g \in b.findings : /\ g.fingerprint = Fingerprint(s, b.setup.target)
                            /\ g.kind = Kind(s, b.world[s], b.setup.context)
  BY <1>1, <1>2, <1>3, InScopeIsFound
<1>5. QED
  BY <1>2, <1>3, <1>4

LEMMA ShownFinite ==
  ASSUME NEW doc, NEW missed, Shows(doc, doc.setup, doc.world, missed)
  PROVE  IsFiniteSet(doc.findings)
<1>1. SeenBy(doc.setup, doc.world, missed) \subseteq Sightings
  BY SeenIs
<1>2. QED
  BY <1>1, FindingsFinite DEF Shows

LEMMA ReasonsAre ==
  ASSUME NEW b, NEW c, NEW cmp, NEW policy, NEW reason \in Reasons(b, c, cmp, policy)
  PROVE  \/ NewBlockers(cmp) # {}
         \/ NewWarnings(cmp) # {}
         \/ reason = "WARNINGS_PRESENT"
         \/ VerdictRank(VerdictOf(c)) > VerdictRank(VerdictOf(b))
         \/ c.score - b.score < policy.minimumScoreDelta
BY DEF Reasons

LEMMA RepairedIsNotStopped ==
  ASSUME NEW b, NEW c, NEW policy, IsScan(b), IsScan(c),
         policy.minimumScoreDelta \in Int, policy.minimumScoreDelta <= 0,
         Indexable(LoadAndNormalize(c)),
         LooksAtLeastAs(b.setup, c.setup), NothingWorse(b, c),
         Judgement(b, c, policy).decision = "fail",
         "WARNINGS_PRESENT" \notin Judgement(b, c, policy).reasons
  PROVE  FALSE
<1> DEFINE bb == LoadAndNormalize(b)
           cc == LoadAndNormalize(c)
           cmp == Compare(bb, cc)
<1>1. /\ Trustworthy(bb, cc)
      /\ Reasons(bb, cc, cmp, policy) # {}
      /\ "WARNINGS_PRESENT" \notin Reasons(bb, cc, cmp, policy)
  <2>1. Gate(bb, cc, cmp, policy).decision = "fail"
        /\ "WARNINGS_PRESENT" \notin Gate(bb, cc, cmp, policy).reasons
    BY DEF Judgement
  <2> HIDE DEF bb, cc, cmp
  <2>2. /\ Trustworthy(bb, cc) /\ Reasons(bb, cc, cmp, policy) # {}
        /\ Gate(bb, cc, cmp, policy).reasons = Reasons(bb, cc, cmp, policy)
    BY <2>1, GateIs
  <2>3. QED
    BY <2>1, <2>2
<1>2. /\ Pair(bb, cc, {}, {})
      /\ bb.setup = b.setup /\ cc.setup = c.setup /\ bb.world = b.world /\ cc.world = c.world
      /\ b.setup.target = c.setup.target /\ b.setup.context = c.setup.context
  BY <1>1, TrustworthyPair
<1> HIDE DEF bb, cc
<1>3. /\ LooksAtLeastAs(bb.setup, cc.setup) /\ NothingWorse(bb, cc)
      /\ bb.setup.target = cc.setup.target /\ bb.setup.context = cc.setup.context
  BY <1>2 DEF NothingWorse
<1>4. \A f \in cc.findings : \E g \in bb.findings : g.fingerprint = f.fingerprint /\ g.kind = f.kind
  BY <1>2, <1>3, RepairedIsPart
<1>5. Shows(bb, bb.setup, bb.world, {}) /\ Shows(cc, cc.setup, cc.world, {})
  BY <1>2 DEF Pair
<1>6. IsFiniteSet(bb.findings) /\ IsFiniteSet(cc.findings)
  BY <1>5, ShownFinite
<1>7. NoLess(Count(cc.findings), Count(bb.findings))
  <2>1. \A f, h \in cc.findings : f.fingerprint = h.fingerprint => f = h
    BY DEF cc, Indexable
  <2>2. QED
    BY <1>4, <1>6, <2>1, CountNoLess
<1>8. Count(cc.findings) \in Counts /\ Count(bb.findings) \in Counts
  BY <1>6, CountIs
<1>9. cmp.new = {}
  BY <1>4 DEF cmp, Compare, Matching
<1>10. cc.score \in Nat /\ bb.score \in Nat /\ bb.score <= cc.score
  BY <1>5, <1>7, <1>8, ScoreMonotone DEF Shows
<1>11. VerdictRank(VerdictOf(cc)) <= VerdictRank(VerdictOf(bb))
  BY <1>1, <1>7, <1>8, VerdictMonotone DEF Trustworthy, Complete, VerdictOf
<1>12. VerdictRank(VerdictOf(cc)) \in Nat /\ VerdictRank(VerdictOf(bb)) \in Nat
  BY DEF VerdictRank
<1>13. NewBlockers(cmp) = {} /\ NewWarnings(cmp) = {}
  BY <1>9 DEF NewBlockers, NewWarnings
<1> HIDE DEF cmp
<1>14. PICK reason \in Reasons(bb, cc, cmp, policy) : TRUE
  BY <1>1
<1>15. reason # "WARNINGS_PRESENT"
  BY <1>1, <1>14
<1>16. QED
  BY <1>10, <1>11, <1>12, <1>13, <1>14, <1>15, ReasonsAre
-----------------------------------------------------------------------------
(* The documents are those of two scans, and what was concluded is what    *)
(* compare makes of them: neither changes once the later one is there.     *)
CompareInv ==
  /\ baseline # NoDocument => IsScan(baseline)
  /\ current # NoDocument => baseline # NoDocument /\ IsScan(current)
  /\ outcome # NoOutcome => current # NoDocument
  /\ Compared =>
       /\ outcome.policy \in Policies
       /\ outcome.cmp = Compare(LoadAndNormalize(baseline), LoadAndNormalize(current))
       /\ outcome.gate = Judgement(baseline, current, outcome.policy)
       /\ Indexable(LoadAndNormalize(current))
  /\ outcome.status = "error" =>
       ~(Indexable(LoadAndNormalize(baseline)) /\ Indexable(LoadAndNormalize(current)))

LEMMA CompareInitInv == Init => CompareInv
BY DEF Init, CompareInv, Compared, NoOutcome

LEMMA CompareNextInv == CompareInv /\ [Next]_vars => CompareInv'
<1> SUFFICES ASSUME CompareInv, [Next]_vars PROVE CompareInv'
  OBVIOUS
<1>1. CASE ScanBaseline
  <2>1. PICK setup \in Scans : \E missed \in Missable(setup, world) :
          baseline' = Document(setup, world, missed)
    BY <1>1 DEF ScanBaseline
  <2>2. IsScan(baseline') /\ current = NoDocument /\ outcome = NoOutcome
    BY <1>1, <2>1 DEF IsScan, ScanBaseline, CompareInv
  <2>3. UNCHANGED <<current, outcome>>
    BY <1>1 DEF ScanBaseline
  <2>4. QED
    BY <2>2, <2>3 DEF CompareInv, Compared, NoOutcome
<1>2. CASE Change
  <2>1. UNCHANGED <<baseline, current, outcome>> /\ current = NoDocument
    BY <1>2 DEF Change
  <2>2. outcome = NoOutcome
    BY <2>1 DEF CompareInv
  <2>3. QED
    BY <2>1, <2>2 DEF CompareInv, Compared, NoOutcome
<1>3. CASE ScanCurrent
  <2>1. PICK setup \in Scans : \E missed \in Missable(setup, world) :
          current' = Document(setup, world, missed)
    BY <1>3 DEF ScanCurrent
  <2>2. IsScan(current') /\ baseline # NoDocument /\ outcome = NoOutcome
    BY <1>3, <2>1 DEF IsScan, ScanCurrent, CompareInv
  <2>3. UNCHANGED <<baseline, outcome>>
    BY <1>3 DEF ScanCurrent
  <2>4. QED
    BY <2>2, <2>3 DEF CompareInv, Compared, NoOutcome
<1>4. ASSUME NEW policy \in Policies, RunCompare(policy) PROVE CompareInv'
  <2> DEFINE bb == LoadAndNormalize(baseline)
             cc == LoadAndNormalize(current)
  <2>1. /\ current # NoDocument /\ UNCHANGED <<baseline, current>>
        /\ outcome' = IF Indexable(bb) /\ Indexable(cc)
                      THEN [status |-> "compared", policy |-> policy, cmp |-> Compare(bb, cc),
                            gate |-> Gate(bb, cc, Compare(bb, cc), policy)]
                      ELSE [status |-> "error"]
    BY <1>4 DEF RunCompare
  <2>2. Judgement(baseline, current, policy) = Gate(bb, cc, Compare(bb, cc), policy)
    BY DEF Judgement
  <2>3. bb' = bb /\ cc' = cc
    BY <2>1
  <2>4. /\ Compared' =>
             /\ outcome'.policy = policy /\ outcome'.cmp = Compare(bb, cc)
             /\ outcome'.gate = Judgement(baseline, current, policy)
             /\ Indexable(cc)
        /\ outcome'.status = "error" => ~(Indexable(bb) /\ Indexable(cc))
    <3>1. CASE Indexable(bb) /\ Indexable(cc)
      <4> DEFINE gate == Gate(bb, cc, Compare(bb, cc), policy)
                 cmp == Compare(bb, cc)
      <4>1. outcome' = [status |-> "compared", policy |-> policy, cmp |-> cmp, gate |-> gate]
        BY <2>1, <3>1
      <4>2. gate = Judgement(baseline, current, policy)
        BY <2>2
      <4> HIDE DEF gate, cmp, bb, cc
      <4>3. QED
        BY <3>1, <4>1, <4>2 DEF cmp
    <3>2. CASE ~(Indexable(bb) /\ Indexable(cc))
      BY <2>1, <3>2 DEF Compared
    <3>3. QED
      BY <3>1, <3>2
  <2> HIDE DEF bb, cc
  <2>5. /\ Compared' => outcome'.gate = Judgement(baseline, current, outcome'.policy)
        /\ Judgement(baseline, current, outcome.policy)' = Judgement(baseline, current, outcome'.policy)
    BY <2>1, <2>4
  <2>6. QED
    BY <2>1, <2>3, <2>4, <2>5 DEF CompareInv, bb, cc
<1>5. CASE UNCHANGED vars
  <2>1. UNCHANGED <<baseline, current, outcome>>
    BY <1>5 DEF vars
  <2>2. QED
    BY <2>1 DEF CompareInv, Compared
<1>6. QED
  BY <1>1, <1>2, <1>3, <1>4, <1>5 DEF Next

THEOREM CompareInvariance == Spec => []CompareInv
BY CompareInitInv, CompareNextInv, PTL DEF Spec

LEMMA ComparedAre ==
  ASSUME CompareInv, Compared
  PROVE  /\ IsScan(baseline) /\ IsScan(current) /\ outcome.policy \in Policies
         /\ outcome.gate = Judgement(baseline, current, outcome.policy)
         /\ outcome.cmp = Compare(LoadAndNormalize(baseline), LoadAndNormalize(current))
         /\ Indexable(LoadAndNormalize(current))
<1>1. outcome # NoOutcome
  BY DEF Compared, NoOutcome
<1>2. QED
  BY <1>1 DEF CompareInv

(* A new blocker that fails the gate is new, however many rules, objects   *)
(* and changes there are (gate.Evaluate on comparison.Compare): a          *)
(* trustworthy baseline that looked at as much would have reported it.     *)
THEOREM NewBlockersAreNew == Spec => []NewBlockerIsNew
<1>1. CompareInv => NewBlockerIsNew
  <2> SUFFICES ASSUME CompareInv, Compared, LooksAtLeastAs(baseline.setup, current.setup),
                      "NEW_BLOCKERS_DETECTED" \in outcome.gate.reasons
               PROVE  \E s \in Sightings : Blocks(s, current) /\ baseline.world[s] = "absent"
    BY DEF NewBlockerIsNew
  <2>1. QED
    BY ComparedAre, BlockerSeenIsFound
<1>2. QED
  BY <1>1, CompareInvariance, PTL

(* A pass with failOnNewBlockers says that the earlier scan had reported   *)
(* all that blocks the upgrade now, whatever the two scans looked at       *)
(* (gate.Evaluate): evidence that was lost makes the gate neutral.         *)
THEOREM PassSafety == Spec => []PassIsEarned
<1>1. CompareInv => PassIsEarned
  <2> SUFFICES ASSUME CompareInv, Compared, outcome.gate.decision = "pass",
                      outcome.policy.failOnNewBlockers,
                      NEW s \in Sightings, Blocks(s, current)
               PROVE  \E f \in baseline.findings :
                        f.fingerprint = Fingerprint(s, current.setup.target)
    BY DEF PassIsEarned
  <2>1. QED
    BY ComparedAre, PassedIsReported
<1>2. QED
  BY <1>1, CompareInvariance, PTL

(* The rules that declare all the evidence they read; DRAIN-001 and        *)
(* NODE-003 do not.                                                        *)
EveryPlaneDeclared == \A r \in RuleIDs : SeenOn(r) \subseteq Declares(r)

(* With rules that declare what they read, a finding is reported resolved  *)
(* only when it is gone (comparison.Compare, ruleProvenEvaluated).         *)
THEOREM ResolutionSafety == Spec => [](EveryPlaneDeclared => ResolvedIsGone)
<1>1. CompareInv => (EveryPlaneDeclared => ResolvedIsGone)
  <2> SUFFICES ASSUME EveryPlaneDeclared, CompareInv, Compared,
                      LooksAtLeastAs(current.setup, baseline.setup),
                      NEW f \in outcome.cmp.resolved,
                      baseline.setup.target = current.setup.target,
                      current.setup.native \/ ~HasFinding(current, f.fingerprint.rule),
                      NEW s \in Sightings,
                      s.rule = f.fingerprint.rule, s.object = f.fingerprint.object,
                      s.plane \in f.planes
               PROVE  current.world[s] = "absent"
    BY DEF ResolvedIsGone
  <2>1. SeenOn(s.rule) \subseteq Declares(s.rule)
    BY SightingIs DEF EveryPlaneDeclared
  <2>2. QED
    BY <2>1, ComparedAre, ResolvedWasSeen
<1>2. QED
  BY <1>1, CompareInvariance, PTL

(* A cluster in which nothing got worse does not fail the gate, for every  *)
(* policy that asks for no improvement (gate.Evaluate): no new findings,   *)
(* no worse verdict, and no lower score, by injection of the findings.     *)
THEOREM RepairSafety == Spec => []RepairNeverFails
<1>1. CompareInv => RepairNeverFails
  <2> SUFFICES ASSUME CompareInv, Compared, outcome.gate.decision = "fail",
                      outcome.policy.minimumScoreDelta <= 0,
                      LooksAtLeastAs(baseline.setup, current.setup),
                      "WARNINGS_PRESENT" \notin outcome.gate.reasons,
                      NothingWorse(baseline, current)
               PROVE  FALSE
    BY DEF RepairNeverFails, NothingWorse
  <2>1. outcome.policy.minimumScoreDelta \in Int
    BY ComparedAre, ComparisonAssumption
  <2>2. QED
    BY <2>1, ComparedAre, RepairedIsNotStopped
<1>2. QED
  BY <1>1, CompareInvariance, PTL

(* A workload that the scan could see live and in its manifest, and that   *)
(* one rule reports for both.                                              *)
Twins(doc) ==
  \E s, t \in Allowed(doc.setup, Visible(doc.setup, doc.world)) :
    s.rule \in Unmerged /\ t.rule = s.rule /\ t.object = s.object /\ s.plane # t.plane

(* But for those there is one finding under a fingerprint. *)
LEMMA IndexableUnless ==
  ASSUME NEW doc, IsScan(doc), ~Twins(doc)
  PROVE  Indexable(LoadAndNormalize(doc))
<1> DEFINE cc == LoadAndNormalize(doc)
<1>1. PICK n : doc.setup \in Scans /\ Shows(cc, doc.setup, doc.world, n)
  BY LoadedScan
<1> HIDE DEF cc
<1> SUFFICES ASSUME NEW f \in cc.findings, NEW g \in cc.findings, f.fingerprint = g.fingerprint
             PROVE  f = g
  BY DEF Indexable, cc
<1> DEFINE seen == SeenBy(doc.setup, doc.world, n)
<1>2. /\ cc.findings = FindingsOf(doc.setup, doc.world, seen) /\ seen \subseteq Sightings
      /\ seen \subseteq Allowed(doc.setup, Visible(doc.setup, doc.world))
  <2>1. seen \subseteq Allowed(doc.setup, Visible(doc.setup, doc.world))
    BY DEF SeenBy, Allowed
  <2>2. QED
    BY <1>1, <2>1, SeenIs DEF Shows
<1> HIDE DEF seen
<1>3. PICK s \in seen :
        f = [fingerprint |-> Fingerprint(s, doc.setup.target), planes |-> ResourcePlanes(s, seen),
             kind |-> Kind(s, doc.world[s], doc.setup.context)]
  BY <1>2 DEF FindingsOf
<1>4. PICK t \in seen :
        g = [fingerprint |-> Fingerprint(t, doc.setup.target), planes |-> ResourcePlanes(t, seen),
             kind |-> Kind(t, doc.world[t], doc.setup.context)]
  BY <1>2 DEF FindingsOf
<1>5. s.rule = t.rule /\ s.object = t.object
  BY <1>3, <1>4, FingerprintIs
<1>6. s.rule \in {"API-001", "PDB-001", "WH-002", "EKS-NG-001"} \cup Unmerged
  BY <1>2, SightingIs, ComparisonAssumption DEF Unmerged
<1>7. CASE s.rule = "API-001"
  <2>1. /\ ResourcePlanes(s, seen) = ResourcePlanes(t, seen)
        /\ Kind(s, doc.world[s], doc.setup.context) = Kind(t, doc.world[t], doc.setup.context)
    BY <1>5, <1>7 DEF ResourcePlanes, Kind
  <2>2. QED
    BY <1>3, <1>4, <2>1 DEF Fingerprint
<1>8. CASE s.rule # "API-001"
  <2>1. s.plane \in SeenOn(s.rule) /\ t.plane \in SeenOn(s.rule)
    BY <1>2, <1>5, SightingIs
  <2>2. s.plane = t.plane
    <3>1. CASE s.rule \in Unmerged
      BY <1>2, <1>5, <3>1 DEF Twins
    <3>2. CASE s.rule \notin Unmerged
      BY <1>6, <1>8, <2>1, <3>2 DEF SeenOn
    <3>3. QED
      BY <3>1, <3>2
  <2>3. s = t
    BY <1>2, <1>5, <2>2, SameSighting
  <2>4. QED
    BY <1>3, <1>4, <2>3
<1>9. QED
  BY <1>7, <1>8

(* What two scans wrote can be compared (indexByFingerprint), unless one   *)
(* of them could see a workload both live and in its manifest, that        *)
(* DRAIN-001 or NODE-003 reports for both: of the six rules of the model,  *)
(* whichever of them take part, these two alone give two findings one      *)
(* fingerprint, and they do it in no other way.                            *)
THEOREM OnlyTwinsCollide == Spec => [](ScansCanBeCompared \/ Twins(baseline) \/ Twins(current))
<1>1. CompareInv => ScansCanBeCompared \/ Twins(baseline) \/ Twins(current)
  <2> SUFFICES ASSUME CompareInv, ~Twins(baseline), ~Twins(current), outcome.status = "error"
               PROVE  FALSE
    BY DEF ScansCanBeCompared
  <2>1. outcome # NoOutcome
    BY DEF NoOutcome
  <2>2. QED
    BY <2>1, IndexableUnless DEF CompareInv
<1>2. QED
  BY <1>1, CompareInvariance, PTL
=============================================================================
