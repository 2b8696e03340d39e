----------------------------- MODULE ScanReport -----------------------------
(***************************************************************************)
(* How scan puts its report together (internal/findings/report.go,         *)
(* internal/cli/scan.go): NewReport computes the scorecard before the      *)
(* coverage is known, against a placeholder that claims every plane is     *)
(* complete; the rule execution records are assigned afterwards; and only  *)
(* SetCoverage brings the scorecard into line with both.                   *)
(*                                                                         *)
(* The findings grow one at a time first, so that what one more finding    *)
(* does to the conclusions can be told from step to step.                  *)
(***************************************************************************)
EXTENDS ReportVerdict

CONSTANT MaxFindings  \* bound on the findings of a scan

VARIABLES
  fs,         \* the findings the rules returned
  coverage,   \* what buildScanCoverage will say of each plane
  evaluated,  \* does every applicable record say evaluated?
  report      \* the report: its stage, coverage, records and readiness

reportVars == <<fs, coverage, evaluated, report>>

Placeholder == [kubernetes |-> "complete", aws |-> "skipped", manifests |-> "skipped"]
Readiness(f, c, e) == BuildUpgradeReadinessSummary(f, Result(f, c, e))

ReportInit ==
  /\ fs = [class \in Classes |-> 0]
  /\ coverage \in [Planes -> {"partial", "complete"}]
  /\ evaluated \in BOOLEAN
  /\ report = [stage |-> "none", coverage |-> Placeholder, evaluated |-> TRUE,
               readiness |-> Readiness([class \in Classes |-> 0], Placeholder, TRUE)]

(* A rule returns one more finding. *)
Find(class) ==
  /\ report.stage = "none"
  /\ SumFunction(fs) < MaxFindings
  /\ fs' = [fs EXCEPT ![class] = @ + 1]
  /\ UNCHANGED <<coverage, evaluated, report>>

(* NewReportWithUpgradeContext: no records yet, coverage a placeholder. *)
NewReport ==
  /\ report.stage = "none"
  /\ report' = [report EXCEPT !.stage = "new", !.readiness = Readiness(fs, Placeholder, TRUE)]
  /\ UNCHANGED <<fs, coverage, evaluated>>

(* rpt.RuleExecutions = ruleExecutions, which recomputes nothing. *)
AssignRuleExecutions ==
  /\ report.stage = "new"
  /\ report' = [report EXCEPT !.stage = "executions", !.evaluated = evaluated]
  /\ UNCHANGED <<fs, coverage, evaluated>>

(* Mutant: the coverage is assigned without SetCoverage. *)
AssignCoverage ==
  /\ report.stage = "executions"
  /\ report' = [report EXCEPT !.stage = "done", !.coverage = coverage]
  /\ UNCHANGED <<fs, coverage, evaluated>>

SetCoverage ==
  /\ report.stage = "executions"
  /\ report' = [report EXCEPT !.stage = "done", !.coverage = coverage,
                              !.readiness = Readiness(fs, coverage, report.evaluated)]
  /\ UNCHANGED <<fs, coverage, evaluated>>

ReportNext ==
  \/ \E class \in Classes : Find(class)
  \/ NewReport \/ AssignRuleExecutions \/ SetCoverage

(* DegradedPlanes: attempted, and not complete. *)
DegradedPlanes == {p \in Planes : report.coverage[p] = "partial"}

(* BuildOverallCoverage, for a report with native execution records. *)
OverallCoverage ==
  IF ~report.evaluated \/ DegradedPlanes # {} THEN "partial" ELSE "complete"

ReportSpec == ReportInit /\ [][ReportNext]_reportVars
-----------------------------------------------------------------------------
Done == report.stage = "done"
FinalResult == Result(fs, report.coverage, report.evaluated)

(* What the reports show beside the verdict, the scorecard of              *)
(* findings.json and the coverage label of the renderers, agrees with the  *)
(* result that the exit code is derived from: none of them was computed    *)
(* from an older coverage or without the records.                          *)
ReadinessAgreesWithResult ==
  Done => /\ report.readiness.verdict = FinalResult
          /\ OverallCoverage = "complete" <=> FinalResult # "INCOMPLETE"

(* "Upgrade may continue" is never said on partial evidence, with a rule   *)
(* unevaluated, with a gating finding, or while the exit code says stop.   *)
ContinueIsEarned ==
  Done /\ report.readiness.continue =>
    /\ \A p \in Planes : coverage[p] = "complete"
    /\ evaluated
    /\ ~Blockers(fs) /\ ~OperatorDecisions(fs)
    /\ ExitCode(FinalResult) \in {0, 1}

(* Finding one more thing wrong never improves the conclusions: the score  *)
(* does not rise, the exit code does not fall, and a scan that may not     *)
(* continue still may not.                                                 *)
FindingMoreNeverHelps ==
  [][fs' # fs =>
       LET before == Readiness(fs, coverage, evaluated)
           after == Readiness(fs', coverage, evaluated)
       IN  /\ after.score <= before.score
           /\ ExitCode(after.verdict) >= ExitCode(before.verdict)
           /\ after.continue => before.continue]_reportVars
=============================================================================
