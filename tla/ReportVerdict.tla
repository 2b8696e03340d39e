--------------------------- MODULE ReportVerdict ---------------------------
(***************************************************************************)
(* What a report concludes from its findings, its coverage and its rule    *)
(* execution records (internal/findings/report.go): the result, the exit   *)
(* code and the readiness scorecard.                                       *)
(*                                                                         *)
(* Only severity, gate and category of a finding matter here, so the       *)
(* findings of a report are a bag: how many there are of each class.       *)
(***************************************************************************)
EXTENDS Integers, FiniteSets, Functions

CONSTANT Categories  \* the categories of the scorecard

ASSUME CategoriesAssumption == IsFiniteSet(Categories)

Planes == {"kubernetes", "aws", "manifests"}

(* The combinations the rules produce: a plain Blocker, Warning or Info,   *)
(* and the gates of rules/contextual.go and of WH-005.                     *)
Kinds == {[severity |-> "Blocker", gate |-> "",                  global |-> FALSE],
          [severity |-> "Blocker", gate |-> "",                  global |-> TRUE],
          [severity |-> "Blocker", gate |-> "block",             global |-> FALSE],
          [severity |-> "Warning", gate |-> "operator_decision", global |-> FALSE],
          [severity |-> "Warning", gate |-> "operator_decision", global |-> TRUE],
          [severity |-> "Warning", gate |-> "allow",             global |-> FALSE],
          [severity |-> "Warning", gate |-> "",                  global |-> FALSE],
          [severity |-> "Info",    gate |-> "",                  global |-> FALSE]}

Classes == Categories \X Kinds

EffectiveUpgradeGate(kind) ==
  IF kind.gate # "" THEN kind.gate
  ELSE IF kind.global \/ kind.severity = "Blocker" THEN "block" ELSE "allow"

Blocking(kind) == EffectiveUpgradeGate(kind) = "block"
Deciding(kind) == EffectiveUpgradeGate(kind) = "operator_decision"

(* Is there a finding of a kind in ks? *)
Some(fs, ks) == \E class \in Classes : class[2] \in ks /\ fs[class] > 0

(* Summary.Blockers, OperatorDecisions and Warnings, as far as Result asks: *)
(* a Blocker that does not gate is counted with the warnings.              *)
Blockers(fs) == Some(fs, {k \in Kinds : Blocking(k)})
OperatorDecisions(fs) == Some(fs, {k \in Kinds : Deciding(k)})
Warnings(fs) ==
  Some(fs, {k \in Kinds : k.severity = "Warning" \/ (k.severity = "Blocker" /\ ~Blocking(k))})

(* Mutant: the rule execution records are forgotten. *)
IsCompleteByCoverage(coverage, evaluated) == \A p \in Planes : coverage[p] # "partial"

(* evaluated: every applicable rule's execution record says evaluated. *)
IsComplete(coverage, evaluated) ==
  (\A p \in Planes : coverage[p] # "partial") /\ evaluated

(* Mutant: blockers outrank incomplete evidence. *)
ResultBlockedFirst(fs, coverage, evaluated) ==
  IF Blockers(fs) THEN "BLOCKED"
  ELSE IF ~IsComplete(coverage, evaluated) THEN "INCOMPLETE"
  ELSE IF Warnings(fs) \/ OperatorDecisions(fs) THEN "PASSED_WITH_WARNINGS"
  ELSE "CLEAN"

(* resultAndExitCode: incomplete evidence outranks blockers. *)
Result(fs, coverage, evaluated) ==
  IF ~IsComplete(coverage, evaluated) THEN "INCOMPLETE"
  ELSE IF Blockers(fs) THEN "BLOCKED"
  ELSE IF Warnings(fs) \/ OperatorDecisions(fs) THEN "PASSED_WITH_WARNINGS"
  ELSE "CLEAN"

ExitCode(result) ==
  CASE result = "INCOMPLETE" -> 3 [] result = "BLOCKED" -> 2
    [] result = "PASSED_WITH_WARNINGS" -> 1 [] result = "CLEAN" -> 0
-----------------------------------------------------------------------------
(* BlockerCount and WarningCount of a category. *)
CountOf(fs, c, ks) == SumFunction([k \in ks |-> fs[<<c, k>>]])
BlockerCount(fs, c) == CountOf(fs, c, {k \in Kinds : Blocking(k)})
WarningCount(fs, c) ==
  CountOf(fs, c, {k \in Kinds : Deciding(k) \/ (~Blocking(k) /\ k.severity = "Warning")})

(* Mutant: a warning after a blocker takes the category's status back. *)
StatusLastWins(fs, c) ==
  IF WarningCount(fs, c) > 0 THEN "Warning"
  ELSE IF BlockerCount(fs, c) > 0 THEN "Failed" ELSE "Passed"

Status(fs, c) ==
  IF BlockerCount(fs, c) > 0 THEN "Failed"
  ELSE IF WarningCount(fs, c) > 0 THEN "Warning" ELSE "Passed"

Capped(penalty, most) == IF penalty > most THEN most ELSE penalty

(* upgradeReadinessCategoryPenalty. *)
Penalty(fs, c) ==
  CASE Status(fs, c) = "Failed"  -> Capped(15 + 3 * (BlockerCount(fs, c) - 1), 25)
    [] Status(fs, c) = "Warning" -> Capped(5 + (WarningCount(fs, c) - 1), 10)
    [] OTHER                     -> 0

ReadinessScore(fs) ==
  LET score == 100 - SumFunction([c \in Categories |-> Penalty(fs, c)])
  IN  IF score < 0 THEN 0 ELSE score

(* Mutant: no blocker is enough, whatever the verdict. *)
UpgradeContinueUnlessBlocked(fs, verdict) ==
  ~(\E c \in Categories : BlockerCount(fs, c) > 0) /\ ~OperatorDecisions(fs)

UpgradeContinue(fs, verdict) ==
  /\ verdict # "INCOMPLETE"
  /\ ~\E c \in Categories : BlockerCount(fs, c) > 0
  /\ ~OperatorDecisions(fs)

BuildUpgradeReadinessSummary(fs, verdict) ==
  [verdict |-> verdict, continue |-> UpgradeContinue(fs, verdict), score |-> ReadinessScore(fs)]
=============================================================================
