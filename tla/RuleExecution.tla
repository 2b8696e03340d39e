--------------------------- MODULE RuleExecution ---------------------------
(***************************************************************************)
(* Registry.RunAllWithExecutions (internal/rules/rule.go): the rules of    *)
(* the universe are taken one after the other, in registration order.  A   *)
(* rule that is not registered, not applicable or short of a whole plane   *)
(* is recorded without being run; any other rule is run behind a recover,  *)
(* and may return findings, some of them invalid, together with an error,  *)
(* or panic and lose what it had found.                                    *)
(*                                                                         *)
(* status[r] is what RuleEvidence's RuleStatus says of rule r.             *)
(*                                                                         *)
(* The reader of a report does not see the records but what                *)
(* internal/report/evaluation_coverage.go makes of them: one outcome per   *)
(* rule and one status for all of them.                                    *)
(***************************************************************************)
EXTENDS Naturals, Sequences

CONSTANTS
  Universe  \* AllRuleIDs(), as a sequence

Rules == {Universe[i] : i \in DOMAIN Universe}

ASSUME UniverseAssumption ==
  /\ Universe \in Seq(Rules)
  /\ \A i, j \in DOMAIN Universe : Universe[i] = Universe[j] => i = j

VARIABLES
  status,    \* per rule, the verdict on its registration and its evidence
  position,  \* the rule of the universe that is next
  records,   \* the RuleExecutionRecords appended so far
  kept,      \* per rule, the findings it contributed to the result
  errs,      \* the rules with an error in the joined error
  made       \* per rule, the findings its Evaluate made, kept or lost

vars == <<status, position, records, kept, errs, made>>

Statuses == {"not_registered", "not_applicable", "missing_plane",
             "insufficient_evidence", "evaluable"}
States == {"not_evaluated", "insufficient_evidence", "failed", "evaluated"}
Record(r, a, s) == [rule |-> r, applicable |-> a, state |-> s]
Records == [rule : Rules, applicable : BOOLEAN, state : States]
Findings == {"valid", "invalid"}

Running == position <= Len(Universe)
Current == Universe[position]

(* Only validated findings get into the result, and every record carries a *)
(* state of the execution model.                                           *)
TypeOK ==
  /\ status \in [Rules -> Statuses]
  /\ position \in 1 .. Len(Universe) + 1
  /\ records \in Seq(Records)
  /\ kept \in [Rules -> SUBSET {"valid"}]
  /\ made \in [Rules -> SUBSET Findings]
  /\ errs \subseteq Rules

Init ==
  /\ status \in [Rules -> Statuses]
  /\ position = 1
  /\ records = <<>>
  /\ kept = [r \in Rules |-> {}]
  /\ made = [r \in Rules |-> {}]
  /\ errs = {}

(* Mutant: the first rule that fails ends the loop. *)
AdvanceOrAbort(record) ==
  /\ records' = Append(records, record)
  /\ position' = IF record.state = "failed" THEN Len(Universe) + 1 ELSE position + 1
  /\ UNCHANGED status

(* Every iteration of the loop ends by appending its record. *)
Advance(record) ==
  /\ records' = Append(records, record)
  /\ position' = position + 1
  /\ UNCHANGED status

(* Not registered for this scan mode, or its plane was not requested. *)
Dismiss ==
  /\ Running
  /\ status[Current] \in {"not_registered", "not_applicable"}
  /\ Advance(Record(Current, FALSE, "not_evaluated"))
  /\ UNCHANGED <<kept, errs, made>>

(* A requested plane has no snapshot at all: the rule cannot be run. *)
Withhold ==
  /\ Running
  /\ status[Current] = "missing_plane"
  /\ Advance(Record(Current, TRUE, "insufficient_evidence"))
  /\ UNCHANGED <<kept, errs, made>>

(* What evaluateRuleSafely hands back: a recovered panic has lost the      *)
(* findings made before it.                                                *)
Returned(found, panics) == IF panics THEN {} ELSE found

(* Each finding is validated on its own; the valid ones are kept.          *)
Kept(found, panics) == Returned(found, panics) \cap {"valid"}

(* Mutant: a recovered panic is not turned into an error of the rule. *)
FailedSwallowing(found, fails, panics) == fails \/ "invalid" \in Returned(found, panics)

(* ruleErrs: an error, a recovered panic, or a finding that is not valid.  *)
Failed(found, fails, panics) == fails \/ panics \/ "invalid" \in Returned(found, panics)

(* Mutant: the evidence is looked at before the rule's own failures. *)
StateEvidenceFirst(r, failed) ==
  IF status[r] = "insufficient_evidence" THEN "insufficient_evidence"
  ELSE IF failed THEN "failed" ELSE "evaluated"

(* The execution state of a rule that ran: its failures come first, then   *)
(* the evidence it ran on.                                                 *)
StateOf(r, failed) ==
  IF failed THEN "failed"
  ELSE IF status[r] = "insufficient_evidence" THEN "insufficient_evidence" ELSE "evaluated"

(* The rule runs.  What it found that is valid is kept even when it also   *)
(* fails, or ran on partial evidence.                                      *)
Evaluate(found, fails, panics) ==
  /\ Running
  /\ status[Current] \in {"insufficient_evidence", "evaluable"}
  /\ made' = [made EXCEPT ![Current] = found]
  /\ kept' = [kept EXCEPT ![Current] = Kept(found, panics)]
  /\ LET failed == Failed(found, fails, panics)
     IN  /\ errs' = IF failed THEN errs \cup {Current} ELSE errs
         /\ Advance(Record(Current, TRUE, StateOf(Current, failed)))

Next ==
  \/ Dismiss
  \/ Withhold
  \/ \E found \in SUBSET Findings, fails, panics \in BOOLEAN : Evaluate(found, fails, panics)

Spec == Init /\ [][Next]_vars /\ WF_vars(Next)
-----------------------------------------------------------------------------
Applicable == {i \in DOMAIN records : records[i].applicable}

(* Mutant: a rule without findings reads as clean unless it failed. *)
RuleOutcomeUnlessFailed(record, found) ==
  IF ~record.applicable THEN "Not applicable"
  ELSE IF record.state = "failed" THEN "Evaluation failed"
  ELSE IF found = {} THEN "No issue detected" ELSE "findings reported"

(* ruleOutcomeLabel: a rule without findings reads as clean only if it was *)
(* evaluated.                                                              *)
RuleOutcome(record, found) ==
  IF ~record.applicable THEN "Not applicable"
  ELSE CASE record.state = "evaluated" ->
              IF found = {} THEN "No issue detected" ELSE "findings reported"
         [] record.state = "insufficient_evidence" -> "Unable to verify"
         [] record.state = "failed" -> "Evaluation failed"
         [] OTHER -> "Not evaluated"

(* BuildRuleExecutionRows: one row per record. *)
Rows == {[rule |-> records[i].rule, outcome |-> RuleOutcome(records[i], kept[records[i].rule])] :
           i \in DOMAIN records}

(* BuildEvaluationCoverage, for records that this build made itself. *)
EvaluationCoverage ==
  IF records = <<>> THEN "unavailable"
  ELSE IF \A i \in Applicable : records[i].state = "evaluated" THEN "complete" ELSE "partial"
-----------------------------------------------------------------------------
(* The caller gets exactly one record per rule of the universe, in order,  *)
(* whatever the rules do.                                                  *)
EveryRuleIsRecorded ==
  ~Running => [i \in DOMAIN records |-> records[i].rule] = Universe

(* A finding that a rule made and the report does not show is owned up to: *)
(* the rule's record says failed.                                          *)
LostFindingsAreConfessed ==
  \A r \in Rules : made[r] # kept[r] =>
    \E i \in DOMAIN records : records[i].rule = r /\ records[i].state = "failed"

(* What reads as clean is clean: a row that says "No issue detected"       *)
(* stands for a rule that ran on complete evidence, without an error, and  *)
(* made no finding at all; and coverage that reads as complete means that  *)
(* every rule was evaluated so or had no part in this scan.                *)
CleanIsEarned ==
  /\ \A row \in Rows : row.outcome = "No issue detected" =>
       made[row.rule] = {} /\ row.rule \notin errs /\ status[row.rule] = "evaluable"
  /\ ~Running /\ EvaluationCoverage = "complete" =>
       /\ errs = {} /\ made = kept
       /\ \A r \in Rules : status[r] \in {"not_registered", "not_applicable", "evaluable"}
=============================================================================
