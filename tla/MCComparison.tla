---------------------------- MODULE MCComparison ----------------------------
(***************************************************************************)
(* The categories are those of the rules at hand, as the others would stay *)
(* empty.  The default policy, and one that looks at warnings; a gate with *)
(* every threshold off adds nothing to them.                               *)
(***************************************************************************)
EXTENDS Comparison

MCCategories == {CategoryOf(r) : r \in RuleIDs}
DefaultPolicy ==
  [failOnNewBlockers |-> TRUE, warningPolicy |-> "ignore",
   failOnVerdictRegression |-> TRUE, minimumScoreDelta |-> 0]
WarningsToo == [DefaultPolicy EXCEPT !.warningPolicy = "fail_on_new"]
OnlyDefault == {DefaultPolicy}
TwoPolicies == {DefaultPolicy, WarningsToo}
=============================================================================
