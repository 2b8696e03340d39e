----------------------------- MODULE MCScanRun -----------------------------
(***************************************************************************)
(* Every combination of planes, outputs and serving; the rules find        *)
(* nothing or a blocker; the output directory holds an older run's human-  *)
(* readable reports and its upgrade plan.                                  *)
(***************************************************************************)
EXTENDS ScanRun

MCCategories == {"Drain Readiness"}
NothingFound == [class \in Classes |-> 0]
OneOf(kind) == [NothingFound EXCEPT ![<<"Drain Readiness", kind>>] = 1]
MCScanFindings ==
  {NothingFound,
   OneOf([severity |-> "Blocker", gate |-> "block", global |-> FALSE])}
SomeLeftovers == {{"report.md", "report.html", "upgrade-plan.json"}}
=============================================================================
