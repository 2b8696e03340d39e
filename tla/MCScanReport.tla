---------------------------- MODULE MCScanReport ----------------------------
(* One category, with enough findings to reach the caps of both penalties, *)
(* five blockers and six warnings, and every combination of partial planes.*)
EXTENDS ScanReport

MCCategories == {"Drain Readiness"}
=============================================================================
