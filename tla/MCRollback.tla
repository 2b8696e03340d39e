----------------------------- MODULE MCRollback -----------------------------
(* Ages: the window is 4, evidence is fresh up to 2, and a clock may be 1 *)
(* ahead.  35 is upgraded from 34; findings may be made for 34 or for 36. *)
EXTENDS Rollback

Cluster(current, status, support) ==
  [current |-> current, status |-> status, supportType |-> support]
MCClusters == {Cluster(35, "ACTIVE", "STANDARD"), Cluster(35, "UPDATING", "STANDARD"),
               Cluster(35, "ACTIVE", "EXTENDED"), Cluster(0, "ACTIVE", "STANDARD")}

Insight(status, age) == [status |-> status, age |-> age]
MCInsightValues == {Insight("PASSING", 0), Insight("WARNING", MaxAge), Insight("ERROR", 0),
                    Insight("UNKNOWN", MaxAge), Insight("ERROR", MaxAge + 1)}

Update(type, version, age) ==
  [type |-> type, status |-> "Successful", version |-> version, age |-> age]
MCUpdateValues == {Update("VersionUpdate", 35, Window - 1), Update("VersionUpdate", 35, Window),
                   Update("VersionUpdate", 34, 0)}

Whole == [p \in {"kubernetes", "aws", "manifest"} |-> "complete"]
Clean == [report |-> "findings", cluster |-> TheCluster, context |-> TRUE, age |-> MaxAge, target |-> 34,
          eks |-> TRUE, coverage |-> Whole, nodegroups |-> {}, addons |-> {}, findings |-> {}]
Finding(rule, severity) == [rule |-> rule, severity |-> severity]
With(d, rule, severity) == [d EXCEPT !.findings = {Finding(rule, severity)}]
MCTargets == {<<"json">>, <<"json", "md", "html">>}
MCReports ==
  {Clean,
   With(Clean, "WORKLOAD-001", "Blocker"), With(Clean, "PDB-001", "Blocker"),
   With([Clean EXCEPT !.target = 36], "API-001", "Blocker"),
   With([Clean EXCEPT !.cluster = "other"], "API-001", "Blocker"),
   With([Clean EXCEPT !.age = -2], "WH-002", "Blocker"),
   With([Clean EXCEPT !.target = 36], "CRD-001", "Blocker"),
   With([Clean EXCEPT !.cluster = ""], "ADDON-002", "Blocker"),
   [Clean EXCEPT !.coverage["manifest"] = "partial"],
   [Clean EXCEPT !.nodegroups = {[version |-> 35, issues |-> FALSE]},
                 !.addons = {[unverified |-> TRUE, compatible |-> FALSE]}],
   With([Clean EXCEPT !.cluster = "", !.context = FALSE, !.age = MaxAge + 1], "API-001", "Warning")}
=============================================================================
