--------------------------- MODULE MCUpgradePlan ---------------------------
(* Two hops, 29 to 31, over a healthy account and one with a problem for   *)
(* every AWS rule, of whose add-ons and node groups some are on a second   *)
(* page, and over a clean cluster and one with live and manifest objects   *)
(* of APIs that hop 1 and hop 2 remove.                                    *)
EXTENDS UpgradePlan

MCCatalog ==
  (<<"coredns", 30>> :> [min |-> 2, recommended |-> 3, impacts |-> {"cluster_dns"}])
  @@ (<<"coredns", 31>> :> [min |-> 3, recommended |-> 3, impacts |-> {"cluster_dns"}])
  @@ (<<"metrics-server", 30>> :> [min |-> 1, recommended |-> 2, impacts |-> {"workload"}])

Insight(id, version, status) == [id |-> id, version |-> version, status |-> status]

Troubled ==
  [insights   |-> {Insight("apis", 30, "ERROR"), Insight("skew", 30, "UNKNOWN"),
                   Insight("addons", 31, "WARNING")},
   addons     |-> {[name |-> "coredns", version |-> 2, compatible |-> 30 :> {2} @@ 31 :> {3}],
                   [name |-> "adot", version |-> 1, compatible |-> 30 :> {1} @@ 31 :> {2}]},
   nodegroups |-> {[name |-> "old", unhealthy |-> TRUE, desired |-> 1, min |-> 1, custom |-> TRUE,
                    version |-> 28]},
   free       |-> "subnet" :> 4,
   groups     |-> {"sg"}, vpc |-> {"vpc"}, missing |-> {"vpc"}, later |-> {}]

(* What the healthy account has on its second pages would block the upgrade. *)
OldDns == [name |-> "coredns", version |-> 1, compatible |-> 30 :> {2} @@ 31 :> {3}]
Ailing == [name |-> "ailing", unhealthy |-> TRUE, desired |-> 2, min |-> 1, custom |-> FALSE,
           version |-> 29]

Healthy ==
  [insights   |-> {Insight("apis", 30, "PASSING")},
   addons     |-> {[name |-> "adot", version |-> 1, compatible |-> 30 :> {1} @@ 31 :> {1}], OldDns},
   nodegroups |-> {Ailing},
   free       |-> "subnet" :> 5,
   groups     |-> {}, vpc |-> {"vpc"}, missing |-> {}, later |-> {OldDns, Ailing}]

MCAccounts == {Troubled, Healthy}

Live(name, removed, kind) == [name |-> name, removed |-> removed, kind |-> kind]
Manifest(name, removed) == [name |-> name, removed |-> removed]
State(rule, class) == Found(rule, "cluster", {"live"}, class)

Busy ==
  [version |-> 29, apis |-> {Live("schema", 30, "auto"), Live("job", 31, "plain"), Live("event", 30, "event")},
   workloads |-> {[name |-> "metrics-server", version |-> 1]},
   state |-> {State("DRAIN-002", "block")},
   files |-> {Manifest("schema", 30), Manifest("budget", 31)}, chart |-> {Manifest("job", 31)}]

Clean ==
  [version |-> 29, apis |-> {}, workloads |-> {}, state |-> {},
   files |-> {Manifest("budget", 31)}, chart |-> {}]

MCClusters == {Busy, Clean}

MCOptions ==
  {[eks |-> TRUE, from |-> AutoVersion, to |-> 31, context |-> "full_platform_upgrade", manifests |-> TRUE],
   [eks |-> TRUE, from |-> 29, to |-> 31, context |-> "unspecified", manifests |-> FALSE],
   [eks |-> FALSE, from |-> AutoVersion, to |-> 31, context |-> "audit_only", manifests |-> TRUE],
   [eks |-> FALSE, from |-> AutoVersion, to |-> 29, context |-> "unspecified", manifests |-> FALSE],
   [eks |-> FALSE, from |-> 31, to |-> 30, context |-> "unspecified", manifests |-> FALSE]}
=============================================================================
