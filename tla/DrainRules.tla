------------------------------ MODULE DrainRules ------------------------------
(***************************************************************************)
(* The drain rules that join several lists of the cluster: DRAIN-002 (data *)
(* on one node), DRAIN-003 (a pod no other node can host) and DRAIN-004    *)
(* (no room on the other nodes), internal/rules/drain00{2,3,4}.go.  Each   *)
(* is an operator of what was collected:                                   *)
(*   workloads  Deployments and StatefulSets: [name, kind, replicas,       *)
(*              hostPath, claims, needs, fits], where "needs" names the    *)
(*              scheduling constraints of the template and "fits" the      *)
(*              nodes that satisfy its selector, affinity and tolerations; *)
(*   nodes      [name, ready, open, controlPlane, domain, room]; the       *)
(*              domain is NoNode without the label of the spread key;      *)
(*   pods       in the order of the list: [of, daemon, node, live, port,   *)
(*              asks, complete], where "of" are the workloads whose owner  *)
(*              test the pod passes;                                       *)
(*   claims     PersistentVolumeClaim -> the volume it is bound to;        *)
(*   volumes    PersistentVolume -> [node, local].                         *)
(* One namespace and one host port stand for all of them.                  *)
(***************************************************************************)
EXTENDS Naturals, Sequences, FiniteSets, FiniteSetsExt, Functions

NoNode == ""
Resources == {"cpu", "memory"}

(* drainDependentGate, as the class of a finding. *)
DrainGate(context) ==
  CASE context \in {"worker_rollout", "full_platform_upgrade"} -> "block"
    [] context \in {"audit_only", "control_plane_only"}        -> "warning"
    [] OTHER                                                   -> "decision"

Drain(on, check, class) == [on |-> on, check |-> check, class |-> class]

(* drain002RunningNodeName: the first live, scheduled pod that passes the  *)
(* owner test.  A Deployment's test is a name prefix of the ReplicaSet, so *)
(* a pod of "web-api" passes the one of "web".                             *)
RunningNode(see, w) ==
  LET own == {k \in DOMAIN see.pods : /\ see.pods[k].live /\ see.pods[k].node # NoNode
                                      /\ w.name \in see.pods[k].of}
  IN  IF own = {} THEN NoNode ELSE see.pods[Min(own)].node
-----------------------------------------------------------------------------
(* drain002LocalPVVolumes: the claims that are bound to a volume of the    *)
(* list that one node holds.                                               *)
Pinned(see, w) ==
  {c \in w.claims : /\ c \in DOMAIN see.claims /\ see.claims[c] \in DOMAIN see.volumes
                    /\ LET v == see.volumes[see.claims[c]] IN v.node # NoNode \/ v.local}
PinnedNodes(see, w) == {see.volumes[see.claims[c]].node : c \in Pinned(see, w)}

(* Mutant: a node that is not in the list counts as not ready. *)
PresentSevereRiskUnlessReady(see, w, node) ==
  w.replicas = 1 /\ node # NoNode /\ ~\E n \in see.nodes : n.name = node /\ n.ready

PresentSevereRisk(see, w, node) ==
  w.replicas = 1 /\ node # NoNode /\ \E n \in see.nodes : n.name = node /\ ~n.ready

Drain002(see) ==
  LET class(severe) == IF severe THEN DrainGate(see.context) ELSE "warning"
  IN  {Drain(w.name, "hostpath", class(PresentSevereRisk(see, w, RunningNode(see, w)))) :
         w \in {x \in see.workloads : x.hostPath}}
      \cup {Drain(w.name, "local-pv", class(\E n \in PinnedNodes(see, w) : PresentSevereRisk(see, w, n))) :
              w \in {x \in see.workloads : Pinned(see, x) # {}}}
-----------------------------------------------------------------------------
(* DRAIN-003.  Each check speaks of a template with that constraint. *)
Qualifying(see, w) == {n \in see.nodes : n.name \in w.fits}

Scarce(see, w) == "selector" \in w.needs /\ Cardinality(Qualifying(see, w)) <= 1
NoSpareNode(see, w) ==
  "anti-affinity" \in w.needs /\ Cardinality(Qualifying(see, w)) <= w.replicas
OneDomain(see, w) ==
  "spread" \in w.needs /\ Cardinality({n.domain : n \in Qualifying(see, w)} \ {NoNode}) <= 1

PortTaken(see, n) ==
  \E k \in DOMAIN see.pods : see.pods[k].live /\ see.pods[k].port /\ see.pods[k].node = n.name

PortNowhereFree(see, w) ==
  /\ "port" \in w.needs /\ see.nodes # {}
  /\ \A n \in see.nodes : n.name # RunningNode(see, w) => PortTaken(see, n)

Drain003(see) ==
  {Drain(w.name, "scarcity", "warning") : w \in {x \in see.workloads : Scarce(see, x)}}
  \cup {Drain(w.name, "anti-affinity", "warning") : w \in {x \in see.workloads : NoSpareNode(see, x)}}
  \cup {Drain(w.name, "topology-spread", "warning") : w \in {x \in see.workloads : OneDomain(see, x)}}
  \cup {Drain(w.name, "hostport", "warning") : w \in {x \in see.workloads : PortNowhereFree(see, x)}}
-----------------------------------------------------------------------------
(* DRAIN-004: the requests of a node's pods against the room on the others. *)
Total(see, which, r) == SumFunction([k \in which |-> see.pods[k].asks[r]])
LivePods(see) == {k \in DOMAIN see.pods : see.pods[k].live}
PodsOn(see, n) == {k \in LivePods(see) : see.pods[k].node = n.name}

(* computeNodeUsage: an overcommitted node has no spare room. *)
Spare(see, n, r) ==
  LET used == Total(see, PodsOn(see, n), r) IN IF n.room[r] > used THEN n.room[r] - used ELSE 0

(* displacedDemand: the pods a drain moves; those of a DaemonSet stay, and *)
(* those with an incomplete request are counted apart.                     *)
Moved(see, n) == {k \in PodsOn(see, n) : ~see.pods[k].daemon}
CompleteOf(see, which) == {k \in which : see.pods[k].complete}

(* pendingPodDemand. *)
PendingPods(see) == {k \in LivePods(see) : see.pods[k].node = NoNode}

Usable(n) == n.ready /\ n.open

(* The pods whose requests must find room.  Mutant: DaemonSet pods too. *)
DemandWithDaemonSets(see, n) == CompleteOf(see, PodsOn(see, n) \cup PendingPods(see))
Demand(see, n) == CompleteOf(see, Moved(see, n) \cup PendingPods(see))

Others(see, n) == {m \in see.nodes \ {n} : Usable(m) /\ ~m.controlPlane}

Displaces(see, n) ==
  \/ \E k \in CompleteOf(see, Moved(see, n)) : \E r \in Resources : see.pods[k].asks[r] > 0
  \/ Moved(see, n) # CompleteOf(see, Moved(see, n))

Shortage(see, n) ==
  \E r \in Resources :
    Total(see, Demand(see, n), r) > SumFunction([m \in Others(see, n) |-> Spare(see, m, r)])

Drain004(see) ==
  IF Cardinality(see.nodes) < 2 THEN {}
  ELSE {Drain(n.name, "capacity", "warning") :
          n \in {m \in see.nodes : Usable(m) /\ Displaces(see, m) /\ Shortage(see, m)}}

DrainRuleIDs == {"DRAIN-002", "DRAIN-003", "DRAIN-004"}
DrainFindings(r, see) ==
  CASE r = "DRAIN-002" -> Drain002(see)
    [] r = "DRAIN-003" -> Drain003(see)
    [] r = "DRAIN-004" -> Drain004(see)
    [] OTHER           -> {}
=============================================================================
