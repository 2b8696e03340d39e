----------------------------- MODULE MCRegistry -----------------------------
(* Every rule, every scan mode, and any two collector keys failing.  The   *)
(* drain rules meet a few workloads on two nodes, or a few pods on three.  *)
(* The universe of the loop has a rule that every mode registers, and one  *)
(* that meets each of the five statuses.                                   *)
EXTENDS Registry

MCUniverse == <<"API-001", "NET-002">>

Room(c, m) == [cpu |-> c, memory |-> m]
Node(name, ready, domain, room) ==
  [name |-> name, ready |-> ready, open |-> TRUE, controlPlane |-> FALSE,
   domain |-> domain, room |-> room]
Pod(of, node) == [of |-> of, daemon |-> FALSE, node |-> node, live |-> TRUE, port |-> FALSE,
                  asks |-> Room(1, 1), complete |-> TRUE]
Workload(kind, replicas) ==
  [name |-> "web", kind |-> kind, replicas |-> replicas, hostPath |-> FALSE, claims |-> {},
   needs |-> {}, fits |-> {"n1", "n2"}]
Cluster(context, workloads, nodes, pods) ==
  [context |-> context, workloads |-> workloads, nodes |-> nodes, pods |-> pods,
   claims |-> [data |-> "pv1", logs |-> "pv2"],
   volumes |-> [pv1 |-> [node |-> "n1", local |-> TRUE], pv2 |-> [node |-> NoNode, local |-> FALSE]]]

Kinds == {"deployments", "statefulsets"}

(* A volume of either kind, on a node that is ready or not; the pod of     *)
(* "web-api" passes the owner test of the Deployment "web".                *)
VolumeClusters ==
  {Cluster(context, {[Workload(kind, replicas) EXCEPT !.hostPath = hostPath, !.claims = claims]},
           {Node("n1", ready, "a", Room(2, 2)), Node("n2", FALSE, "b", Room(2, 2))}, pods) :
     context \in {"worker_rollout", "unspecified"}, kind \in Kinds, replicas \in {1, 2},
     hostPath \in BOOLEAN, claims \in SUBSET {"data", "logs", "unbound"}, ready \in BOOLEAN,
     pods \in {<<>>, <<Pod({"web"}, "n1")>>,
               <<Pod({"web", "web-api"}, "n2"), Pod({"web"}, "n1")>>}}

PlacementClusters ==
  {Cluster("unspecified", {[Workload("deployments", replicas) EXCEPT !.needs = needs, !.fits = fits]},
           {Node("n1", TRUE, "a", Room(2, 2)), Node("n2", TRUE, domain, Room(2, 2))},
           <<[Pod({"web"}, "n1") EXCEPT !.port = TRUE], [Pod({}, "n2") EXCEPT !.port = port]>>) :
     replicas \in {1, 2}, needs \in SUBSET {"selector", "anti-affinity", "spread", "port"},
     fits \in SUBSET {"n1", "n2"}, domain \in {"a", "b", NoNode}, port \in BOOLEAN}

(* n1 is drained, n2 has little room and n3 may be overcommitted, closed   *)
(* or a control-plane node; one pod moves, one waits, one is a DaemonSet's.*)
CapacityClusters ==
  {Cluster("unspecified", {},
           {Node("n1", TRUE, "a", Room(4, 4)), Node("n2", TRUE, "a", Room(2, 1)),
            [Node("n3", TRUE, "a", Room(2, 2)) EXCEPT !.open = open, !.controlPlane = master]},
           <<[Pod({}, "n1") EXCEPT !.asks = asks, !.complete = complete],
             [Pod({}, waits) EXCEPT !.live = live],
             [Pod({}, "n1") EXCEPT !.daemon = TRUE],
             [Pod({}, "n3") EXCEPT !.asks = Room(load, 1)]>>) :
     open \in BOOLEAN, master \in BOOLEAN, asks \in {Room(1, 1), Room(2, 1), Room(3, 0)},
     complete \in BOOLEAN, waits \in {NoNode, "n2"}, live \in BOOLEAN, load \in {1, 3}}

MCClusters == VolumeClusters \cup PlacementClusters \cup CapacityClusters
=============================================================================
