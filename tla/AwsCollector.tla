---------------------------- MODULE AwsCollector ----------------------------
(***************************************************************************)
(* Collector.Collect of internal/collectors/aws/collector.go: one AWS call *)
(* after the other, each under its own deadline.  A call that fails leaves *)
(* a key in Snapshot.Errors and never stops the others; which calls are    *)
(* made depends on what the earlier ones answered, so a call that failed   *)
(* may hide others that were never made and left no key.                   *)
(*                                                                         *)
(* An account is a record: its insights (id, version, status), its add-ons *)
(* (name, version, and the versions AWS calls compatible with each         *)
(* Kubernetes version), its managed node groups, the free addresses of its *)
(* subnets, and the security groups and VPCs the cluster names, of which   *)
(* some may be gone.  `later` are the add-ons and node groups that the API *)
(* lists on a page after the first one.  An account does not change while  *)
(* the program runs.                                                       *)
(***************************************************************************)
EXTENDS Naturals, FiniteSets, Sequences, SequencesExt

CONSTANTS
  Accounts,   \* the accounts to look at
  MaxFaults   \* bound on the calls that fail on their own

(* An add-on is installed once. *)
ASSUME AccountsAssumption ==
  \A a \in Accounts :
    /\ \A b, c \in a.addons : b.name = c.name => b = c
    /\ IsFiniteSet(a.insights) /\ IsFiniteSet(a.addons) /\ IsFiniteSet(a.nodegroups)
    /\ IsFiniteSet(a.groups) /\ IsFiniteSet(a.vpc)

VARIABLES
  account,    \* the account behind the API
  target,     \* the targetVersion Collect was called with
  todo,       \* the calls still to make, in order
  listed,     \* insights on the pages read so far
  snap,       \* the Snapshot under construction
  cancelled,  \* the context passed to Collect is cancelled
  faults      \* calls that failed on their own so far

collectorVars == <<account, target, todo, listed, snap, cancelled, faults>>

NoVersion == 0
EmptySnapshot == [insights |-> {}, addons |-> {}, nodegroups |-> {}, subnets |-> {},
                  issues |-> {}, errors |-> {}]

Key(call, item) == [call |-> call, item |-> item]
Calls(call, items) == SetToSeq({Key(call, i) : i \in items})

CollectorInit ==
  /\ account \in Accounts
  /\ target = NoVersion
  /\ todo = <<>> /\ listed = {} /\ snap = EmptySnapshot
  /\ cancelled = FALSE /\ faults = 0

(* Ctrl+C cancels the context every call derives its deadline from. *)
Interrupt ==
  /\ ~cancelled /\ cancelled' = TRUE
  /\ UNCHANGED <<account, target, todo, listed, snap, faults>>

(* callWithTimeout: no call of a cancelled context succeeds; one may fail  *)
(* or run into its deadline by itself.                                     *)
Answers == ~cancelled /\ UNCHANGED faults
Fails ==
  \/ cancelled /\ UNCHANGED faults
  \/ ~cancelled /\ faults < MaxFaults /\ faults' = faults + 1

Collecting == todo # <<>>
Now == Head(todo)
Calling(call) == Collecting /\ Now.call = call
Returned == todo' = Tail(todo) /\ UNCHANGED <<account, target, listed, cancelled>>
Recorded(keys) == [snap EXCEPT !.errors = @ \cup keys]

(* Collect is called: a fresh snapshot, and the calls it always makes. *)
Begin(version) ==
  /\ target' = version
  /\ todo' = <<Key("describe-cluster", ""), Key("list-insights", ""),
               Key("list-addons", ""), Key("list-nodegroups", "")>>
  /\ snap' = EmptySnapshot /\ listed' = {}
  /\ UNCHANGED <<account, cancelled, faults>>

(* The network calls need the ids DescribeCluster returned. *)
NetworkCalls ==
  (IF DOMAIN account.free = {} THEN <<>> ELSE <<Key("describe-subnets", "")>>)
    \o Calls("describe-security-group", account.groups)
    \o Calls("describe-vpc", account.vpc)

(* Mutant: the failure leaves no key. *)
DescribeClusterUnrecorded ==
  /\ Calling("describe-cluster")
  /\ UNCHANGED <<account, target, listed, cancelled, snap>>
  /\ \/ Answers /\ todo' = Tail(todo) \o NetworkCalls
     \/ Fails /\ todo' = Tail(todo)

DescribeCluster ==
  /\ Calling("describe-cluster")
  /\ UNCHANGED <<account, target, listed, cancelled>>
  /\ \/ Answers /\ todo' = Tail(todo) \o NetworkCalls /\ UNCHANGED snap
     \/ Fails /\ todo' = Tail(todo) /\ snap' = Recorded({Now})
-----------------------------------------------------------------------------
(* listUpgradeInsightSummaries: filtered to the target, or not at all in   *)
(* the retry.  A page holds at least one insight.                          *)
Relevant(call) ==
  IF call = "list-insights" THEN {i \in account.insights : i.version = target} ELSE account.insights

(* Mutant: the token of the page before the last is sent. *)
PageAgain(page) ==
  IF page = Relevant(Now.call)
  THEN /\ listed' = {}
       /\ todo' = Calls("describe-insight", {i.id : i \in page}) \o Tail(todo)
  ELSE listed' = page /\ UNCHANGED todo

(* A page arrives; with the last one the details are asked for. *)
Page(page) ==
  IF listed \cup page = Relevant(Now.call)
  THEN /\ listed' = {}
       /\ todo' = Calls("describe-insight", {i.id : i \in listed \cup page}) \o Tail(todo)
  ELSE listed' = listed \cup page /\ UNCHANGED todo

Pages == LET rest == Relevant(Now.call) \ listed IN {p \in SUBSET rest : p = {} => rest = {}}

(* Any error drops the pages read so far; the first is answered by the     *)
(* retry without a version, and is forgotten if that succeeds.             *)
ListInsights ==
  /\ Calling("list-insights")
  /\ UNCHANGED <<account, target, cancelled, snap>>
  /\ \/ Answers /\ \E page \in Pages : Page(page)
     \/ Fails /\ listed' = {} /\ todo' = <<Key("list-insights-fallback", "")>> \o Tail(todo)

(* Mutant: only the retry's own failure is recorded. *)
ListInsightsFallbackOwnKey ==
  /\ Calling("list-insights-fallback")
  /\ UNCHANGED <<account, target, cancelled>>
  /\ \/ Answers /\ UNCHANGED snap /\ \E page \in Pages : Page(page)
     \/ Fails /\ listed' = {} /\ todo' = Tail(todo) /\ snap' = Recorded({Now})

ListInsightsFallback ==
  /\ Calling("list-insights-fallback")
  /\ UNCHANGED <<account, target, cancelled>>
  /\ \/ Answers /\ UNCHANGED snap /\ \E page \in Pages : Page(page)
     \/ Fails /\ listed' = {} /\ todo' = Tail(todo)
              /\ snap' = Recorded({Key("list-insights", ""), Now})

(* The summary is kept when the details cannot be had. *)
DescribeInsight ==
  /\ Calling("describe-insight") /\ Returned
  /\ LET known == {i \in account.insights : i.id = Now.item}
         kept  == [snap EXCEPT !.insights = @ \cup known]
     IN  \/ Answers /\ snap' = kept
         \/ Fails /\ snap' = [kept EXCEPT !.errors = @ \cup {Now}]
-----------------------------------------------------------------------------
(* ListAddons and ListNodegroups are called once, and the NextToken of     *)
(* their answer is not looked at: what is on a later page is never heard   *)
(* of, and leaves no key.  (DescribeAddonVersions, asked about one add-on, *)
(* has one page.)                                                          *)
FirstPage(items) == items \ account.later

(* Two calls for every add-on listed, one after the other. *)
AddonCalls ==
  LET names == SetToSeq({a.name : a \in FirstPage(account.addons)})
  IN  [k \in 1 .. 2 * Len(names) |->
         Key(IF k % 2 = 1 THEN "describe-addon" ELSE "describe-addon-versions",
             names[(k + 1) \div 2])]

ListAddons ==
  /\ Calling("list-addons")
  /\ UNCHANGED <<account, target, listed, cancelled>>
  /\ \/ Answers /\ todo' = AddonCalls \o Tail(todo) /\ UNCHANGED snap
     \/ Fails /\ todo' = Tail(todo) /\ snap' = Recorded({Now})

TheAddon == CHOOSE a \in account.addons : a.name = Now.item
Record(version, compatible) == [name |-> Now.item, version |-> version, compatible |-> compatible]

(* An add-on that cannot be described stays in the inventory, without a    *)
(* version ...                                                             *)
DescribeAddon ==
  /\ Calling("describe-addon") /\ Returned
  /\ \/ Answers /\ snap' = [snap EXCEPT !.addons = @ \cup {Record(TheAddon.version, {})}]
     \/ Fails /\ snap' = [Recorded({Now}) EXCEPT !.addons = @ \cup {Record(NoVersion, {})}]

(* ... and one whose compatible versions cannot be had, without any. *)
DescribeAddonVersions ==
  /\ Calling("describe-addon-versions") /\ Returned
  /\ \/ /\ Answers
        /\ snap' = [snap EXCEPT !.addons =
             {IF a.name = Now.item THEN [a EXCEPT !.compatible = TheAddon.compatible[target]]
              ELSE a : a \in @}]
     \/ Fails /\ snap' = Recorded({Now})

ListNodegroups ==
  /\ Calling("list-nodegroups")
  /\ UNCHANGED <<account, target, listed, cancelled>>
  /\ \/ /\ Answers /\ UNCHANGED snap
        /\ todo' = Calls("describe-nodegroup", {g.name : g \in FirstPage(account.nodegroups)}) \o Tail(todo)
     \/ Fails /\ todo' = Tail(todo) /\ snap' = Recorded({Now})

(* A node group that cannot be described is left out. *)
DescribeNodegroup ==
  /\ Calling("describe-nodegroup") /\ Returned
  /\ \/ Answers /\ snap' = [snap EXCEPT !.nodegroups =
                              @ \cup {g \in account.nodegroups : g.name = Now.item}]
     \/ Fails /\ snap' = Recorded({Now})
-----------------------------------------------------------------------------
(* One call for every subnet. *)
DescribeSubnets ==
  /\ Calling("describe-subnets") /\ Returned
  /\ \/ Answers /\ snap' = [snap EXCEPT !.subnets =
                              {[id |-> s, free |-> account.free[s]] : s \in DOMAIN account.free}]
     \/ Fails /\ snap' = Recorded({Now})

(* collectNetworkPreflight: one call for each id, so that NotFound is an   *)
(* answer about that id and any other error is none.                       *)
DescribeNetwork ==
  /\ Calling("describe-security-group") \/ Calling("describe-vpc")
  /\ Returned
  /\ \/ Answers /\ snap' = [snap EXCEPT !.issues = @ \cup ({Now.item} \cap account.missing)]
     \/ Fails /\ snap' = Recorded({Now})

CollectStep ==
  \/ DescribeCluster \/ ListInsights \/ ListInsightsFallback \/ DescribeInsight
  \/ ListAddons \/ DescribeAddon \/ DescribeAddonVersions
  \/ ListNodegroups \/ DescribeNodegroup \/ DescribeSubnets \/ DescribeNetwork

(* What there is to be known of the account for version, all pages of it:  *)
(* the reference the properties compare with.                              *)
Complete(version) ==
  [insights   |-> {i \in account.insights : i.version = version},
   addons     |-> {[name |-> a.name, version |-> a.version, compatible |-> a.compatible[version]] :
                     a \in account.addons},
   nodegroups |-> account.nodegroups,
   subnets    |-> {[id |-> s, free |-> account.free[s]] : s \in DOMAIN account.free},
   issues     |-> (account.groups \cup account.vpc) \cap account.missing,
   errors     |-> {}]
=============================================================================
