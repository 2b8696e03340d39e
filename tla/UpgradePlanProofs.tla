-------------------------- MODULE UpgradePlanProofs --------------------------
(***************************************************************************)
(* What holds of module UpgradePlan whatever the account, the cluster, the *)
(* flags and the number of faults.                                         *)
(*                                                                         *)
(* The heart of it is what the AWS collection does not lose (AwsInv): of   *)
(* each part of the account, the snapshot knows all, or a call that leads  *)
(* to the rest is still to be made, or a key says that one failed.  It is  *)
(* kept by every call, part by part; when no call is left it says that a   *)
(* rule without a gap sees what a collection without a failure would show. *)
(* PlanInv adds where the command is and what its reports say.             *)
(***************************************************************************)
EXTENDS UpgradePlan, FiniteSetTheorems, TLAPS

(* Lists of calls. *)
LEMMA SetToSeqIs ==
  ASSUME NEW S, IsFiniteSet(S)
  PROVE  SetToSeq(S) \in Seq(S) /\ ToSet(SetToSeq(S)) = S
<1> DEFINE n == Cardinality(S)
           s == SetToSeq(S)
<1>1. n \in Nat /\ ExistsBijection(1 .. n, S)
  BY FS_CardinalityType
<1>2. \E f \in [1 .. n -> S] : IsInjective(f)
  BY <1>1 DEF ExistsBijection, Bijection, Injection, IsInjective
<1>3. s \in [1 .. n -> S] /\ IsInjective(s)
  BY <1>2 DEF SetToSeq
<1> HIDE DEF s
<1>4. s \in Seq(S) /\ DOMAIN s = 1 .. n
  BY <1>1, <1>3
<1>5. s \in Injection(1 .. n, S)
  BY <1>3, <1>4 DEF Injection, IsInjective
<1>6. IsFiniteSet(1 .. n) /\ Cardinality(1 .. n) = n
  BY <1>1, FS_Interval
<1>7. s \in Surjection(1 .. n, S)
  BY <1>5, <1>6, FS_Injection
<1>8. ToSet(s) = S
  BY <1>3, <1>4, <1>7 DEF Surjection, ToSet
<1>9. QED
  BY <1>4, <1>8 DEF s

LEMMA InSequence ==
  ASSUME NEW K, NEW s \in Seq(K), NEW k
  PROVE  k \in ToSet(s) <=> \E i \in 1 .. Len(s) : s[i] = k
<1>1. DOMAIN s = 1 .. Len(s)
  OBVIOUS
<1>2. QED
  BY <1>1 DEF ToSet

LEMMA ConcatSet ==
  ASSUME NEW K, NEW s \in Seq(K), NEW t \in Seq(K)
  PROVE  s \o t \in Seq(K) /\ ToSet(s \o t) = ToSet(s) \cup ToSet(t)
<1>1. s \o t \in Seq(K) /\ Len(s \o t) = Len(s) + Len(t)
  OBVIOUS
<1>2. ASSUME NEW i \in 1 .. Len(s \o t)
      PROVE  (s \o t)[i] \in ToSet(s) \cup ToSet(t)
  <2>1. CASE i \in 1 .. Len(s)
    BY <2>1 DEF ToSet
  <2>2. CASE i \notin 1 .. Len(s)
    <3>1. i - Len(s) \in 1 .. Len(t) /\ (s \o t)[i] = t[i - Len(s)]
      BY <1>1, <2>2
    <3>2. QED
      BY <3>1 DEF ToSet
  <2>3. QED
    BY <2>1, <2>2
<1>3. ASSUME NEW i \in 1 .. Len(s) PROVE s[i] \in ToSet(s \o t)
  <2>1. i \in 1 .. Len(s \o t) /\ (s \o t)[i] = s[i]
    BY <1>1
  <2>2. QED
    BY <1>1, <2>1 DEF ToSet
<1>4. ASSUME NEW i \in 1 .. Len(t) PROVE t[i] \in ToSet(s \o t)
  <2>1. i + Len(s) \in 1 .. Len(s \o t) /\ (s \o t)[i + Len(s)] = t[i]
    BY <1>1
  <2>2. QED
    BY <1>1, <2>1 DEF ToSet
<1>5. \A k : k \in ToSet(s \o t) <=> k \in ToSet(s) \cup ToSet(t)
  BY <1>1, <1>2, <1>3, <1>4, InSequence
<1>6. QED
  BY <1>1, <1>5

LEMMA TailSet ==
  ASSUME NEW K, NEW s \in Seq(K), s # <<>>
  PROVE  /\ Head(s) \in K /\ Head(s) \in ToSet(s) /\ Tail(s) \in Seq(K)
         /\ ToSet(s) = {Head(s)} \cup ToSet(Tail(s))
<1>1. /\ Len(s) > 0 /\ Head(s) = s[1] /\ Tail(s) \in Seq(K) /\ Len(Tail(s)) = Len(s) - 1
      /\ \A i \in 1 .. Len(s) - 1 : Tail(s)[i] = s[i + 1]
  OBVIOUS
<1>2. ASSUME NEW i \in 1 .. Len(s) PROVE s[i] \in {Head(s)} \cup ToSet(Tail(s))
  <2>1. CASE i = 1
    BY <1>1, <2>1
  <2>2. CASE i # 1
    <3>1. i - 1 \in 1 .. Len(Tail(s)) /\ Tail(s)[i - 1] = s[i]
      BY <1>1, <2>2
    <3>2. QED
      BY <1>1, <3>1, InSequence
  <2>3. QED
    BY <2>1, <2>2
<1>3. ASSUME NEW i \in 1 .. Len(Tail(s)) PROVE Tail(s)[i] \in ToSet(s)
  BY <1>1, InSequence
<1>4. Head(s) \in K /\ Head(s) \in ToSet(s)
  BY <1>1, InSequence
<1>5. ToSet(s) \subseteq {Head(s)} \cup ToSet(Tail(s))
  BY <1>2, InSequence
<1>6. ASSUME NEW k \in ToSet(Tail(s)) PROVE k \in ToSet(s)
  <2>1. PICK i \in 1 .. Len(Tail(s)) : Tail(s)[i] = k
    BY <1>1, InSequence
  <2>2. QED
    BY <1>3, <2>1
<1>7. QED
  BY <1>1, <1>4, <1>5, <1>6

(* Whoever asks for an add-on asks for its versions afterwards. *)
Ordered(s) ==
  \A i \in 1 .. Len(s) : s[i].call = "describe-addon" =>
    \E j \in 1 .. Len(s) : i < j /\ s[j] = Key("describe-addon-versions", s[i].item)

LEMMA OrderedTail ==
  ASSUME NEW K, NEW s \in Seq(K), s # <<>>, Ordered(s)
  PROVE  /\ Ordered(Tail(s))
         /\ Head(s).call = "describe-addon" =>
              Key("describe-addon-versions", Head(s).item) \in ToSet(Tail(s))
<1>1. /\ Len(s) > 0 /\ Head(s) = s[1] /\ Tail(s) \in Seq(K) /\ Len(Tail(s)) = Len(s) - 1
      /\ \A i \in 1 .. Len(s) - 1 : Tail(s)[i] = s[i + 1]
  OBVIOUS
<1>2. ASSUME NEW i \in 1 .. Len(s), s[i].call = "describe-addon"
      PROVE  \E j \in 1 .. Len(s) - 1 :
               i - 1 < j /\ Tail(s)[j] = Key("describe-addon-versions", s[i].item)
  <2>1. PICK j \in 1 .. Len(s) : i < j /\ s[j] = Key("describe-addon-versions", s[i].item)
    BY <1>2 DEF Ordered
  <2>2. j - 1 \in 1 .. Len(s) - 1 /\ i - 1 < j - 1 /\ Tail(s)[j - 1] = s[j]
    BY <1>1, <2>1
  <2>3. QED
    BY <2>1, <2>2
<1>3. Ordered(Tail(s))
  <2> SUFFICES ASSUME NEW i \in 1 .. Len(Tail(s)), Tail(s)[i].call = "describe-addon"
               PROVE  \E j \in 1 .. Len(Tail(s)) :
                        i < j /\ Tail(s)[j] = Key("describe-addon-versions", Tail(s)[i].item)
    BY DEF Ordered
  <2>1. i + 1 \in 1 .. Len(s) /\ Tail(s)[i] = s[i + 1] /\ (i + 1) - 1 = i
    BY <1>1
  <2>2. QED
    BY <1>1, <1>2, <2>1
<1>4. ASSUME Head(s).call = "describe-addon"
      PROVE  Key("describe-addon-versions", Head(s).item) \in ToSet(Tail(s))
  <2>1. 1 \in 1 .. Len(s) /\ s[1].call = "describe-addon"
    BY <1>1, <1>4
  <2>2. PICK j \in 1 .. Len(s) - 1 : Tail(s)[j] = Key("describe-addon-versions", s[1].item)
    BY <1>2, <2>1
  <2>3. QED
    BY <1>1, <2>2, InSequence
<1>5. QED
  BY <1>3, <1>4

LEMMA OrderedConcat ==
  ASSUME NEW K, NEW s \in Seq(K), NEW t \in Seq(K), Ordered(s), Ordered(t)
  PROVE  Ordered(s \o t)
<1>1. Len(s \o t) = Len(s) + Len(t) /\ Len(s) \in Nat /\ Len(t) \in Nat
  OBVIOUS
<1>2. \A i \in 1 .. Len(s) : i \in 1 .. Len(s \o t) /\ (s \o t)[i] = s[i]
  BY <1>1
<1>3. \A i \in 1 .. Len(t) : i + Len(s) \in 1 .. Len(s \o t) /\ (s \o t)[i + Len(s)] = t[i]
  BY <1>1
<1> SUFFICES ASSUME NEW i \in 1 .. Len(s \o t), (s \o t)[i].call = "describe-addon"
             PROVE  \E j \in 1 .. Len(s \o t) :
                      i < j /\ (s \o t)[j] = Key("describe-addon-versions", (s \o t)[i].item)
  BY DEF Ordered
<1>4. CASE i \in 1 .. Len(s)
  <2>1. PICK j \in 1 .. Len(s) : i < j /\ s[j] = Key("describe-addon-versions", s[i].item)
    BY <1>2, <1>4 DEF Ordered
  <2>2. QED
    BY <1>2, <1>4, <2>1
<1>5. CASE i \notin 1 .. Len(s)
  <2> DEFINE k == i - Len(s)
  <2>1. k \in 1 .. Len(t) /\ k + Len(s) = i
    BY <1>1, <1>5
  <2>2. t[k] = (s \o t)[i]
    BY <1>3, <2>1
  <2> HIDE DEF k
  <2>3. PICK j \in 1 .. Len(t) : k < j /\ t[j] = Key("describe-addon-versions", t[k].item)
    BY <2>1, <2>2 DEF Ordered
  <2>4. j + Len(s) \in 1 .. Len(s \o t) /\ (s \o t)[j + Len(s)] = t[j] /\ i < j + Len(s)
    BY <1>1, <1>3, <2>1, <2>3
  <2>5. QED
    BY <2>2, <2>3, <2>4
<1>6. QED
  BY <1>4, <1>5
-----------------------------------------------------------------------------
(* The calls that a collection may make. *)
Items ==
  {""} \cup {i.id : i \in account.insights} \cup {a.name : a \in account.addons}
    \cup {g.name : g \in account.nodegroups} \cup account.groups \cup account.vpc
CallNames ==
  {"describe-cluster", "list-insights", "list-insights-fallback", "describe-insight",
   "list-addons", "describe-addon", "describe-addon-versions", "list-nodegroups",
   "describe-nodegroup", "describe-subnets", "describe-security-group", "describe-vpc"}
Questions == [call : CallNames, item : Items]

LEMMA IsQuestion ==
  ASSUME NEW call \in CallNames, NEW item \in Items
  PROVE  Key(call, item) \in Questions
BY DEF Questions, Key

LEMMA NotAskedIsOrdered ==
  ASSUME NEW K, NEW s \in Seq(K), \A k \in ToSet(s) : k.call # "describe-addon"
  PROVE  Ordered(s)
BY InSequence DEF Ordered

LEMMA CallsAre ==
  ASSUME NEW call \in CallNames, NEW items \in SUBSET Items, IsFiniteSet(items)
  PROVE  /\ Calls(call, items) \in Seq(Questions)
         /\ ToSet(Calls(call, items)) = {Key(call, i) : i \in items}
         /\ call # "describe-addon" => Ordered(Calls(call, items))
<1> DEFINE keys == {Key(call, i) : i \in items}
           ask == [i \in items |-> Key(call, i)]
<1>1. ask \in Surjection(items, keys)
  BY DEF Surjection
<1>2. IsFiniteSet(keys)
  BY <1>1, FS_Surjection
<1>3. keys \subseteq Questions /\ \A k \in keys : k.call = call
  BY DEF Questions, Key
<1> HIDE DEF keys
<1>4. SetToSeq(keys) \in Seq(keys) /\ ToSet(SetToSeq(keys)) = keys
  BY <1>2, SetToSeqIs
<1>5. SetToSeq(keys) \in Seq(Questions)
  BY <1>3, <1>4
<1>6. call # "describe-addon" => Ordered(SetToSeq(keys))
  BY <1>3, <1>4, NotAskedIsOrdered
<1>7. QED
  BY <1>4, <1>5, <1>6 DEF Calls, keys

(* What AWS lists of the account: the first pages. *)
ListedAddons == FirstPage(account.addons)
ListedGroups == FirstPage(account.nodegroups)

AddonQuestions ==
  {Key("describe-addon", a.name) : a \in ListedAddons}
    \cup {Key("describe-addon-versions", a.name) : a \in ListedAddons}

LEMMA AddonCallsAre ==
  ASSUME IsFiniteSet(account.addons)
  PROVE  /\ AddonCalls \in Seq(Questions) /\ ToSet(AddonCalls) = AddonQuestions
         /\ Ordered(AddonCalls)
<1> DEFINE N == {a.name : a \in ListedAddons}
           names == SetToSeq(N)
           n == Len(names)
           s == AddonCalls
           nameOf == [a \in ListedAddons |-> a.name]
<1>1. nameOf \in Surjection(ListedAddons, N)
  BY DEF Surjection
<1>2. IsFiniteSet(N)
  <2>1. IsFiniteSet(ListedAddons)
    BY FS_Subset DEF ListedAddons, FirstPage
  <2>2. QED
    BY <1>1, <2>1, FS_Surjection
<1>3. N \subseteq Items
  BY DEF Items, ListedAddons, FirstPage
<1>4. AddonQuestions = {Key("describe-addon", m) : m \in N}
                         \cup {Key("describe-addon-versions", m) : m \in N}
  BY DEF AddonQuestions
<1>5. s = [k \in 1 .. 2 * n |->
             Key(IF k % 2 = 1 THEN "describe-addon" ELSE "describe-addon-versions",
                 names[(k + 1) \div 2])]
  BY DEF AddonCalls, ListedAddons
<1> HIDE DEF N, s
<1>6. names \in Seq(N) /\ ToSet(names) = N
  BY <1>2, SetToSeqIs
<1> HIDE DEF names
<1>7. n \in Nat /\ \A i \in 1 .. n : names[i] \in N
  BY <1>6
<1> HIDE DEF n
<1>8. ASSUME NEW i \in 1 .. n
      PROVE  /\ 2 * i - 1 \in 1 .. 2 * n /\ s[2 * i - 1] = Key("describe-addon", names[i])
             /\ 2 * i \in 1 .. 2 * n /\ s[2 * i] = Key("describe-addon-versions", names[i])
  <2>1. /\ 2 * i - 1 \in 1 .. 2 * n /\ (2 * i - 1) % 2 = 1 /\ ((2 * i - 1) + 1) \div 2 = i
        /\ 2 * i \in 1 .. 2 * n /\ (2 * i) % 2 # 1 /\ (2 * i + 1) \div 2 = i
    BY <1>7
  <2>2. QED
    BY <1>5, <2>1
<1>9. ASSUME NEW k \in 1 .. 2 * n
      PROVE  \E i \in 1 .. n : k = 2 * i - 1 \/ k = 2 * i
  <2> DEFINE i == (k + 1) \div 2
  <2>1. i \in 1 .. n /\ (k = 2 * i - 1 \/ k = 2 * i)
    BY <1>7
  <2> HIDE DEF i
  <2>2. QED
    BY <2>1
<1>10. \A m \in N : m \in Items
  BY <1>3
<1>11. ASSUME NEW k \in 1 .. 2 * n PROVE s[k] \in Questions /\ s[k] \in AddonQuestions
  <2>1. PICK i \in 1 .. n : k = 2 * i - 1 \/ k = 2 * i
    BY <1>9
  <2>2. names[i] \in N /\ names[i] \in Items
    BY <1>7, <1>10
  <2>3. s[k] = Key("describe-addon", names[i]) \/ s[k] = Key("describe-addon-versions", names[i])
    <3>1. s[2 * i - 1] = Key("describe-addon", names[i]) /\ s[2 * i] = Key("describe-addon-versions", names[i])
      BY <1>8
    <3>2. QED
      BY <2>1, <3>1
  <2>4. /\ Key("describe-addon", names[i]) \in Questions
        /\ Key("describe-addon-versions", names[i]) \in Questions
    BY <2>2, IsQuestion DEF CallNames
  <2>5. QED
    BY <1>4, <2>2, <2>3, <2>4
<1>12. s \in Seq(Questions) /\ Len(s) = 2 * n
  <2>1. s \in [1 .. 2 * n -> Questions] /\ 2 * n \in Nat
    BY <1>5, <1>7, <1>11
  <2> HIDE DEF n
  <2>2. QED
    BY <2>1
<1>13. ASSUME NEW m \in N
       PROVE  Key("describe-addon", m) \in ToSet(s) /\ Key("describe-addon-versions", m) \in ToSet(s)
  <2>1. PICK i \in 1 .. n : names[i] = m
    BY <1>6, InSequence DEF n
  <2>2. QED
    BY <1>8, <1>12, <2>1, InSequence
<1>14. ToSet(s) = AddonQuestions
  <2>1. ToSet(s) \subseteq AddonQuestions
    BY <1>11, <1>12, InSequence
  <2>2. AddonQuestions \subseteq ToSet(s)
    BY <1>4, <1>13
  <2>3. QED
    BY <2>1, <2>2
<1>15. Ordered(s)
  <2> SUFFICES ASSUME NEW k \in 1 .. 2 * n, s[k].call = "describe-addon"
               PROVE  \E j \in 1 .. 2 * n : k < j /\ s[j] = Key("describe-addon-versions", s[k].item)
    BY <1>12 DEF Ordered
  <2>1. PICK i \in 1 .. n : k = 2 * i - 1 \/ k = 2 * i
    BY <1>9
  <2>2. /\ s[2 * i - 1] = Key("describe-addon", names[i])
        /\ s[2 * i] = Key("describe-addon-versions", names[i]) /\ 2 * i \in 1 .. 2 * n
    BY <1>8
  <2>3. ASSUME k = 2 * i PROVE FALSE
    <3>1. s[k] = Key("describe-addon-versions", names[i])
      BY <2>2, <2>3
    <3>2. QED
      BY <3>1 DEF Key
  <2>4. k = 2 * i - 1
    BY <2>1, <2>3
  <2>5. s[k] = Key("describe-addon", names[i])
    BY <2>2, <2>4
  <2>6. s[k].item = names[i]
    BY <2>5 DEF Key
  <2>7. k < 2 * i
    BY <2>4
  <2>8. QED
    BY <2>2, <2>6, <2>7
<1>16. QED
  BY <1>12, <1>14, <1>15 DEF s
-----------------------------------------------------------------------------
(* What the calls still to make will find out is not lost: of each part of *)
(* the account the snapshot knows all that AWS lists on the first page, or *)
(* a call that leads to the rest is still to be made, or a key says that   *)
(* one failed.                                                             *)
Pending == ToSet(todo)
Asked(call, item) == Key(call, item) \in Pending
Failed(calls) == \E e \in snap.errors : e.call \in calls

TodoOK ==
  /\ account \in Accounts
  /\ todo \in Seq(Questions) /\ Ordered(todo)
  /\ \A k \in Pending : k.call \in {"describe-addon", "describe-addon-versions"} =>
       \E a \in account.addons : a.name = k.item

SnapOK ==
  /\ snap = [insights |-> snap.insights, addons |-> snap.addons, nodegroups |-> snap.nodegroups,
             subnets |-> snap.subnets, issues |-> snap.issues, errors |-> snap.errors]

InsightsKnown ==
  \/ Failed({"list-insights", "describe-insight"})
  \/ Asked("list-insights", "") \/ Asked("list-insights-fallback", "")
  \/ \A i \in account.insights : i.version = target =>
       i \in snap.insights \/ Asked("describe-insight", i.id)

AddonRecord(a, compatible) == [name |-> a.name, version |-> a.version, compatible |-> compatible]
AddonsKnown ==
  \/ Failed({"list-addons", "describe-addon", "describe-addon-versions"})
  \/ Asked("list-addons", "")
  \/ \A a \in ListedAddons :
       \/ Asked("describe-addon", a.name)
       \/ AddonRecord(a, {}) \in snap.addons /\ Asked("describe-addon-versions", a.name)
       \/ AddonRecord(a, a.compatible[target]) \in snap.addons

NodegroupsKnown ==
  \/ Failed({"list-nodegroups", "describe-nodegroup"})
  \/ Asked("list-nodegroups", "")
  \/ \A g \in ListedGroups : g \in snap.nodegroups \/ Asked("describe-nodegroup", g.name)

SubnetsKnown ==
  \/ Failed({"describe-cluster", "describe-subnets"})
  \/ Asked("describe-cluster", "") \/ Asked("describe-subnets", "")
  \/ {[id |-> s, free |-> account.free[s]] : s \in DOMAIN account.free} \subseteq snap.subnets

IssuesKnown ==
  \/ Failed({"describe-cluster", "describe-security-group", "describe-vpc"})
  \/ Asked("describe-cluster", "")
  \/ /\ \A g \in account.groups \cap account.missing :
          g \in snap.issues \/ Asked("describe-security-group", g)
     /\ \A v \in account.vpc \cap account.missing : v \in snap.issues \/ Asked("describe-vpc", v)

(* What the snapshot says of an add-on is so, but for the versions that    *)
(* could not be had, or have not been asked for yet.                       *)
AddonsReal ==
  \A r \in snap.addons :
    /\ r = [name |-> r.name, version |-> r.version, compatible |-> r.compatible]
    /\ \/ r.version = NoVersion
       \/ \E a \in account.addons :
            /\ a.name = r.name /\ a.version = r.version
            /\ \/ r.compatible = a.compatible[target]
               \/ Asked("describe-addon-versions", a.name)
               \/ Key("describe-addon-versions", a.name) \in snap.errors

AwsInv ==
  /\ TodoOK /\ SnapOK
  /\ InsightsKnown /\ AddonsKnown /\ NodegroupsKnown /\ SubnetsKnown /\ IssuesKnown
  /\ AddonsReal

LEMMA PartsAreFinite ==
  ASSUME TodoOK
  PROVE  /\ IsFiniteSet(account.insights) /\ IsFiniteSet(account.addons)
         /\ IsFiniteSet(account.nodegroups)
         /\ IsFiniteSet(account.groups) /\ IsFiniteSet(account.vpc)
         /\ \A a, b \in account.addons : a.name = b.name => a = b
BY AccountsAssumption DEF TodoOK

LEMMA NamesAreFinite ==
  ASSUME TodoOK
  PROVE  /\ \A S \in SUBSET account.insights :
              IsFiniteSet({i.id : i \in S}) /\ {i.id : i \in S} \subseteq Items
         /\ IsFiniteSet({g.name : g \in ListedGroups})
         /\ {g.name : g \in ListedGroups} \subseteq Items
<1>1. ASSUME NEW S \in SUBSET account.insights
      PROVE  IsFiniteSet({i.id : i \in S}) /\ {i.id : i \in S} \subseteq Items
  <2> DEFINE id == [i \in S |-> i.id]
  <2>1. id \in Surjection(S, {i.id : i \in S})
    BY DEF Surjection
  <2>2. IsFiniteSet(S)
    BY PartsAreFinite, FS_Subset
  <2>3. IsFiniteSet({i.id : i \in S})
    BY <2>1, <2>2, FS_Surjection
  <2>4. QED
    BY <2>3 DEF Items
<1>2. IsFiniteSet({g.name : g \in ListedGroups})
  <2> DEFINE name == [g \in ListedGroups |-> g.name]
  <2>1. name \in Surjection(ListedGroups, {g.name : g \in ListedGroups})
    BY DEF Surjection
  <2>2. IsFiniteSet(ListedGroups)
    BY PartsAreFinite, FS_Subset DEF ListedGroups, FirstPage
  <2>3. QED
    BY <2>1, <2>2, FS_Surjection
<1>3. {g.name : g \in ListedGroups} \subseteq Items
  BY DEF Items, ListedGroups, FirstPage
<1>4. QED
  BY <1>1, <1>2, <1>3

(* A call is made: it is the first, and what it leads to comes before or   *)
(* after the others.                                                       *)
Leads(before, after) ==
  /\ before \in Seq(Questions) /\ after \in Seq(Questions) /\ Ordered(before) /\ Ordered(after)
  /\ \A k \in ToSet(before) \cup ToSet(after) :
       k.call \in {"describe-addon", "describe-addon-versions"} =>
         \E a \in account.addons : a.name = k.item

LEMMA CallReplaced ==
  ASSUME TodoOK, Collecting, NEW before, NEW after, Leads(before, after),
         todo' = before \o (Tail(todo) \o after), account' = account
  PROVE  /\ TodoOK'
         /\ Pending \subseteq {Now} \cup Pending'
         /\ ToSet(before) \subseteq Pending' /\ ToSet(after) \subseteq Pending'
         /\ Now \in Pending
         /\ Now.call = "describe-addon" => Key("describe-addon-versions", Now.item) \in Pending'
<1>1. todo \in Seq(Questions) /\ todo # <<>> /\ Ordered(todo)
  BY DEF TodoOK, Collecting
<1>2. /\ Tail(todo) \in Seq(Questions) /\ Ordered(Tail(todo)) /\ Now \in Pending
      /\ Pending = {Now} \cup ToSet(Tail(todo))
      /\ Now.call = "describe-addon" => Key("describe-addon-versions", Now.item) \in ToSet(Tail(todo))
  BY <1>1, TailSet, OrderedTail DEF Pending, Now
<1>3. /\ Tail(todo) \o after \in Seq(Questions) /\ Ordered(Tail(todo) \o after)
      /\ ToSet(Tail(todo) \o after) = ToSet(Tail(todo)) \cup ToSet(after)
  BY <1>2, ConcatSet, OrderedConcat DEF Leads
<1>4. /\ todo' \in Seq(Questions) /\ Ordered(todo')
      /\ Pending' = ToSet(before) \cup (ToSet(Tail(todo)) \cup ToSet(after))
  <2> DEFINE rest == Tail(todo) \o after
  <2>1. todo' = before \o rest /\ before \in Seq(Questions) /\ Ordered(before)
    BY DEF Leads
  <2>2. rest \in Seq(Questions) /\ Ordered(rest) /\ ToSet(rest) = ToSet(Tail(todo)) \cup ToSet(after)
    BY <1>3
  <2> HIDE DEF rest
  <2>3. before \o rest \in Seq(Questions) /\ ToSet(before \o rest) = ToSet(before) \cup ToSet(rest)
    BY <2>1, <2>2, ConcatSet
  <2>4. Ordered(before \o rest)
    BY <2>1, <2>2, OrderedConcat
  <2>5. Pending' = ToSet(todo')
    BY DEF Pending
  <2>6. QED
    BY <2>1, <2>2, <2>3, <2>4, <2>5
<1>5. Questions' = Questions
  BY DEF Questions, Items
<1>6. TodoOK'
  BY <1>2, <1>4, <1>5 DEF TodoOK, Leads
<1>7. QED
  BY <1>2, <1>4, <1>6

LEMMA EmptyCalls ==
  ASSUME NEW K, NEW s \in Seq(K)
  PROVE  /\ <<>> \o s = s /\ s \o <<>> = s
         /\ <<>> \in Seq(K) /\ ToSet(<<>>) = {} /\ Ordered(<<>>)
BY DEF ToSet, Ordered

NamesAddons(s) ==
  \A k \in ToSet(s) : k.call \in {"describe-addon", "describe-addon-versions"} =>
    \E a \in account.addons : a.name = k.item

Replaced(before, after) ==
  /\ TodoOK'
  /\ Pending \subseteq {Now} \cup Pending'
  /\ ToSet(before) \subseteq Pending' /\ ToSet(after) \subseteq Pending'
  /\ Now \in Pending
  /\ Now.call = "describe-addon" => Key("describe-addon-versions", Now.item) \in Pending'

LEMMA CallIsReplaced ==
  ASSUME TodoOK, Collecting, account' = account
  PROVE  /\ todo' = Tail(todo) => Replaced(<<>>, <<>>)
         /\ \A before \in Seq(Questions) :
              Ordered(before) /\ NamesAddons(before) /\ todo' = before \o Tail(todo)
                => Replaced(before, <<>>)
         /\ \A after \in Seq(Questions) :
              Ordered(after) /\ NamesAddons(after) /\ todo' = Tail(todo) \o after
                => Replaced(<<>>, after)
<1>1. todo \in Seq(Questions) /\ todo # <<>>
  BY DEF TodoOK, Collecting
<1>2. Tail(todo) \in Seq(Questions)
  BY <1>1, TailSet
<1>3. /\ <<>> \in Seq(Questions) /\ ToSet(<<>>) = {} /\ Ordered(<<>>)
      /\ Tail(todo) \o <<>> = Tail(todo)
  BY <1>2, EmptyCalls
<1>4. ASSUME NEW before \in Seq(Questions), NEW after \in Seq(Questions),
             Ordered(before), Ordered(after), NamesAddons(before), NamesAddons(after),
             todo' = before \o (Tail(todo) \o after)
      PROVE  Replaced(before, after)
  <2>1. Leads(before, after)
    BY <1>4 DEF Leads, NamesAddons
  <2>2. QED
    BY <1>4, <2>1, CallReplaced DEF Replaced
<1>5. NamesAddons(<<>>)
  BY <1>3 DEF NamesAddons
<1>6. todo' = Tail(todo) => Replaced(<<>>, <<>>)
  <2>1. <<>> \o Tail(todo) = Tail(todo)
    BY <1>2, EmptyCalls
  <2>2. QED
    BY <1>3, <1>4, <1>5, <2>1
<1>7. ASSUME NEW before \in Seq(Questions), Ordered(before), NamesAddons(before),
             todo' = before \o Tail(todo)
      PROVE  Replaced(before, <<>>)
  BY <1>3, <1>4, <1>5, <1>7
<1>8. ASSUME NEW after \in Seq(Questions), Ordered(after), NamesAddons(after),
             todo' = Tail(todo) \o after
      PROVE  Replaced(<<>>, after)
  <2>1. Tail(todo) \o after \in Seq(Questions)
    BY <1>2, ConcatSet
  <2>2. <<>> \o (Tail(todo) \o after) = Tail(todo) \o after
    BY <2>1, EmptyCalls
  <2>3. QED
    BY <1>3, <1>4, <1>5, <1>8, <2>2
<1>9. QED
  BY <1>6, <1>7, <1>8

LEMMA OneCall ==
  ASSUME NEW K, NEW k \in K
  PROVE  <<k>> \in Seq(K) /\ ToSet(<<k>>) = {k}
<1>1. <<k>> \in Seq(K) /\ Len(<<k>>) = 1 /\ <<k>>[1] = k
  OBVIOUS
<1>2. ASSUME NEW j PROVE j \in ToSet(<<k>>) <=> j = k
  <2>1. j \in ToSet(<<k>>) <=> \E i \in 1 .. 1 : <<k>>[i] = j
    BY <1>1, InSequence
  <2>2. \A i \in 1 .. 1 : i = 1
    OBVIOUS
  <2>3. QED
    BY <1>1, <2>1, <2>2
<1>3. QED
  BY <1>1, <1>2

LEMMA KeyIs ==
  ASSUME NEW call, NEW item
  PROVE  Key(call, item).call = call /\ Key(call, item).item = item
BY DEF Key

(* The ids DescribeCluster returns lead to these. *)
LEMMA NetworkCallsAre ==
  ASSUME TodoOK
  PROVE  /\ NetworkCalls \in Seq(Questions) /\ Ordered(NetworkCalls) /\ NamesAddons(NetworkCalls)
         /\ DOMAIN account.free # {} => Key("describe-subnets", "") \in ToSet(NetworkCalls)
         /\ \A g \in account.groups : Key("describe-security-group", g) \in ToSet(NetworkCalls)
         /\ \A v \in account.vpc : Key("describe-vpc", v) \in ToSet(NetworkCalls)
<1> DEFINE one == IF DOMAIN account.free = {} THEN <<>> ELSE <<Key("describe-subnets", "")>>
           two == Calls("describe-security-group", account.groups)
           three == Calls("describe-vpc", account.vpc)
<1>1. Key("describe-subnets", "") \in Questions
  BY IsQuestion DEF CallNames, Items
<1>2. <<Key("describe-subnets", "")>> \in Seq(Questions)
      /\ ToSet(<<Key("describe-subnets", "")>>) = {Key("describe-subnets", "")}
  BY <1>1, OneCall
<1>4. /\ one \in Seq(Questions) /\ ToSet(one) \subseteq {Key("describe-subnets", "")}
      /\ DOMAIN account.free # {} => Key("describe-subnets", "") \in ToSet(one)
  BY <1>2, EmptyCalls
<1>5. account.groups \subseteq Items /\ account.vpc \subseteq Items
  BY DEF Items
<1>6. /\ two \in Seq(Questions)
      /\ ToSet(two) = {Key("describe-security-group", g) : g \in account.groups}
      /\ three \in Seq(Questions) /\ ToSet(three) = {Key("describe-vpc", v) : v \in account.vpc}
  BY <1>5, PartsAreFinite, CallsAre DEF CallNames
<1>7. NetworkCalls = one \o two \o three
  BY DEF NetworkCalls
<1> HIDE DEF one, two, three
<1> DEFINE half == one \o two
<1>8. half \in Seq(Questions) /\ ToSet(half) = ToSet(one) \cup ToSet(two)
  BY <1>4, <1>6, ConcatSet
<1> HIDE DEF half
<1>9. half \o three \in Seq(Questions) /\ ToSet(half \o three) = ToSet(half) \cup ToSet(three)
  BY <1>6, <1>8, ConcatSet
<1>10. /\ NetworkCalls \in Seq(Questions)
       /\ ToSet(NetworkCalls) = ToSet(one) \cup ToSet(two) \cup ToSet(three)
  BY <1>7, <1>8, <1>9 DEF half
<1>11. \A k \in ToSet(NetworkCalls) : k.call \notin {"describe-addon", "describe-addon-versions"}
  <2> SUFFICES ASSUME NEW k \in ToSet(NetworkCalls)
               PROVE  k.call \in {"describe-subnets", "describe-security-group", "describe-vpc"}
    OBVIOUS
  <2>1. CASE k \in ToSet(one)
    <3>1. k = Key("describe-subnets", "")
      BY <1>4, <2>1
    <3>2. QED
      BY <3>1, KeyIs
  <2>2. CASE k \in ToSet(two)
    BY <1>6, <2>2, KeyIs
  <2>3. CASE k \in ToSet(three)
    BY <1>6, <2>3, KeyIs
  <2>4. k \in ToSet(one) \cup ToSet(two) \cup ToSet(three)
    BY <1>10, Zenon
  <2>5. QED
    BY <2>1, <2>2, <2>3, <2>4
<1>12. Ordered(NetworkCalls)
  BY <1>10, <1>11, NotAskedIsOrdered
<1>13. QED
  BY <1>4, <1>6, <1>10, <1>11, <1>12 DEF NamesAddons
-----------------------------------------------------------------------------
SnapshotOf(i, a, n, s, v, e) ==
  [insights |-> i, addons |-> a, nodegroups |-> n, subnets |-> s, issues |-> v, errors |-> e]

LEMMA SnapshotFields ==
  ASSUME NEW i, NEW a, NEW n, NEW s, NEW v, NEW e
  PROVE  LET t == SnapshotOf(i, a, n, s, v, e)
         IN  /\ t.insights = i /\ t.addons = a /\ t.nodegroups = n
             /\ t.subnets = s /\ t.issues = v /\ t.errors = e
BY DEF SnapshotOf

LEMMA SnapExcept ==
  ASSUME SnapOK
  PROVE  /\ snap = SnapshotOf(snap.insights, snap.addons, snap.nodegroups, snap.subnets,
                              snap.issues, snap.errors)
         /\ \A x : [snap EXCEPT !.insights = x] =
                     SnapshotOf(x, snap.addons, snap.nodegroups, snap.subnets, snap.issues, snap.errors)
         /\ \A x : [snap EXCEPT !.addons = x] =
                     SnapshotOf(snap.insights, x, snap.nodegroups, snap.subnets, snap.issues, snap.errors)
         /\ \A x : [snap EXCEPT !.nodegroups = x] =
                     SnapshotOf(snap.insights, snap.addons, x, snap.subnets, snap.issues, snap.errors)
         /\ \A x : [snap EXCEPT !.subnets = x] =
                     SnapshotOf(snap.insights, snap.addons, snap.nodegroups, x, snap.issues, snap.errors)
         /\ \A x : [snap EXCEPT !.issues = x] =
                     SnapshotOf(snap.insights, snap.addons, snap.nodegroups, snap.subnets, x, snap.errors)
         /\ \A x : [snap EXCEPT !.errors = x] =
                     SnapshotOf(snap.insights, snap.addons, snap.nodegroups, snap.subnets, snap.issues, x)
BY DEF SnapshotOf, SnapOK

AllSubnets == {[id |-> s, free |-> account.free[s]] : s \in DOMAIN account.free}

(* A snapshot that differs from the last one where it grew. *)
SnapGrew(i, a, n, v, e) ==
  /\ snap.insights \subseteq i /\ snap.nodegroups \subseteq n /\ snap.issues \subseteq v
  /\ snap.errors \subseteq e
  /\ Now.call \notin {"describe-addon", "describe-addon-versions"} => a = snap.addons

LEMMA SnapFrame ==
  ASSUME SnapOK, NEW i, NEW a, NEW n, NEW s \in {snap.subnets, AllSubnets}, NEW v, NEW e,
         SnapGrew(i, a, n, v, e), snap' = SnapshotOf(i, a, n, s, v, e)
  PROVE  /\ SnapOK'
         /\ snap.errors \subseteq snap'.errors
         /\ snap.insights \subseteq snap'.insights /\ snap.nodegroups \subseteq snap'.nodegroups
         /\ snap.issues \subseteq snap'.issues
         /\ snap'.subnets \in {snap.subnets, AllSubnets}
         /\ Now.call \notin {"describe-addon", "describe-addon-versions"} => snap'.addons = snap.addons
<1>1. /\ snap'.insights = i /\ snap'.addons = a /\ snap'.nodegroups = n
      /\ snap'.subnets = s /\ snap'.issues = v /\ snap'.errors = e
  BY SnapshotFields
<1>2. SnapOK'
  BY <1>1 DEF SnapOK, SnapshotOf
<1>3. QED
  BY <1>1, <1>2 DEF SnapGrew

TodoFrame ==
  /\ TodoOK' /\ account' = account /\ target' = target
  /\ Now \in Pending /\ Pending \subseteq {Now} \cup Pending'
  /\ Now.call = "describe-addon" => Key("describe-addon-versions", Now.item) \in Pending'

SnapFramed ==
  /\ SnapOK'
  /\ snap.errors \subseteq snap'.errors
  /\ snap.insights \subseteq snap'.insights /\ snap.nodegroups \subseteq snap'.nodegroups
  /\ snap.issues \subseteq snap'.issues
  /\ snap'.subnets \in {snap.subnets, AllSubnets}
  /\ Now.call \notin {"describe-addon", "describe-addon-versions"} => snap'.addons = snap.addons

(* What every call leaves as it is. *)
Frame == TodoFrame /\ SnapFramed

(* The snapshot keeps its form when it stays, or gains a key. *)
LEMMA SnapStays ==
  ASSUME SnapOK, snap' = snap
  PROVE  SnapFramed
BY DEF SnapFramed, SnapOK

LEMMA SnapGainsKey ==
  ASSUME SnapOK, NEW keys, snap' = Recorded(keys)
  PROVE  SnapFramed /\ keys \subseteq snap'.errors
<1>1. snap' = SnapshotOf(snap.insights, snap.addons, snap.nodegroups, snap.subnets, snap.issues,
                         snap.errors \cup keys)
  BY SnapExcept DEF Recorded
<1>2. SnapGrew(snap.insights, snap.addons, snap.nodegroups, snap.issues, snap.errors \cup keys)
  BY DEF SnapGrew
<1>3. SnapFramed
  BY <1>1, <1>2, SnapFrame DEF SnapFramed
<1>4. QED
  BY <1>1, <1>3, SnapshotFields

LEMMA ReturnedFrame ==
  ASSUME TodoOK, Collecting, Returned
  PROVE  TodoFrame
<1>1. Replaced(<<>>, <<>>)
  BY CallIsReplaced DEF Returned
<1>2. QED
  BY <1>1 DEF Returned, Replaced, TodoFrame

LEMMA DescribeClusterStep ==
  ASSUME TodoOK, SnapOK, DescribeCluster
  PROVE  /\ Frame
         /\ \/ Now \in snap'.errors
            \/ /\ DOMAIN account.free # {} => Key("describe-subnets", "") \in Pending'
               /\ \A g \in account.groups : Key("describe-security-group", g) \in Pending'
               /\ \A v \in account.vpc : Key("describe-vpc", v) \in Pending'
<1>1. Collecting /\ account' = account /\ target' = target
  BY DEF DescribeCluster, Calling
<1>2. CASE todo' = Tail(todo) \o NetworkCalls /\ UNCHANGED snap
  <2>1. Replaced(<<>>, NetworkCalls)
    BY <1>1, <1>2, NetworkCallsAre, CallIsReplaced
  <2>2. SnapFramed
    BY <1>2, SnapStays
  <2>3. TodoFrame /\ ToSet(NetworkCalls) \subseteq Pending'
    BY <1>1, <2>1 DEF Replaced, TodoFrame
  <2>4. QED
    BY <2>2, <2>3, NetworkCallsAre DEF Frame
<1>3. CASE todo' = Tail(todo) /\ snap' = Recorded({Now})
  <2>1. TodoFrame
    BY <1>1, <1>3, CallIsReplaced DEF Replaced, TodoFrame
  <2>2. SnapFramed /\ {Now} \subseteq snap'.errors
    BY <1>3, SnapGainsKey
  <2>3. QED
    BY <2>1, <2>2 DEF Frame
<1>4. QED
  BY <1>2, <1>3 DEF DescribeCluster

InsightsAsked ==
  \A i \in account.insights : i.version = target => Key("describe-insight", i.id) \in Pending'

LEMMA PageStep ==
  ASSUME TodoOK, Collecting, account' = account, target' = target, NEW page, Page(page)
  PROVE  TodoOK' /\ (Pending' = Pending \/ (TodoFrame /\ InsightsAsked))
<1>1. CASE listed \cup page = Relevant(Now.call)
  <2> DEFINE all == listed \cup page
             ids == {i.id : i \in all}
             calls == Calls("describe-insight", ids)
  <2>1. todo' = calls \o Tail(todo)
    BY <1>1 DEF Page
  <2>2. all \subseteq account.insights /\ {i \in account.insights : i.version = target} \subseteq all
    BY <1>1 DEF Relevant
  <2> HIDE DEF all
  <2>3. IsFiniteSet(ids) /\ ids \subseteq Items
    BY <2>2, NamesAreFinite
  <2> HIDE DEF ids
  <2>4. /\ calls \in Seq(Questions) /\ Ordered(calls)
        /\ ToSet(calls) = {Key("describe-insight", i) : i \in ids}
    BY <2>3, CallsAre DEF CallNames
  <2>5. NamesAddons(calls)
    BY <2>4, KeyIs DEF NamesAddons
  <2> HIDE DEF calls
  <2>6. Replaced(calls, <<>>)
    BY <2>1, <2>4, <2>5, CallIsReplaced
  <2>7. TodoFrame /\ ToSet(calls) \subseteq Pending'
    BY <2>6 DEF Replaced, TodoFrame
  <2>8. InsightsAsked
    BY <2>2, <2>4, <2>7 DEF InsightsAsked, ids
  <2>9. QED
    BY <2>7, <2>8 DEF TodoFrame
<1>2. CASE listed \cup page # Relevant(Now.call)
  <2>1. UNCHANGED todo
    BY <1>2 DEF Page
  <2>2. Pending' = Pending /\ Questions' = Questions
    BY <2>1 DEF Pending, Questions, Items
  <2>3. QED
    BY <2>1, <2>2 DEF TodoOK
<1>3. QED
  BY <1>1, <1>2

LEMMA NowIsPending ==
  ASSUME TodoOK, Collecting
  PROVE  Now \in Pending
BY TailSet DEF TodoOK, Collecting, Now, Pending

Listing == {"list-insights", "list-insights-fallback"}

(* After a page the listing goes on, or the details are asked for; after a *)
(* failure it is tried again without a version, or leaves a key.           *)
LEMMA ListStep ==
  ASSUME TodoOK, SnapOK, ListInsights \/ ListInsightsFallback
  PROVE  /\ Frame
         /\ \/ Pending' = Pending \/ InsightsAsked
            \/ Key("list-insights-fallback", "") \in Pending'
            \/ Key("list-insights", "") \in snap'.errors
<1>1. Collecting /\ Now.call \in Listing /\ account' = account /\ target' = target
  BY DEF ListInsights, ListInsightsFallback, Calling, Listing
<1>2. ASSUME NEW page, Page(page), snap' = snap
      PROVE  Frame /\ (Pending' = Pending \/ InsightsAsked)
  <2>1. TodoOK' /\ (Pending' = Pending \/ (TodoFrame /\ InsightsAsked))
    BY <1>1, <1>2, PageStep
  <2>2. SnapFramed
    BY <1>2, SnapStays
  <2>3. TodoFrame
    BY <1>1, <2>1, NowIsPending DEF TodoFrame, Listing
  <2>4. QED
    BY <2>1, <2>2, <2>3 DEF Frame
<1>3. CASE ListInsights
  <2>1. CASE todo' = <<Key("list-insights-fallback", "")>> \o Tail(todo)
    <3> DEFINE retry == <<Key("list-insights-fallback", "")>>
    <3>1. Key("list-insights-fallback", "") \in Questions
      BY IsQuestion DEF CallNames, Items
    <3>2. retry \in Seq(Questions) /\ ToSet(retry) = {Key("list-insights-fallback", "")}
      BY <3>1, OneCall
    <3> HIDE DEF retry
    <3>3. Ordered(retry) /\ NamesAddons(retry)
      <4>1. ASSUME NEW k \in ToSet(retry) PROVE k.call = "list-insights-fallback"
        <5>1. k = Key("list-insights-fallback", "")
          BY <3>2
        <5>2. QED
          BY <5>1, KeyIs
      <4>2. QED
        BY <3>2, <4>1, NotAskedIsOrdered DEF NamesAddons
    <3>4. Replaced(retry, <<>>)
      BY <1>1, <2>1, <3>2, <3>3, CallIsReplaced DEF retry
    <3>5. TodoFrame /\ Key("list-insights-fallback", "") \in Pending'
      BY <1>1, <3>2, <3>4 DEF Replaced, TodoFrame
    <3>6. SnapFramed
      BY <1>3, SnapStays DEF ListInsights
    <3>7. QED
      BY <3>5, <3>6 DEF Frame
  <2>2. CASE \E page \in Pages : Page(page)
    BY <1>2, <1>3, <2>2 DEF ListInsights
  <2>3. QED
    BY <1>3, <2>1, <2>2 DEF ListInsights
<1>4. CASE ListInsightsFallback
  <2>1. CASE todo' = Tail(todo) /\ snap' = Recorded({Key("list-insights", ""), Now})
    <3>1. TodoFrame
      BY <1>1, <2>1, CallIsReplaced DEF Replaced, TodoFrame
    <3>2. SnapFramed /\ {Key("list-insights", ""), Now} \subseteq snap'.errors
      BY <2>1, SnapGainsKey
    <3>3. QED
      BY <3>1, <3>2 DEF Frame
  <2>2. CASE snap' = snap /\ \E page \in Pages : Page(page)
    BY <1>2, <2>2
  <2>3. QED
    BY <1>4, <2>1, <2>2 DEF ListInsightsFallback
<1>5. QED
  BY <1>3, <1>4

LEMMA DescribeInsightStep ==
  ASSUME TodoOK, SnapOK, DescribeInsight
  PROVE  Frame /\ {i \in account.insights : i.id = Now.item} \subseteq snap'.insights
<1> DEFINE known == {i \in account.insights : i.id = Now.item}
<1>1. Collecting /\ Returned
  BY DEF DescribeInsight, Calling
<1>2. \E e : snap.errors \subseteq e
        /\ snap' = SnapshotOf(snap.insights \cup known, snap.addons, snap.nodegroups, snap.subnets,
                              snap.issues, e)
  <2> DEFINE kept == [snap EXCEPT !.insights = @ \cup known]
  <2>1. kept = SnapshotOf(snap.insights \cup known, snap.addons, snap.nodegroups, snap.subnets,
                          snap.issues, snap.errors)
    BY SnapExcept
  <2>2. snap' = kept \/ snap' = [kept EXCEPT !.errors = @ \cup {Now}]
    BY DEF DescribeInsight
  <2> HIDE DEF known, kept
  <2>3. [kept EXCEPT !.errors = @ \cup {Now}]
          = SnapshotOf(snap.insights \cup known, snap.addons, snap.nodegroups, snap.subnets,
                       snap.issues, snap.errors \cup {Now})
    BY <2>1 DEF SnapshotOf
  <2>4. QED
    BY <2>1, <2>2, <2>3
<1> HIDE DEF known
<1>3. PICK e : snap.errors \subseteq e
        /\ snap' = SnapshotOf(snap.insights \cup known, snap.addons, snap.nodegroups, snap.subnets,
                              snap.issues, e)
  BY <1>2
<1>4. SnapGrew(snap.insights \cup known, snap.addons, snap.nodegroups, snap.issues, e)
  BY <1>3 DEF SnapGrew
<1>5. SnapFramed
  BY <1>3, <1>4, SnapFrame DEF SnapFramed
<1>6. snap'.insights = snap.insights \cup known
  BY <1>3, SnapshotFields
<1>7. QED
  BY <1>1, <1>5, <1>6, ReturnedFrame DEF Frame, known

LEMMA ListAddonsStep ==
  ASSUME TodoOK, SnapOK, ListAddons
  PROVE  Frame /\ (Now \in snap'.errors \/ AddonQuestions \subseteq Pending')
<1>1. Collecting /\ account' = account /\ target' = target
  BY DEF ListAddons, Calling
<1>2. CASE todo' = AddonCalls \o Tail(todo) /\ UNCHANGED snap
  <2>1. /\ AddonCalls \in Seq(Questions) /\ Ordered(AddonCalls)
        /\ ToSet(AddonCalls) = AddonQuestions
    BY PartsAreFinite, AddonCallsAre
  <2>2. NamesAddons(AddonCalls)
    BY <2>1, KeyIs DEF NamesAddons, AddonQuestions, ListedAddons, FirstPage
  <2>3. Replaced(AddonCalls, <<>>)
    BY <1>1, <1>2, <2>1, <2>2, CallIsReplaced
  <2>4. SnapFramed
    BY <1>2, SnapStays
  <2>5. QED
    BY <1>1, <2>1, <2>3, <2>4 DEF Frame, Replaced, TodoFrame
<1>3. CASE todo' = Tail(todo) /\ snap' = Recorded({Now})
  <2>1. TodoFrame
    BY <1>1, <1>3, CallIsReplaced DEF Replaced, TodoFrame
  <2>2. SnapFramed /\ {Now} \subseteq snap'.errors
    BY <1>3, SnapGainsKey
  <2>3. QED
    BY <2>1, <2>2 DEF Frame
<1>4. QED
  BY <1>2, <1>3 DEF ListAddons

LEMMA ListNodegroupsStep ==
  ASSUME TodoOK, SnapOK, ListNodegroups
  PROVE  /\ Frame
         /\ Now \in snap'.errors
              \/ \A g \in ListedGroups : Key("describe-nodegroup", g.name) \in Pending'
<1> DEFINE names == {g.name : g \in ListedGroups}
           calls == Calls("describe-nodegroup", names)
<1>1. Collecting /\ account' = account /\ target' = target
  BY DEF ListNodegroups, Calling
<1>2. CASE todo' = calls \o Tail(todo) /\ UNCHANGED snap
  <2>1. IsFiniteSet(names) /\ names \subseteq Items /\ \A g \in ListedGroups : g.name \in names
    BY NamesAreFinite
  <2> HIDE DEF names
  <2>2. /\ calls \in Seq(Questions) /\ Ordered(calls)
        /\ ToSet(calls) = {Key("describe-nodegroup", m) : m \in names}
    BY <2>1, CallsAre DEF CallNames
  <2>3. NamesAddons(calls)
    BY <2>2, KeyIs DEF NamesAddons
  <2> HIDE DEF calls
  <2>4. Replaced(calls, <<>>)
    BY <1>1, <1>2, <2>2, <2>3, CallIsReplaced
  <2>5. SnapFramed
    BY <1>2, SnapStays
  <2>6. QED
    BY <1>1, <2>1, <2>2, <2>4, <2>5 DEF Frame, Replaced, TodoFrame
<1>3. CASE todo' = Tail(todo) /\ snap' = Recorded({Now})
  <2>1. TodoFrame
    BY <1>1, <1>3, CallIsReplaced DEF Replaced, TodoFrame
  <2>2. SnapFramed /\ {Now} \subseteq snap'.errors
    BY <1>3, SnapGainsKey
  <2>3. QED
    BY <2>1, <2>2 DEF Frame
<1>4. QED
  BY <1>2, <1>3 DEF ListNodegroups, ListedGroups

(* A call that returns and adds its answer to the snapshot, or leaves a    *)
(* key.                                                                    *)
LEMMA AnswerOrKey ==
  ASSUME TodoOK, SnapOK, Collecting, Returned,
         NEW i, NEW a, NEW n, NEW s \in {snap.subnets, AllSubnets}, NEW v,
         SnapGrew(i, a, n, v, snap.errors),
         snap' = SnapshotOf(i, a, n, s, v, snap.errors) \/ snap' = Recorded({Now})
  PROVE  /\ Frame
         /\ \/ Now \in snap'.errors
            \/ /\ snap'.insights = i /\ snap'.addons = a /\ snap'.nodegroups = n
               /\ snap'.subnets = s /\ snap'.issues = v
<1>1. CASE snap' = SnapshotOf(i, a, n, s, v, snap.errors)
  <2>1. SnapFramed
    BY <1>1, SnapFrame DEF SnapFramed
  <2>2. QED
    BY <1>1, <2>1, ReturnedFrame, SnapshotFields DEF Frame
<1>2. CASE snap' = Recorded({Now})
  <2>1. SnapFramed /\ {Now} \subseteq snap'.errors
    BY <1>2, SnapGainsKey
  <2>2. QED
    BY <2>1, ReturnedFrame DEF Frame
<1>3. QED
  BY <1>1, <1>2

LEMMA DescribeNodegroupStep ==
  ASSUME TodoOK, SnapOK, DescribeNodegroup
  PROVE  /\ Frame
         /\ \/ Now \in snap'.errors
            \/ {g \in account.nodegroups : g.name = Now.item} \subseteq snap'.nodegroups
<1> DEFINE n == snap.nodegroups \cup {g \in account.nodegroups : g.name = Now.item}
<1>1. Collecting /\ Returned
  BY DEF DescribeNodegroup, Calling
<1>2. snap' = [snap EXCEPT !.nodegroups = n] \/ snap' = Recorded({Now})
  BY DEF DescribeNodegroup
<1>3. {g \in account.nodegroups : g.name = Now.item} \subseteq n /\ snap.nodegroups \subseteq n
  OBVIOUS
<1> HIDE DEF n
<1>4. \/ snap' = SnapshotOf(snap.insights, snap.addons, n, snap.subnets, snap.issues, snap.errors)
      \/ snap' = Recorded({Now})
  BY <1>2, SnapExcept
<1>5. SnapGrew(snap.insights, snap.addons, n, snap.issues, snap.errors)
  BY <1>3 DEF SnapGrew
<1>6. Frame /\ (Now \in snap'.errors \/ snap'.nodegroups = n)
  BY <1>1, <1>4, <1>5, AnswerOrKey
<1>7. QED
  BY <1>3, <1>6

LEMMA DescribeSubnetsStep ==
  ASSUME TodoOK, SnapOK, DescribeSubnets
  PROVE  Frame /\ (Now \in snap'.errors \/ snap'.subnets = AllSubnets)
<1>1. Collecting /\ Returned
  BY DEF DescribeSubnets, Calling
<1>2. snap' = [snap EXCEPT !.subnets = AllSubnets] \/ snap' = Recorded({Now})
  BY DEF DescribeSubnets, AllSubnets
<1>3. \/ snap' = SnapshotOf(snap.insights, snap.addons, snap.nodegroups, AllSubnets, snap.issues,
                            snap.errors)
      \/ snap' = Recorded({Now})
  BY <1>2, SnapExcept
<1>4. SnapGrew(snap.insights, snap.addons, snap.nodegroups, snap.issues, snap.errors)
  BY DEF SnapGrew
<1>5. QED
  BY <1>1, <1>3, <1>4, AnswerOrKey

LEMMA DescribeNetworkStep ==
  ASSUME TodoOK, SnapOK, DescribeNetwork
  PROVE  Frame /\ (Now \in snap'.errors \/ {Now.item} \cap account.missing \subseteq snap'.issues)
<1> DEFINE v == snap.issues \cup ({Now.item} \cap account.missing)
<1>1. Collecting /\ Returned
  BY DEF DescribeNetwork, Calling
<1>2. snap' = [snap EXCEPT !.issues = v] \/ snap' = Recorded({Now})
  BY DEF DescribeNetwork
<1>3. {Now.item} \cap account.missing \subseteq v /\ snap.issues \subseteq v
  OBVIOUS
<1> HIDE DEF v
<1>4. \/ snap' = SnapshotOf(snap.insights, snap.addons, snap.nodegroups, snap.subnets, v, snap.errors)
      \/ snap' = Recorded({Now})
  BY <1>2, SnapExcept
<1>5. SnapGrew(snap.insights, snap.addons, snap.nodegroups, v, snap.errors)
  BY <1>3 DEF SnapGrew
<1>6. Frame /\ (Now \in snap'.errors \/ snap'.issues = v)
  BY <1>1, <1>4, <1>5, AnswerOrKey
<1>7. QED
  BY <1>3, <1>6

(* What becomes of the add-ons known so far when Now's versions arrive. *)
WithVersions(compatible) ==
  {IF a.name = Now.item THEN [a EXCEPT !.compatible = compatible] ELSE a : a \in snap.addons}

LEMMA DescribeAddonVersionsStep ==
  ASSUME TodoOK, SnapOK, DescribeAddonVersions
  PROVE  /\ Frame
         /\ \/ Now \in snap'.errors /\ snap'.addons = snap.addons
            \/ snap'.addons = WithVersions(TheAddon.compatible[target])
<1> DEFINE a == WithVersions(TheAddon.compatible[target])
<1>1. Collecting /\ Returned /\ Now.call = "describe-addon-versions"
  BY DEF DescribeAddonVersions, Calling
<1>2. snap' = [snap EXCEPT !.addons = a] \/ snap' = Recorded({Now})
  BY DEF DescribeAddonVersions, WithVersions
<1> HIDE DEF a
<1>3. \/ snap' = SnapshotOf(snap.insights, a, snap.nodegroups, snap.subnets, snap.issues, snap.errors)
      \/ snap' = Recorded({Now})
  BY <1>2, SnapExcept
<1>4. SnapGrew(snap.insights, a, snap.nodegroups, snap.issues, snap.errors)
  BY <1>1 DEF SnapGrew
<1>5. Frame
  BY <1>1, <1>3, <1>4, AnswerOrKey
<1>6. CASE snap' = Recorded({Now})
  <2>1. snap' = SnapshotOf(snap.insights, snap.addons, snap.nodegroups, snap.subnets, snap.issues,
                           snap.errors \cup {Now})
    BY <1>6, SnapExcept DEF Recorded
  <2>2. QED
    BY <1>5, <2>1, SnapshotFields
<1>7. CASE snap' = SnapshotOf(snap.insights, a, snap.nodegroups, snap.subnets, snap.issues, snap.errors)
  BY <1>5, <1>7, SnapshotFields DEF a
<1>8. QED
  BY <1>3, <1>6, <1>7

LEMMA DescribeAddonStep ==
  ASSUME TodoOK, SnapOK, DescribeAddon
  PROVE  /\ Frame
         /\ \/ snap'.addons = snap.addons \cup {Record(TheAddon.version, {})}
            \/ Now \in snap'.errors /\ snap'.addons = snap.addons \cup {Record(NoVersion, {})}
<1>1. Collecting /\ Returned /\ Now.call = "describe-addon"
  BY DEF DescribeAddon, Calling
<1>2. ASSUME NEW a, NEW e \in {snap.errors, snap.errors \cup {Now}},
             snap' = SnapshotOf(snap.insights, a, snap.nodegroups, snap.subnets, snap.issues, e)
      PROVE  Frame /\ snap'.addons = a /\ snap'.errors = e
  <2>1. SnapGrew(snap.insights, a, snap.nodegroups, snap.issues, e)
    BY <1>1 DEF SnapGrew
  <2>2. SnapFramed
    BY <1>2, <2>1, SnapFrame DEF SnapFramed
  <2>3. QED
    BY <1>1, <1>2, <2>2, ReturnedFrame, SnapshotFields DEF Frame
<1> DEFINE a == snap.addons \cup {Record(TheAddon.version, {})}
           b == snap.addons \cup {Record(NoVersion, {})}
<1>3. snap' = [snap EXCEPT !.addons = a] \/ snap' = [Recorded({Now}) EXCEPT !.addons = @ \cup {Record(NoVersion, {})}]
  BY DEF DescribeAddon
<1>4. Recorded({Now}) = SnapshotOf(snap.insights, snap.addons, snap.nodegroups, snap.subnets,
                                   snap.issues, snap.errors \cup {Now})
  BY SnapExcept DEF Recorded
<1>5. [Recorded({Now}) EXCEPT !.addons = @ \cup {Record(NoVersion, {})}]
        = SnapshotOf(snap.insights, b, snap.nodegroups, snap.subnets, snap.issues,
                     snap.errors \cup {Now})
  BY <1>4 DEF SnapshotOf
<1> HIDE DEF a, b
<1>6. CASE snap' = [snap EXCEPT !.addons = a]
  <2>1. snap' = SnapshotOf(snap.insights, a, snap.nodegroups, snap.subnets, snap.issues, snap.errors)
    BY <1>6, SnapExcept
  <2>2. Frame /\ snap'.addons = a
    BY <1>2, <2>1
  <2>3. QED
    BY <2>2 DEF a
<1>7. CASE snap' = SnapshotOf(snap.insights, b, snap.nodegroups, snap.subnets, snap.issues,
                              snap.errors \cup {Now})
  <2>1. Frame /\ snap'.addons = b /\ snap'.errors = snap.errors \cup {Now}
    BY <1>2, <1>7
  <2>2. QED
    BY <2>1 DEF b
<1>8. QED
  BY <1>3, <1>5, <1>6, <1>7
-----------------------------------------------------------------------------
(* A call that was made and did not answer, or the calls it leads to,      *)
(* account for what it would have found out: part by part.                 *)
LEMMA FrameOfStep ==
  ASSUME TodoOK, SnapOK, CollectStep
  PROVE  Frame
BY DescribeClusterStep, ListStep, DescribeInsightStep, ListAddonsStep, DescribeAddonStep,
   DescribeAddonVersionsStep, ListNodegroupsStep, DescribeNodegroupStep, DescribeSubnetsStep,
   DescribeNetworkStep DEF CollectStep

LEMMA StepIs ==
  ASSUME CollectStep
  PROVE  /\ Now.call = "describe-cluster" => DescribeCluster
         /\ Now.call \in Listing => ListInsights \/ ListInsightsFallback
         /\ Now.call = "describe-insight" => DescribeInsight
         /\ Now.call = "list-addons" => ListAddons
         /\ Now.call = "describe-addon" => DescribeAddon
         /\ Now.call = "describe-addon-versions" => DescribeAddonVersions
         /\ Now.call = "list-nodegroups" => ListNodegroups
         /\ Now.call = "describe-nodegroup" => DescribeNodegroup
         /\ Now.call = "describe-subnets" => DescribeSubnets
         /\ Now.call \in {"describe-security-group", "describe-vpc"} => DescribeNetwork
BY DEF CollectStep, Calling, Listing, DescribeCluster, ListInsights, ListInsightsFallback,
   DescribeInsight, ListAddons, DescribeAddon, DescribeAddonVersions, ListNodegroups,
   DescribeNodegroup, DescribeSubnets, DescribeNetwork

(* What was pending still is, unless it was this call. *)
LEMMA StillAsked ==
  ASSUME Frame, NEW call, NEW item, Asked(call, item)
  PROVE  Key(call, item) \in Pending' \/ (Now = Key(call, item) /\ Now.call = call /\ Now.item = item)
BY KeyIs DEF Frame, TodoFrame, Asked

LEMMA StillFailed ==
  ASSUME Frame, NEW calls, Failed(calls)
  PROVE  Failed(calls)'
BY DEF Frame, SnapFramed, Failed

LEMMA NowFailed ==
  ASSUME NEW calls, Now \in snap'.errors, Now.call \in calls
  PROVE  Failed(calls)'
BY DEF Failed

LEMMA InsightsStep ==
  ASSUME TodoOK, SnapOK, InsightsKnown, CollectStep
  PROVE  InsightsKnown'
<1>1. Frame /\ account' = account /\ target' = target /\ snap.insights \subseteq snap'.insights
  BY FrameOfStep DEF Frame, TodoFrame, SnapFramed
<1>2. CASE Failed({"list-insights", "describe-insight"})
  BY <1>1, <1>2, StillFailed DEF InsightsKnown
<1>3. CASE Asked("list-insights", "") \/ Asked("list-insights-fallback", "")
  <2>1. CASE Key("list-insights", "") \in Pending' \/ Key("list-insights-fallback", "") \in Pending'
    BY <2>1 DEF InsightsKnown, Asked
  <2>2. CASE ~(Key("list-insights", "") \in Pending' \/ Key("list-insights-fallback", "") \in Pending')
    <3>1. Now.call \in Listing /\ Pending' # Pending
      BY <1>1, <1>3, <2>2, StillAsked DEF Listing, Asked
    <3>2. InsightsAsked \/ Key("list-insights", "") \in snap'.errors
      BY <2>2, <3>1, StepIs, ListStep
    <3>3. CASE Key("list-insights", "") \in snap'.errors
      <4>1. Failed({"list-insights", "describe-insight"})'
        BY <3>3, KeyIs DEF Failed
      <4>2. QED
        BY <4>1 DEF InsightsKnown
    <3>4. CASE InsightsAsked
      BY <1>1, <3>4 DEF InsightsKnown, InsightsAsked, Asked
    <3>5. QED
      BY <3>2, <3>3, <3>4
  <2>3. QED
    BY <2>1, <2>2
<1>4. CASE \A i \in account.insights : i.version = target =>
             i \in snap.insights \/ Asked("describe-insight", i.id)
  <2>1. ASSUME NEW i \in account.insights, i.version = target
        PROVE  i \in snap'.insights \/ Key("describe-insight", i.id) \in Pending'
    <3>1. CASE i \in snap.insights
      BY <1>1, <3>1
    <3>2. CASE Asked("describe-insight", i.id)
      <4>1. CASE Now.call = "describe-insight" /\ Now.item = i.id
        <5>1. {j \in account.insights : j.id = Now.item} \subseteq snap'.insights
          BY <4>1, StepIs, DescribeInsightStep
        <5>2. QED
          BY <4>1, <5>1
      <4>2. QED
        BY <1>1, <3>2, <4>1, StillAsked
    <3>3. QED
      BY <1>4, <2>1, <3>1, <3>2
  <2>2. QED
    BY <1>1, <2>1 DEF InsightsKnown, Asked
<1>5. QED
  BY <1>2, <1>3, <1>4 DEF InsightsKnown

LEMMA NodegroupsStep ==
  ASSUME TodoOK, SnapOK, NodegroupsKnown, CollectStep
  PROVE  NodegroupsKnown'
<1>1. Frame /\ account' = account /\ snap.nodegroups \subseteq snap'.nodegroups
  BY FrameOfStep DEF Frame, TodoFrame, SnapFramed
<1> DEFINE calls == {"list-nodegroups", "describe-nodegroup"}
<1>2. CASE Failed(calls) \/ (Now \in snap'.errors /\ Now.call \in calls)
  <2>1. Failed(calls)'
    BY <1>1, <1>2, StillFailed, NowFailed
  <2>2. QED
    BY <2>1 DEF NodegroupsKnown
<1>3. CASE Asked("list-nodegroups", "") /\ ~(Now \in snap'.errors /\ Now.call \in calls)
  <2>1. CASE Key("list-nodegroups", "") \in Pending'
    BY <2>1 DEF NodegroupsKnown, Asked
  <2>2. CASE Key("list-nodegroups", "") \notin Pending'
    <3>1. Now.call = "list-nodegroups"
      BY <1>1, <1>3, <2>2, StillAsked
    <3>2. \A g \in ListedGroups : Key("describe-nodegroup", g.name) \in Pending'
      BY <1>3, <3>1, StepIs, ListNodegroupsStep
    <3>3. QED
      BY <1>1, <3>2 DEF NodegroupsKnown, Asked, ListedGroups, FirstPage
  <2>3. QED
    BY <2>1, <2>2
<1>4. CASE /\ ~(Now \in snap'.errors /\ Now.call \in calls)
           /\ \A g \in ListedGroups : g \in snap.nodegroups \/ Asked("describe-nodegroup", g.name)
  <2>1. ASSUME NEW g \in ListedGroups
        PROVE  g \in snap'.nodegroups \/ Key("describe-nodegroup", g.name) \in Pending'
    <3>1. CASE Now.call = "describe-nodegroup" /\ Now.item = g.name
      <4>1. {h \in account.nodegroups : h.name = Now.item} \subseteq snap'.nodegroups
        BY <1>4, <3>1, StepIs, DescribeNodegroupStep
      <4>2. QED
        BY <3>1, <4>1 DEF ListedGroups, FirstPage
    <3>2. QED
      BY <1>1, <1>4, <3>1, StillAsked
  <2>2. QED
    BY <1>1, <2>1 DEF NodegroupsKnown, Asked, ListedGroups, FirstPage
<1>5. QED
  BY <1>2, <1>3, <1>4 DEF NodegroupsKnown

LEMMA SubnetsStep ==
  ASSUME TodoOK, SnapOK, SubnetsKnown, CollectStep
  PROVE  SubnetsKnown'
<1>1. Frame /\ account' = account /\ snap'.subnets \in {snap.subnets, AllSubnets}
  BY FrameOfStep DEF Frame, TodoFrame, SnapFramed
<1> DEFINE calls == {"describe-cluster", "describe-subnets"}
<1>2. CASE Failed(calls) \/ (Now \in snap'.errors /\ Now.call \in calls)
  <2>1. Failed(calls)'
    BY <1>1, <1>2, StillFailed, NowFailed
  <2>2. QED
    BY <2>1 DEF SubnetsKnown
<1>3. SubnetsKnown' <=> \/ Failed(calls)'
                        \/ Key("describe-cluster", "") \in Pending'
                        \/ Key("describe-subnets", "") \in Pending'
                        \/ AllSubnets \subseteq snap'.subnets
  BY <1>1 DEF SubnetsKnown, AllSubnets, Asked
<1>4. CASE Asked("describe-cluster", "") /\ ~(Now \in snap'.errors /\ Now.call \in calls)
  <2>1. CASE Key("describe-cluster", "") \in Pending'
    BY <1>3, <2>1
  <2>2. CASE Key("describe-cluster", "") \notin Pending'
    <3>1. Now.call = "describe-cluster"
      BY <1>1, <1>4, <2>2, StillAsked
    <3>2. DOMAIN account.free # {} => Key("describe-subnets", "") \in Pending'
      BY <1>4, <3>1, StepIs, DescribeClusterStep
    <3>3. DOMAIN account.free = {} => AllSubnets = {}
      BY DEF AllSubnets
    <3>4. QED
      BY <1>3, <3>2, <3>3
  <2>3. QED
    BY <2>1, <2>2
<1>5. CASE Asked("describe-subnets", "") /\ ~(Now \in snap'.errors /\ Now.call \in calls)
  <2>1. CASE Now.call = "describe-subnets"
    BY <1>3, <1>5, <2>1, StepIs, DescribeSubnetsStep
  <2>2. QED
    BY <1>1, <1>3, <1>5, <2>1, StillAsked
<1>6. CASE AllSubnets \subseteq snap.subnets
  BY <1>1, <1>3, <1>6
<1>7. QED
  BY <1>2, <1>4, <1>5, <1>6 DEF SubnetsKnown, AllSubnets

LEMMA IssuesStep ==
  ASSUME TodoOK, SnapOK, IssuesKnown, CollectStep
  PROVE  IssuesKnown'
<1>1. Frame /\ account' = account /\ snap.issues \subseteq snap'.issues
  BY FrameOfStep DEF Frame, TodoFrame, SnapFramed
<1> DEFINE calls == {"describe-cluster", "describe-security-group", "describe-vpc"}
           Known(call, ids) ==
             \A i \in ids \cap account.missing : i \in snap'.issues \/ Key(call, i) \in Pending'
<1>2. CASE Failed(calls) \/ (Now \in snap'.errors /\ Now.call \in calls)
  <2>1. Failed(calls)'
    BY <1>1, <1>2, StillFailed, NowFailed
  <2>2. QED
    BY <2>1 DEF IssuesKnown
<1>3. /\ Key("describe-cluster", "") \in Pending' => IssuesKnown'
      /\ Known("describe-security-group", account.groups) /\ Known("describe-vpc", account.vpc)
           => IssuesKnown'
  BY <1>1 DEF IssuesKnown, Asked
<1>4. CASE Asked("describe-cluster", "") /\ ~(Now \in snap'.errors /\ Now.call \in calls)
  <2>1. CASE Key("describe-cluster", "") \notin Pending'
    <3>1. Now.call = "describe-cluster"
      BY <1>1, <1>4, <2>1, StillAsked
    <3>2. /\ \A g \in account.groups : Key("describe-security-group", g) \in Pending'
          /\ \A v \in account.vpc : Key("describe-vpc", v) \in Pending'
      BY <1>4, <3>1, StepIs, DescribeClusterStep
    <3>3. QED
      BY <1>3, <3>2
  <2>2. QED
    BY <1>3, <2>1
<1>5. CASE /\ ~(Now \in snap'.errors /\ Now.call \in calls)
           /\ \A g \in account.groups \cap account.missing :
                g \in snap.issues \/ Asked("describe-security-group", g)
           /\ \A v \in account.vpc \cap account.missing : v \in snap.issues \/ Asked("describe-vpc", v)
  <2>1. Now.call \in {"describe-security-group", "describe-vpc"} =>
          {Now.item} \cap account.missing \subseteq snap'.issues
    BY <1>5, StepIs, DescribeNetworkStep
  <2>2. ASSUME NEW call \in {"describe-security-group", "describe-vpc"}, NEW i \in account.missing,
               i \in snap.issues \/ Asked(call, i)
        PROVE  i \in snap'.issues \/ Key(call, i) \in Pending'
    <3>1. CASE i \in snap.issues
      BY <1>1, <3>1
    <3>2. CASE Asked(call, i)
      BY <1>1, <2>1, <3>2, StillAsked
    <3>3. QED
      BY <2>2, <3>1, <3>2
  <2>3. QED
    BY <1>3, <1>5, <2>2
<1>6. QED
  BY <1>2, <1>4, <1>5 DEF IssuesKnown

(* The add-on that Now asks about: it is one, and there is no other of     *)
(* that name.                                                              *)
LEMMA TheAddonIs ==
  ASSUME TodoOK, Collecting, Now.call \in {"describe-addon", "describe-addon-versions"}
  PROVE  /\ TheAddon \in account.addons /\ TheAddon.name = Now.item
         /\ \A a \in account.addons : a.name = Now.item => a = TheAddon
<1>1. \E a \in account.addons : a.name = Now.item
  BY NowIsPending DEF TodoOK
<1>2. TheAddon \in account.addons /\ TheAddon.name = Now.item
  BY <1>1 DEF TheAddon
<1>3. QED
  BY <1>2, PartsAreFinite

LEMMA RecordIs ==
  ASSUME NEW a, NEW version, a.name = Now.item
  PROVE  /\ Record(a.version, {}) = AddonRecord(a, {})
         /\ Record(version, {}) = [name |-> a.name, version |-> version, compatible |-> {}]
BY DEF Record, AddonRecord

LEMMA AddonFields ==
  ASSUME NEW a, NEW c
  PROVE  /\ AddonRecord(a, c).name = a.name /\ AddonRecord(a, c).version = a.version
         /\ AddonRecord(a, c).compatible = c
         /\ \A d : [AddonRecord(a, c) EXCEPT !.compatible = d] = AddonRecord(a, d)
BY DEF AddonRecord

LEMMA AddonsStep ==
  ASSUME TodoOK, SnapOK, AddonsKnown, CollectStep
  PROVE  AddonsKnown'
<1>1. Frame /\ account' = account /\ target' = target /\ Collecting
  BY FrameOfStep DEF Frame, TodoFrame, CollectStep, DescribeCluster, ListInsights,
     ListInsightsFallback, DescribeInsight, ListAddons, DescribeAddon, DescribeAddonVersions,
     ListNodegroups, DescribeNodegroup, DescribeSubnets, DescribeNetwork, Calling
<1> DEFINE calls == {"list-addons", "describe-addon", "describe-addon-versions"}
           Known(a) == \/ Key("describe-addon", a.name) \in Pending'
                       \/ /\ AddonRecord(a, {}) \in snap'.addons
                          /\ Key("describe-addon-versions", a.name) \in Pending'
                       \/ AddonRecord(a, a.compatible[target]) \in snap'.addons
<1>2. CASE Failed(calls) \/ (Now \in snap'.errors /\ Now.call \in calls)
  <2>1. Failed(calls)'
    BY <1>1, <1>2, StillFailed, NowFailed
  <2>2. QED
    BY <2>1 DEF AddonsKnown
<1>3. (\A a \in ListedAddons : Known(a)) => AddonsKnown'
  BY <1>1 DEF AddonsKnown, Asked, AddonRecord, ListedAddons, FirstPage
<1>4. CASE Asked("list-addons", "") /\ ~(Now \in snap'.errors /\ Now.call \in calls)
  <2>1. CASE Key("list-addons", "") \in Pending'
    BY <2>1 DEF AddonsKnown, Asked
  <2>2. CASE Key("list-addons", "") \notin Pending'
    <3>1. Now.call = "list-addons"
      BY <1>1, <1>4, <2>2, StillAsked
    <3>2. AddonQuestions \subseteq Pending'
      BY <1>4, <3>1, StepIs, ListAddonsStep
    <3>3. \A a \in ListedAddons : Key("describe-addon", a.name) \in Pending'
      BY <3>2 DEF AddonQuestions
    <3>4. QED
      BY <1>3, <3>3
  <2>3. QED
    BY <2>1, <2>2
<1>5. CASE /\ ~(Now \in snap'.errors /\ Now.call \in calls)
           /\ \A a \in ListedAddons :
                \/ Asked("describe-addon", a.name)
                \/ AddonRecord(a, {}) \in snap.addons /\ Asked("describe-addon-versions", a.name)
                \/ AddonRecord(a, a.compatible[target]) \in snap.addons
  <2> SUFFICES ASSUME NEW a \in ListedAddons PROVE Known(a)
    BY <1>3
  <2>0. a \in account.addons
    BY DEF ListedAddons, FirstPage
  <2> HIDE DEF Known
  <2>1. ASSUME AddonRecord(a, {}) \in snap'.addons,
               Key("describe-addon-versions", a.name) \in Pending'
        PROVE  Known(a)
    BY <2>1 DEF Known
  <2>2. ASSUME AddonRecord(a, a.compatible[target]) \in snap'.addons PROVE Known(a)
    BY <2>2 DEF Known
  <2>3. ASSUME Key("describe-addon", a.name) \in Pending' PROVE Known(a)
    BY <2>3 DEF Known
  <2>4. CASE Now.call = "describe-addon"
    <3>1. snap'.addons = snap.addons \cup {Record(TheAddon.version, {})}
      BY <1>5, <2>4, StepIs, DescribeAddonStep
    <3>2. CASE Now.item = a.name
      <4>1. TheAddon = a
        BY <1>1, <2>0, <2>4, <3>2, TheAddonIs
      <4>2. Record(a.version, {}) = AddonRecord(a, {})
        BY <3>2, RecordIs
      <4>3. Key("describe-addon-versions", a.name) \in Pending'
        BY <1>1, <2>4, <3>2 DEF Frame, TodoFrame
      <4>4. QED
        BY <2>1, <3>1, <4>1, <4>2, <4>3
    <3>3. CASE Now.item # a.name
      BY <1>1, <1>5, <2>1, <2>2, <2>3, <2>4, <3>1, <3>3, StillAsked
    <3>4. QED
      BY <3>2, <3>3
  <2>5. CASE Now.call = "describe-addon-versions"
    <3>1. snap'.addons = WithVersions(TheAddon.compatible[target])
      BY <1>5, <2>5, StepIs, DescribeAddonVersionsStep
    <3>2. CASE Now.item = a.name
      <4>1. TheAddon = a
        BY <1>1, <2>0, <2>5, <3>2, TheAddonIs
      <4>2. ASSUME NEW c, AddonRecord(a, c) \in snap.addons
            PROVE  AddonRecord(a, a.compatible[target]) \in snap'.addons
        <5>1. AddonRecord(a, c).name = Now.item
          BY <3>2, AddonFields
        <5>2. [AddonRecord(a, c) EXCEPT !.compatible = a.compatible[target]]
                = AddonRecord(a, a.compatible[target])
          BY AddonFields
        <5>3. [AddonRecord(a, c) EXCEPT !.compatible = TheAddon.compatible[target]] \in snap'.addons
          BY <3>1, <4>2, <5>1 DEF WithVersions
        <5>4. QED
          BY <4>1, <5>2, <5>3
      <4>3. QED
        BY <1>1, <1>5, <2>2, <2>3, <2>5, <4>2, StillAsked
    <3>3. CASE Now.item # a.name
      <4>1. \A c : AddonRecord(a, c) \in snap.addons => AddonRecord(a, c) \in snap'.addons
        BY <3>1, <3>3, AddonFields DEF WithVersions
      <4>2. QED
        BY <1>1, <1>5, <2>1, <2>2, <2>3, <2>5, <3>3, <4>1, StillAsked
    <3>4. QED
      BY <3>2, <3>3
  <2>6. CASE Now.call \notin {"describe-addon", "describe-addon-versions"}
    <3>1. snap'.addons = snap.addons
      BY <1>1, <2>6 DEF Frame, SnapFramed
    <3>2. QED
      BY <1>1, <1>5, <2>1, <2>2, <2>3, <2>6, <3>1, StillAsked
  <2>7. QED
    BY <2>4, <2>5, <2>6
<1>6. QED
  BY <1>2, <1>4, <1>5 DEF AddonsKnown

LEMMA CollectsNow ==
  ASSUME CollectStep
  PROVE  Collecting
BY DEF CollectStep, DescribeCluster, ListInsights, ListInsightsFallback, DescribeInsight,
   ListAddons, DescribeAddon, DescribeAddonVersions, ListNodegroups, DescribeNodegroup,
   DescribeSubnets, DescribeNetwork, Calling

LEMMA AddonsRealStep ==
  ASSUME TodoOK, SnapOK, AddonsReal, CollectStep
  PROVE  AddonsReal'
<1>1. Frame /\ Collecting
  BY FrameOfStep, CollectsNow
<1>2. /\ account' = account /\ target' = target /\ snap.errors \subseteq snap'.errors
  BY <1>1 DEF Frame, TodoFrame, SnapFramed
<1> DEFINE Versions(a) == Key("describe-addon-versions", a.name)
           Real(r) ==
             /\ r = [name |-> r.name, version |-> r.version, compatible |-> r.compatible]
             /\ \/ r.version = NoVersion
                \/ \E a \in account.addons :
                     /\ a.name = r.name /\ a.version = r.version
                     /\ \/ r.compatible = a.compatible[target]
                        \/ Versions(a) \in Pending' \/ Versions(a) \in snap'.errors
<1>3. (\A r \in snap'.addons : Real(r)) => AddonsReal'
  BY <1>2 DEF AddonsReal, Asked
<1>4. ASSUME NEW r \in snap.addons,
             Now.call = "describe-addon-versions" /\ Now.item = r.name => Now \in snap'.errors
      PROVE  Real(r)
  <2>1. /\ r = [name |-> r.name, version |-> r.version, compatible |-> r.compatible]
        /\ \/ r.version = NoVersion
           \/ \E a \in account.addons :
                /\ a.name = r.name /\ a.version = r.version
                /\ \/ r.compatible = a.compatible[target]
                   \/ Asked("describe-addon-versions", a.name)
                   \/ Key("describe-addon-versions", a.name) \in snap.errors
    BY DEF AddonsReal
  <2>2. ASSUME NEW a \in account.addons, a.name = r.name, Asked("describe-addon-versions", a.name)
        PROVE  Versions(a) \in Pending' \/ Versions(a) \in snap'.errors
    BY <1>1, <1>4, <2>2, StillAsked
  <2>3. ASSUME NEW a \in account.addons, Key("describe-addon-versions", a.name) \in snap.errors
        PROVE  Versions(a) \in snap'.errors
    BY <1>2, <2>3
  <2> HIDE DEF Versions
  <2>4. QED
    BY <2>1, <2>2, <2>3
<1>5. CASE Now.call = "describe-addon"
  <2>1. PICK version \in {TheAddon.version, NoVersion} :
          snap'.addons = snap.addons \cup {Record(version, {})}
    BY <1>5, StepIs, DescribeAddonStep
  <2> DEFINE r == Record(version, {})
  <2>2. TheAddon \in account.addons /\ TheAddon.name = Now.item
    BY <1>1, <1>5, TheAddonIs
  <2>3. Versions(TheAddon) \in Pending'
    BY <1>1, <1>5, <2>2 DEF Frame, TodoFrame
  <2>4. r.name = Now.item /\ r.version = version
        /\ r = [name |-> r.name, version |-> r.version, compatible |-> r.compatible]
    BY DEF Record
  <2> HIDE DEF r
  <2>5. Real(r)
    <3> HIDE DEF Versions
    <3>1. CASE version = NoVersion
      BY <2>4, <3>1
    <3>2. CASE version = TheAddon.version
      BY <2>2, <2>3, <2>4, <3>2
    <3>3. QED
      BY <3>1, <3>2
  <2>6. \A q \in snap.addons : Real(q)
    BY <1>4, <1>5
  <2> HIDE DEF Real
  <2>7. QED
    BY <1>3, <2>1, <2>5, <2>6 DEF r
<1>6. CASE Now.call = "describe-addon-versions"
  <2>1. CASE Now \in snap'.errors /\ snap'.addons = snap.addons
    <3>1. \A q \in snap.addons : Real(q)
      BY <1>4, <2>1
    <3> HIDE DEF Real
    <3>2. QED
      BY <1>3, <2>1, <3>1
  <2>2. CASE snap'.addons = WithVersions(TheAddon.compatible[target])
    <3>1. TheAddon \in account.addons /\ TheAddon.name = Now.item
          /\ \A a \in account.addons : a.name = Now.item => a = TheAddon
      BY <1>1, <1>6, TheAddonIs
    <3>2. ASSUME NEW r \in snap.addons, r.name = Now.item
          PROVE  Real([r EXCEPT !.compatible = TheAddon.compatible[target]])
      <4> DEFINE q == [r EXCEPT !.compatible = TheAddon.compatible[target]]
      <4>1. /\ r = [name |-> r.name, version |-> r.version, compatible |-> r.compatible]
            /\ \/ r.version = NoVersion
               \/ \E a \in account.addons : a.name = r.name /\ a.version = r.version
        BY DEF AddonsReal
      <4>2. q = [name |-> r.name, version |-> r.version, compatible |-> TheAddon.compatible[target]]
        BY <4>1
      <4>3. /\ q.name = r.name /\ q.version = r.version /\ q.compatible = TheAddon.compatible[target]
            /\ q = [name |-> q.name, version |-> q.version, compatible |-> q.compatible]
        BY <4>2
      <4> HIDE DEF q
      <4>4. Real(q)
        BY <3>1, <3>2, <4>1, <4>3
      <4>5. QED
        BY <4>4 DEF q
    <3>3. ASSUME NEW r \in snap.addons, r.name # Now.item PROVE Real(r)
      BY <1>4, <3>3
    <3> HIDE DEF Real
    <3>4. \A q \in snap'.addons : Real(q)
      BY <2>2, <3>2, <3>3 DEF WithVersions
    <3>5. QED
      BY <1>3, <3>4
  <2>3. QED
    BY <1>6, <2>1, <2>2, StepIs, DescribeAddonVersionsStep
<1>7. CASE Now.call \notin {"describe-addon", "describe-addon-versions"}
  <2>1. snap'.addons = snap.addons
    BY <1>1, <1>7 DEF Frame, SnapFramed
  <2>2. \A q \in snap.addons : Real(q)
    BY <1>4, <1>7
  <2> HIDE DEF Real
  <2>3. QED
    BY <1>3, <2>1, <2>2
<1>8. QED
  BY <1>5, <1>6, <1>7

-----------------------------------------------------------------------------
(* A collection for the current version begins with everything to ask, and *)
(* what does not touch it leaves it as it is.                              *)
LEMMA AwsBegins ==
  ASSUME account \in Accounts, NEW version, Begin(version)
  PROVE  AwsInv' /\ target' = version /\ account' = account
<1> DEFINE cluster1 == Key("describe-cluster", "")
           insights == Key("list-insights", "")
           addons == Key("list-addons", "")
           groups == Key("list-nodegroups", "")
<1>1. /\ target' = version /\ account' = account /\ snap' = EmptySnapshot
      /\ todo' = <<cluster1, insights, addons, groups>>
  BY DEF Begin
<1>2. {cluster1, insights, addons, groups} \subseteq Questions
  BY IsQuestion DEF CallNames, Items
<1>3. /\ cluster1.call = "describe-cluster" /\ insights.call = "list-insights"
      /\ addons.call = "list-addons" /\ groups.call = "list-nodegroups"
  BY KeyIs
<1> HIDE DEF cluster1, insights, addons, groups
<1>4. todo' \in Seq(Questions)
  BY <1>1, <1>2
<1>5. ToSet(todo') = {cluster1, insights, addons, groups}
  <2> DEFINE s == <<cluster1, insights, addons, groups>>
  <2>1. s \in Seq(Questions) /\ Len(s) = 4
        /\ s[1] = cluster1 /\ s[2] = insights /\ s[3] = addons /\ s[4] = groups
    BY <1>2
  <2> HIDE DEF s
  <2>2. \A k : k \in ToSet(s) <=> \E i \in 1 .. 4 : s[i] = k
    BY <2>1, InSequence
  <2>3. \A k : k \in ToSet(s) <=> k \in {cluster1, insights, addons, groups}
    BY <2>1, <2>2
  <2>4. ToSet(s) = {cluster1, insights, addons, groups}
    BY <2>3
  <2>5. QED
    BY <1>1, <2>4 DEF s
<1>6. \A k \in ToSet(todo') : k.call \notin {"describe-addon", "describe-addon-versions"}
  BY <1>3, <1>5
<1>7. Ordered(todo')
  BY <1>4, <1>6, NotAskedIsOrdered
<1>8. Questions' = Questions
  BY <1>1 DEF Questions, Items
<1>9. TodoOK'
  BY <1>1, <1>4, <1>6, <1>7, <1>8 DEF TodoOK, Pending
<1>10. SnapOK' /\ snap'.addons = {}
  BY <1>1 DEF SnapOK, EmptySnapshot
<1>11. /\ InsightsKnown' /\ AddonsKnown' /\ NodegroupsKnown' /\ SubnetsKnown' /\ IssuesKnown'
  BY <1>5 DEF InsightsKnown, AddonsKnown, NodegroupsKnown, SubnetsKnown, IssuesKnown, Asked,
     Pending, cluster1, insights, addons, groups
<1>12. AddonsReal'
  BY <1>10 DEF AddonsReal
<1>13. QED
  BY <1>1, <1>9, <1>10, <1>11, <1>12 DEF AwsInv

LEMMA AwsStep ==
  ASSUME AwsInv, CollectStep
  PROVE  AwsInv' /\ account' = account /\ target' = target
<1>1. Frame
  BY FrameOfStep DEF AwsInv
<1>2. QED
  BY <1>1, InsightsStep, AddonsStep, NodegroupsStep, SubnetsStep, IssuesStep, AddonsRealStep
     DEF AwsInv, Frame, TodoFrame, SnapFramed

LEMMA AwsStays ==
  ASSUME AwsInv, UNCHANGED <<account, target, todo, snap>>
  PROVE  AwsInv'
<1>1. /\ TodoOK' /\ SnapOK' /\ AddonsReal'
  BY DEF AwsInv, TodoOK, SnapOK, AddonsReal, Pending, Questions, Items, Asked
<1>2. InsightsKnown' /\ AddonsKnown' /\ NodegroupsKnown' /\ SubnetsKnown' /\ IssuesKnown'
  BY DEF AwsInv, InsightsKnown, AddonsKnown, NodegroupsKnown, SubnetsKnown, IssuesKnown,
     Failed, Asked, Pending, ListedAddons, ListedGroups, FirstPage
<1>3. QED
  BY <1>1, <1>2 DEF AwsInv

-----------------------------------------------------------------------------
(* What the rules find, and in what.                                       *)
LEMMA FoundFields ==
  ASSUME NEW r, NEW o, NEW p, NEW c
  PROVE  /\ Found(r, o, p, c).rule = r /\ Found(r, o, p, c).on = o
         /\ Found(r, o, p, c).planes = p /\ Found(r, o, p, c).class = c
BY DEF Found

AwsRulesFind(t, version, context) ==
  /\ \A f \in Addon001Aws(t, version, context) : f.rule = "ADDON-001"
  /\ \A f \in Addon002Aws(t, version) : f.rule = "ADDON-002"
  /\ \A f \in InsightFindings(t) : f.rule \in Insights
  /\ \A f \in NodegroupFindings(t, version) : f.rule \in Nodegroups
  /\ \A f \in Node002(t, context) : f.rule = "NODE-002"
  /\ \A f \in Net002(t, context) : f.rule = "NET-002"

LEMMA AwsRulesNameThemselves ==
  ASSUME NEW t, NEW version, NEW context
  PROVE  AwsRulesFind(t, version, context)
<1>1. \A f \in Addon001Aws(t, version, context) : f.rule = "ADDON-001"
  BY FoundFields DEF Addon001Aws, Addon001CatalogFinding, Addon001Finding
<1>2. \A f \in Addon002Aws(t, version) : f.rule = "ADDON-002"
  BY FoundFields DEF Addon002Aws, Addon002Finding
<1>3. \A f \in InsightFindings(t) : f.rule \in Insights
  BY FoundFields DEF InsightFindings, EksInsightFinding, Insights
<1>4. \A f \in NodegroupFindings(t, version) : f.rule \in Nodegroups
  BY FoundFields DEF NodegroupFindings, EksNgFinding, Nodegroups
<1>5. \A f \in Node002(t, context) : f.rule = "NODE-002"
  BY FoundFields DEF Node002, Node002Finding
<1>6. \A f \in Net002(t, context) : f.rule = "NET-002"
  BY FoundFields DEF Net002
<1>7. QED
  BY <1>1, <1>2, <1>3, <1>4, <1>5, <1>6 DEF AwsRulesFind

LEMMA AwsRulesAre ==
  ASSUME NEW t, NEW version, NEW context, NEW f \in AwsFindings(t, version, context)
  PROVE  f.rule \in AwsRuleIDs
BY AwsRulesNameThemselves DEF AwsFindings, AwsRulesFind, AwsRuleIDs, Addons

LEMMA AddonsLiveAre ==
  ASSUME NEW workloads, NEW version, NEW context, NEW available,
         NEW f \in AddonsLive(workloads, version, context, available)
  PROVE  f.rule \in Addons /\ f.planes = {"live"}
BY FoundFields DEF AddonsLive, Addon001LiveFinding, Addon001CatalogFinding, Addon002LiveFinding,
   Addon002Finding, Addons

(* Merging changes nothing of a finding but its planes.                    *)
LEMMA MergedAre ==
  ASSUME NEW of, NEW manifest, NEW rule,
         \A f \in of : f.rule = rule /\ f = Found(f.rule, f.on, f.planes, f.class),
         \A f \in manifest : f.rule = rule
  PROVE  \A f \in MergeFindings(of, manifest) : f.rule = rule
<1>1. ASSUME NEW g \in of
      PROVE  [g EXCEPT !.planes = @ \cup {"manifest"}].rule = rule
  <2> DEFINE r == g.rule
             o == g.on
             p == g.planes
             c == g.class
  <2>1. g = Found(r, o, p, c) /\ r = rule
    OBVIOUS
  <2> HIDE DEF r, o, p, c
  <2>2. QED
    BY <2>1 DEF Found
<1>2. QED
  BY <1>1 DEF MergeFindings

LEMMA FoundIs ==
  ASSUME NEW r, NEW o, NEW p, NEW c
  PROVE  LET f == Found(r, o, p, c) IN f = Found(f.rule, f.on, f.planes, f.class)
BY DEF Found

Api001Live(apis, version) ==
  {Api001LiveFinding(o) : o \in {o \in Removed(apis, version) : o.kind = "plain"}}
    \cup {Api001AutoManagedFinding(o) : o \in {o \in Removed(apis, version) : o.kind = "auto"}}
Api001Manifest(objects, version) == {Api001ManifestFinding(o) : o \in Removed(objects, version)}
Api002Live(apis, version) ==
  {Api002LiveFinding(o) : o \in {d \in Deprecated(apis, version) : d.kind # "event"}}
Api002Manifest(objects, version) == {Api002ManifestFinding(o) : o \in Deprecated(objects, version)}

LEMMA Api001Is ==
  ASSUME NEW apis, NEW objects, NEW version
  PROVE  /\ Api001(apis, objects, version)
              = MergeFindings(Api001Live(apis, version), Api001Manifest(objects, version))
         /\ Api002(apis, objects, version)
              = MergeFindings(Api002Live(apis, version), Api002Manifest(objects, version))
         /\ \A f \in Api001Live(apis, version) :
              /\ f.rule = "API-001" /\ f = Found(f.rule, f.on, f.planes, f.class)
              /\ f.planes = {"live"}
         /\ \A f \in Api001Manifest(objects, version) : f.rule = "API-001"
         /\ \A f \in Api002Live(apis, version) :
              f.rule = "API-002" /\ f = Found(f.rule, f.on, f.planes, f.class)
         /\ \A f \in Api002Manifest(objects, version) : f.rule = "API-002"
<1>1. Api001(apis, objects, version)
        = MergeFindings(Api001Live(apis, version), Api001Manifest(objects, version))
  BY DEF Api001, Api001Live, Api001Manifest
<1>2. Api002(apis, objects, version)
        = MergeFindings(Api002Live(apis, version), Api002Manifest(objects, version))
  BY DEF Api002, Api002Live, Api002Manifest
<1>3. \A f \in Api001Live(apis, version) :
        /\ f.rule = "API-001" /\ f = Found(f.rule, f.on, f.planes, f.class) /\ f.planes = {"live"}
  BY FoundFields, FoundIs DEF Api001Live, Api001LiveFinding, Api001AutoManagedFinding
<1>4. \A f \in Api002Live(apis, version) :
        f.rule = "API-002" /\ f = Found(f.rule, f.on, f.planes, f.class)
  BY FoundFields, FoundIs DEF Api002Live, Api002LiveFinding
<1>5. /\ \A f \in Api001Manifest(objects, version) : f.rule = "API-001"
      /\ \A f \in Api002Manifest(objects, version) : f.rule = "API-002"
  BY FoundFields DEF Api001Manifest, Api001ManifestFinding, Api002Manifest, Api002ManifestFinding
<1>6. QED
  BY <1>1, <1>2, <1>3, <1>4, <1>5

LEMMA ApiFindingsAre ==
  ASSUME NEW apis, NEW objects, NEW version, NEW f \in ApiFindings(apis, objects, version)
  PROVE  f.rule \in ApiRules
<1>1. \A g \in Api001(apis, objects, version) : g.rule = "API-001"
  BY Api001Is, MergedAre
<1>2. \A g \in Api002(apis, objects, version) : g.rule = "API-002"
  <2> DEFINE of == Api002Live(apis, version)
             manifest == Api002Manifest(objects, version)
  <2>1. /\ Api002(apis, objects, version) = MergeFindings(of, manifest)
        /\ \A g \in of : g.rule = "API-002" /\ g = Found(g.rule, g.on, g.planes, g.class)
        /\ \A g \in manifest : g.rule = "API-002"
    BY Api001Is
  <2> HIDE DEF of, manifest
  <2>2. QED
    BY <2>1, MergedAre
<1>3. QED
  BY <1>1, <1>2 DEF ApiFindings, ApiRules

(* An object of the manifests whose API is removed gives a finding of the  *)
(* manifests alone, unless there is a live one of that name.               *)
LEMMA RemovedIsFound ==
  ASSUME NEW apis, NEW objects, NEW version, NEW o \in Removed(objects, version)
  PROVE  \/ Found("API-001", o.name, {"manifest"}, "block") \in ApiFindings(apis, objects, version)
         \/ \E f \in ApiFindings(apis, objects, version) :
              f.rule = "API-001" /\ ~IsManifestOnlyFinding(f)
<1> DEFINE of == Api001Live(apis, version)
           manifest == Api001Manifest(objects, version)
           m == Api001ManifestFinding(o)
<1>1. /\ m \in manifest /\ m.on = o.name
      /\ m = Found("API-001", o.name, {"manifest"}, "block")
  BY FoundFields DEF Api001Manifest, Api001ManifestFinding
<1>2. /\ Api001(apis, objects, version) = MergeFindings(of, manifest)
      /\ \A f \in of : /\ f.rule = "API-001" /\ f = Found(f.rule, f.on, f.planes, f.class)
                       /\ f.planes = {"live"}
  BY Api001Is
<1> HIDE DEF of, manifest, m
<1>3. CASE m.on \notin {g.on : g \in of}
  <2>1. m \in MergeFindings(of, manifest)
    BY <1>1, <1>3 DEF MergeFindings
  <2>2. QED
    BY <1>1, <1>2, <2>1 DEF ApiFindings
<1>4. CASE m.on \in {g.on : g \in of}
  <2>1. PICK g \in of : g.on = m.on
    BY <1>4
  <2> DEFINE f == [g EXCEPT !.planes = @ \cup {"manifest"}]
             on == g.on
             class == g.class
  <2>2. g = Found("API-001", on, {"live"}, class)
    BY <1>2
  <2>3. g.on \in {h.on : h \in manifest}
    BY <1>1, <2>1
  <2>4. f \in MergeFindings(of, manifest)
    BY <2>3 DEF MergeFindings
  <2> HIDE DEF on, class
  <2>5. f.rule = "API-001" /\ f.planes = {"live"} \cup {"manifest"}
    BY <2>2 DEF Found
  <2> HIDE DEF f
  <2>6. ~IsManifestOnlyFinding(f)
    BY <2>5 DEF IsManifestOnlyFinding
  <2>7. QED
    BY <1>2, <2>4, <2>5, <2>6 DEF ApiFindings
<1>5. QED
  BY <1>3, <1>4

-----------------------------------------------------------------------------
(* A collection that is over knows of every part of the account as much as *)
(* one without a failure that lists the first pages, unless a key says     *)
(* what it lacks ...                                                       *)
LEMMA NothingAsked ==
  ASSUME todo = <<>>
  PROVE  \A call, item : ~Asked(call, item)
BY DEF Asked, Pending, ToSet

LEMMA CompleteIs ==
  ASSUME NEW v
  PROVE  /\ Complete(v).insights = {i \in account.insights : i.version = v}
         /\ Complete(v).addons = {AddonRecord(a, a.compatible[v]) : a \in account.addons}
         /\ Complete(v).nodegroups = account.nodegroups
         /\ Complete(v).subnets = AllSubnets
         /\ Complete(v).issues = (account.groups \cup account.vpc) \cap account.missing
         /\ Complete(v).errors = {}
BY DEF Complete, AddonRecord, AllSubnets

Listed(v) ==
  [insights |-> {i \in account.insights : i.version = v},
   addons |-> {AddonRecord(a, a.compatible[v]) : a \in ListedAddons},
   nodegroups |-> ListedGroups, subnets |-> AllSubnets,
   issues |-> (account.groups \cup account.vpc) \cap account.missing, errors |-> {}]

LEMMA ListedIs ==
  ASSUME NEW v
  PROVE  /\ Listed(v).insights = {i \in account.insights : i.version = v}
         /\ Listed(v).addons = {AddonRecord(a, a.compatible[v]) : a \in ListedAddons}
         /\ Listed(v).nodegroups = ListedGroups
         /\ Listed(v).subnets = AllSubnets
         /\ Listed(v).issues = (account.groups \cup account.vpc) \cap account.missing
         /\ Listed(v).errors = {}
BY DEF Listed

LEMMA CollectedParts ==
  ASSUME AwsInv, todo = <<>>
  PROVE  LET all == Listed(target)
         IN  /\ (\E r \in Insights : ~AwsGap(r)) => all.insights \subseteq snap.insights
             /\ (\E r \in Addons : ~AwsGap(r)) =>
                  /\ all.addons \subseteq snap.addons
                  /\ \A e \in snap.errors : e.call # "describe-addon-versions"
             /\ (\E r \in Nodegroups : ~AwsGap(r)) => all.nodegroups \subseteq snap.nodegroups
             /\ ~AwsGap("NODE-002") => all.subnets \subseteq snap.subnets
             /\ ~AwsGap("NET-002") => all.issues \subseteq snap.issues
<1> DEFINE all == Listed(target)
<1>1. \A r \in Insights : AwsDependsOn(r) = {"list-insights", "describe-insight"}
  BY DEF AwsDependsOn, Insights, Addons, Nodegroups
<1>2. \A r \in Addons : AwsDependsOn(r) = {"list-addons", "describe-addon", "describe-addon-versions"}
  BY DEF AwsDependsOn, Insights, Addons, Nodegroups
<1>3. \A r \in Nodegroups : AwsDependsOn(r) = {"list-nodegroups", "describe-nodegroup"}
  BY DEF AwsDependsOn, Insights, Addons, Nodegroups
<1>4. /\ AwsDependsOn("NODE-002") = {"describe-cluster", "describe-subnets"}
      /\ AwsDependsOn("NET-002") = {"describe-cluster", "describe-security-group", "describe-vpc"}
  BY DEF AwsDependsOn, Insights, Addons, Nodegroups
<1>5. \A r : AwsGap(r) <=> Failed(AwsDependsOn(r))
  BY DEF AwsGap, Failed
<1>6. ASSUME ~Failed({"list-insights", "describe-insight"}) PROVE all.insights \subseteq snap.insights
  <2>1. \A i \in account.insights : i.version = target => i \in snap.insights
    BY <1>6, NothingAsked DEF AwsInv, InsightsKnown
  <2>2. QED
    BY <2>1, ListedIs
<1>7. ASSUME ~Failed({"list-addons", "describe-addon", "describe-addon-versions"})
      PROVE  /\ all.addons \subseteq snap.addons
             /\ \A e \in snap.errors : e.call # "describe-addon-versions"
  <2>1. \A a \in ListedAddons : AddonRecord(a, a.compatible[target]) \in snap.addons
    BY <1>7, NothingAsked DEF AwsInv, AddonsKnown
  <2>2. QED
    BY <1>7, <2>1, ListedIs DEF Failed
<1>8. ASSUME ~Failed({"list-nodegroups", "describe-nodegroup"})
      PROVE  all.nodegroups \subseteq snap.nodegroups
  BY <1>8, NothingAsked, ListedIs DEF AwsInv, NodegroupsKnown
<1>9. ASSUME ~Failed({"describe-cluster", "describe-subnets"})
      PROVE  all.subnets \subseteq snap.subnets
  BY <1>9, NothingAsked, ListedIs DEF AwsInv, SubnetsKnown, AllSubnets
<1>10. ASSUME ~Failed({"describe-cluster", "describe-security-group", "describe-vpc"})
       PROVE  all.issues \subseteq snap.issues
  BY <1>10, NothingAsked, ListedIs DEF AwsInv, IssuesKnown
<1> HIDE DEF all
<1>11. (\E r \in Insights : ~AwsGap(r)) => all.insights \subseteq snap.insights
  BY <1>1, <1>5, <1>6
<1>12. (\E r \in Addons : ~AwsGap(r)) =>
         /\ all.addons \subseteq snap.addons
         /\ \A e \in snap.errors : e.call # "describe-addon-versions"
  BY <1>2, <1>5, <1>7
<1>13. (\E r \in Nodegroups : ~AwsGap(r)) => all.nodegroups \subseteq snap.nodegroups
  BY <1>3, <1>5, <1>8
<1>14. /\ ~AwsGap("NODE-002") => all.subnets \subseteq snap.subnets
       /\ ~AwsGap("NET-002") => all.issues \subseteq snap.issues
  BY <1>4, <1>5, <1>9, <1>10
<1>15. QED
  BY <1>11, <1>12, <1>13, <1>14 DEF all

(* ... and so the rules find as much.  What they find in all pages and not *)
(* in the first is about an add-on or a node group of a later one ...      *)
LEMMA LaterPagesMissed ==
  ASSUME NEW v, NEW f \in TrueAwsFindings(v), ~OnLaterPage(f)
  PROVE  f \in AwsFindings(Listed(v), v, opts.context)
<1> DEFINE all == Complete(v)
           some == Listed(v)
           context == opts.context
<1>1. f \in AwsFindings(all, v, context)
  BY DEF TrueAwsFindings
<1>2. /\ all.insights = some.insights /\ all.subnets = some.subnets
      /\ all.issues = some.issues /\ all.errors = {} /\ some.errors = {}
  <2> DEFINE relevant == {i \in account.insights : i.version = v}
  <2>1. all.insights = relevant /\ some.insights = relevant
    BY DEF Complete, Listed
  <2> HIDE DEF relevant
  <2>2. QED
    BY <2>1, CompleteIs, ListedIs
<1>3. ASSUME NEW b \in all.addons, f.on = b.name, f.rule \in Addons, f.planes = {"aws"}
      PROVE  b \in some.addons
  <2>1. PICK a \in account.addons : b = AddonRecord(a, a.compatible[v])
    BY <1>3, CompleteIs
  <2>2. a \notin account.later
    BY <1>3, <2>1, AddonFields DEF OnLaterPage
  <2>3. QED
    BY <2>1, <2>2, ListedIs DEF ListedAddons, FirstPage
<1>4. ASSUME NEW g \in all.nodegroups, f.on = g.name, f.rule \in Nodegroups, f.planes = {"aws"}
      PROVE  g \in some.nodegroups
  BY <1>4, CompleteIs, ListedIs DEF OnLaterPage, ListedGroups, FirstPage
<1> HIDE DEF all, some, context
<1>5. CASE f \in Addon001Aws(all, v, context)
  <2>1. PICK b \in all.addons :
          \/ /\ f = Addon001CatalogFinding(b, v, context, "aws")
             /\ b.name \in Managed /\ Catalogued(b.name, v) /\ Incompatible(b, v)
          \/ f = Addon001Finding(b.name, context) /\ b.name \notin Managed /\ Unsupported(all, b)
    BY <1>5 DEF Addon001Aws
  <2>2. f.on = b.name /\ f.rule \in Addons /\ f.planes = {"aws"}
    BY <2>1, FoundFields DEF Addon001CatalogFinding, Addon001Finding, Addons
  <2>3. b \in some.addons
    BY <1>3, <2>2
  <2>4. Unsupported(all, b) => Unsupported(some, b)
    BY <1>2 DEF Unsupported, Verifiable
  <2>5. f \in Addon001Aws(some, v, context)
    BY <2>1, <2>3, <2>4 DEF Addon001Aws
  <2>6. QED
    BY <2>5 DEF AwsFindings, some, context
<1>6. CASE f \in Addon002Aws(all, v)
  <2>1. PICK b \in all.addons : /\ f = Addon002Finding(b.name, "aws") /\ b.name \in Managed
                                /\ ~Catalogued(b.name, v) \/ NeedsReview(b, v)
    BY <1>6 DEF Addon002Aws
  <2>2. f.on = b.name /\ f.rule \in Addons /\ f.planes = {"aws"}
    BY <2>1, FoundFields DEF Addon002Finding, Addons
  <2>3. f \in Addon002Aws(some, v)
    BY <1>3, <2>1, <2>2 DEF Addon002Aws
  <2>4. QED
    BY <2>3 DEF AwsFindings, some, context
<1>7. CASE f \in NodegroupFindings(all, v)
  <2>1. PICK g \in all.nodegroups :
          \/ f = EksNgFinding("EKS-NG-001", g, "warning") /\ g.unhealthy
          \/ f = EksNgFinding("EKS-NG-002", g, "warning") /\ g.desired <= g.min
          \/ f = EksNgFinding("EKS-NG-003", g, "info") /\ g.custom
          \/ f = EksNgFinding("EKS-NG-004", g, "info") /\ g.version + 1 < v
    BY <1>7 DEF NodegroupFindings
  <2>2. f.on = g.name /\ f.rule \in Nodegroups /\ f.planes = {"aws"}
    BY <2>1, FoundFields DEF EksNgFinding, Nodegroups
  <2>3. g \in some.nodegroups
    BY <1>4, <2>2
  <2>4. f \in NodegroupFindings(some, v)
    BY <2>1, <2>3 DEF NodegroupFindings
  <2>5. QED
    BY <2>4 DEF AwsFindings, some, context
<1>8. CASE f \in InsightFindings(all) \/ f \in Node002(all, context) \/ f \in Net002(all, context)
  BY <1>2, <1>8 DEF InsightFindings, WithStatus, Node002, Net002, AwsFindings, some, context
<1>9. QED
  BY <1>1, <1>5, <1>6, <1>7, <1>8 DEF AwsFindings

(* ... and they find in the snapshot what they find in the first pages.    *)
LEMMA NothingMissed ==
  ASSUME AwsInv, todo = <<>>, NEW f \in TrueAwsFindings(target), ~AwsGap(f.rule), ~OnLaterPage(f)
  PROVE  f \in AwsFindings(snap, target, opts.context)
<1> DEFINE all == Listed(target)
           v == target
           context == opts.context
<1>1. f \in AwsFindings(all, v, context)
  BY LaterPagesMissed
<1>2. AwsRulesFind(all, v, context)
  BY AwsRulesNameThemselves
<1>3. /\ (\E r \in Insights : ~AwsGap(r)) => all.insights \subseteq snap.insights
      /\ (\E r \in Addons : ~AwsGap(r)) =>
           /\ all.addons \subseteq snap.addons
           /\ \A e \in snap.errors : e.call # "describe-addon-versions"
      /\ (\E r \in Nodegroups : ~AwsGap(r)) => all.nodegroups \subseteq snap.nodegroups
      /\ ~AwsGap("NODE-002") => all.subnets \subseteq snap.subnets
      /\ ~AwsGap("NET-002") => all.issues \subseteq snap.issues
  BY CollectedParts
<1> HIDE DEF all, v, context
<1>4. CASE f \in Addon001Aws(all, v, context)
  <2>1. f.rule \in Addons
    BY <1>2, <1>4 DEF AwsRulesFind, Addons
  <2>2. all.addons \subseteq snap.addons /\ \A e \in snap.errors : e.call # "describe-addon-versions"
    BY <1>3, <2>1
  <2>3. f \in Addon001Aws(snap, v, context)
    BY <1>4, <2>2 DEF Addon001Aws, Unsupported, Verifiable
  <2>4. QED
    BY <2>3 DEF AwsFindings, v, context
<1>5. CASE f \in Addon002Aws(all, v)
  <2>1. f.rule \in Addons
    BY <1>2, <1>5 DEF AwsRulesFind, Addons
  <2>2. all.addons \subseteq snap.addons
    BY <1>3, <2>1
  <2>3. f \in Addon002Aws(snap, v)
    BY <1>5, <2>2 DEF Addon002Aws
  <2>4. QED
    BY <2>3 DEF AwsFindings, v, context
<1>6. CASE f \in InsightFindings(all)
  <2>1. f.rule \in Insights
    BY <1>2, <1>6 DEF AwsRulesFind
  <2>2. all.insights \subseteq snap.insights
    BY <1>3, <2>1
  <2>3. f \in InsightFindings(snap)
    BY <1>6, <2>2 DEF InsightFindings, WithStatus
  <2>4. QED
    BY <2>3 DEF AwsFindings, v, context
<1>7. CASE f \in NodegroupFindings(all, v)
  <2>1. f.rule \in Nodegroups
    BY <1>2, <1>7 DEF AwsRulesFind
  <2>2. all.nodegroups \subseteq snap.nodegroups
    BY <1>3, <2>1
  <2>3. f \in NodegroupFindings(snap, v)
    BY <1>7, <2>2 DEF NodegroupFindings
  <2>4. QED
    BY <2>3 DEF AwsFindings, v, context
<1>8. CASE f \in Node002(all, context)
  <2>1. all.subnets \subseteq snap.subnets
    BY <1>2, <1>3, <1>8 DEF AwsRulesFind
  <2>2. f \in Node002(snap, context)
    BY <1>8, <2>1 DEF Node002
  <2>3. QED
    BY <2>2 DEF AwsFindings, v, context
<1>9. CASE f \in Net002(all, context)
  <2>1. all.issues \subseteq snap.issues
    BY <1>2, <1>3, <1>9 DEF AwsRulesFind
  <2>2. f \in Net002(snap, context)
    BY <1>9, <2>1 DEF Net002
  <2>3. QED
    BY <2>2 DEF AwsFindings, v, context
<1>10. QED
  BY <1>1, <1>4, <1>5, <1>6, <1>7, <1>8, <1>9 DEF AwsFindings

(* An add-on that is called incompatible is: what could not be had of it   *)
(* counts for nothing.                                                     *)
LEMMA NothingInvented ==
  ASSUME AwsInv, todo = <<>>, NEW f \in AwsFindings(snap, target, opts.context),
         f.rule = "ADDON-001"
  PROVE  f \in TrueAwsFindings(target)
<1> DEFINE all == Complete(target)
           v == target
           context == opts.context
<1>1. f \in Addon001Aws(snap, v, context)
  BY AwsRulesNameThemselves DEF AwsFindings, AwsRulesFind, Insights, Nodegroups
<1>2. ASSUME NEW b \in snap.addons, b.version # NoVersion
      PROVE  \E c \in all.addons :
               /\ c.name = b.name /\ c.version = b.version
               /\ Verifiable(snap, b) => c.compatible = b.compatible
  <2>1. PICK a \in account.addons :
          /\ a.name = b.name /\ a.version = b.version
          /\ \/ b.compatible = a.compatible[v]
             \/ Key("describe-addon-versions", a.name) \in snap.errors
    BY <1>2, NothingAsked DEF AwsInv, AddonsReal
  <2> DEFINE c == AddonRecord(a, a.compatible[v])
  <2>2. c \in all.addons /\ c.name = b.name /\ c.version = b.version /\ c.compatible = a.compatible[v]
    BY <2>1, CompleteIs, AddonFields
  <2>3. Key("describe-addon-versions", a.name) \in snap.errors => ~Verifiable(snap, b)
    BY <2>1, KeyIs DEF Verifiable
  <2> HIDE DEF c, all, v
  <2>4. QED
    BY <2>1, <2>2, <2>3
<1>3. all.errors = {}
  BY CompleteIs
<1> HIDE DEF all, v, context
<1>4. CASE f \in {Addon001CatalogFinding(a, v, context, "aws") :
                    a \in {b \in snap.addons : /\ b.name \in Managed /\ Catalogued(b.name, v)
                                               /\ Incompatible(b, v)}}
  <2>1. PICK b \in snap.addons : /\ b.name \in Managed /\ Catalogued(b.name, v)
                                 /\ Incompatible(b, v)
                                 /\ f = Addon001CatalogFinding(b, v, context, "aws")
    BY <1>4
  <2>2. b.version # NoVersion
    BY <2>1 DEF Incompatible, StatusOf, InstalledStatus, Unversioned, NoVersion
  <2>3. PICK c \in all.addons : c.name = b.name /\ c.version = b.version
    BY <1>2, <2>2
  <2>4. Incompatible(c, v) /\ Addon001CatalogFinding(c, v, context, "aws") = f
    BY <2>1, <2>3 DEF Incompatible, StatusOf, Addon001CatalogFinding, ImpactsOf
  <2>5. f \in Addon001Aws(all, v, context)
    BY <2>1, <2>3, <2>4 DEF Addon001Aws
  <2>6. QED
    BY <2>5 DEF TrueAwsFindings, AwsFindings, all, v, context
<1>5. CASE f \in {Addon001Finding(a.name, context) :
                    a \in {b \in snap.addons : b.name \notin Managed /\ Unsupported(snap, b)}}
  <2>1. PICK b \in snap.addons : /\ b.name \notin Managed /\ Unsupported(snap, b)
                                 /\ f = Addon001Finding(b.name, context)
    BY <1>5
  <2>2. Verifiable(snap, b) /\ b.version # NoVersion
    BY <2>1 DEF Unsupported, Verifiable, NoVersion, Unversioned
  <2>3. PICK c \in all.addons :
          c.name = b.name /\ c.version = b.version /\ c.compatible = b.compatible
    BY <1>2, <2>2
  <2>4. Unsupported(all, c)
    BY <1>3, <2>1, <2>3 DEF Unsupported, Verifiable
  <2>5. f \in Addon001Aws(all, v, context)
    BY <2>1, <2>3, <2>4 DEF Addon001Aws
  <2>6. QED
    BY <2>5 DEF TrueAwsFindings, AwsFindings, all, v, context
<1>6. QED
  BY <1>1, <1>4, <1>5 DEF Addon001Aws
-----------------------------------------------------------------------------
(* The command as a whole: where it is, and what that says of the hop, of  *)
(* the AWS plane, of the other evidence and of the reports.                *)
Reading == {"kubernetes", "load", "aws", "manifests", "charts", "assess"}
Reported == {"next", "fresh", "project", "write"}

HopOK ==
  /\ account \in Accounts /\ opts \in Options /\ cluster \in Clusters
  /\ pc \in {"resolve", "done"} \cup Reading \cup Reported
  /\ from \in Nat /\ hop \in Nat
  /\ pc \in {"resolve"} \cup Reading => DOMAIN reports = {}
  /\ pc \in Reading => hop = from + 1
  /\ pc \in {"fresh", "project"} => hop > from + 1
  /\ pc = "next" => hop > from

(* A collection under way is for the current hop, and one that is over is  *)
(* complete but for what its keys say.                                     *)
AwsOK ==
  /\ pc = "load" => opts.eks
  /\ aws = "loaded" => opts.eks /\ target = hop /\ AwsInv
  /\ pc \in {"resolve", "kubernetes", "load"} => aws = "skipped"
  /\ pc \in {"aws", "fresh"} => aws = "loaded"
  /\ aws = "loaded" /\ pc \notin {"aws", "fresh"} => todo = <<>>

WholeManifests == IF opts.manifests THEN cluster.files \cup cluster.chart ELSE {}
EvidenceOK ==
  /\ live.state \subseteq cluster.state
  /\ pc \notin {"resolve", "kubernetes", "done"} /\ live.errors = {} =>
       /\ live.apis = cluster.apis /\ live.workloads = cluster.workloads
       /\ live.state = cluster.state
  /\ pc \in {"resolve", "kubernetes", "load", "aws", "manifests"} => manifests = NoManifests
  /\ pc = "charts" => /\ opts.manifests
                      /\ manifests = [objects |-> manifests.objects, errors |-> manifests.errors]
                      /\ manifests.errors = {} => manifests.objects = cluster.files
  /\ pc \in {"assess"} \cup Reported /\ manifests.errors = {} =>
       manifests.objects = WholeManifests

(* What is so of the report of the hop to v.                               *)
SilenceEarned(v, report) ==
  \A f \in TrueAwsFindings(v) :
    (opts.eks /\ f.rule \in report.silent) => f \in report.findings \/ OnLaterPage(f)
RightlyIncompatible(v, report) ==
  \A f \in report.findings :
    (f.rule = "ADDON-001" /\ f.planes = {"aws"}) => f \in TrueAwsFindings(v)
FromManifests(v, report) ==
  /\ \A f \in report.findings : f.rule \in ApiRules => f.planes = {"manifest"}
  /\ \A o \in Removed(manifests.objects, v) :
       \/ "API-001" \notin report.silent
       \/ Found("API-001", o.name, {"manifest"}, "block") \in report.findings
HopReportOK(v, report) ==
  /\ SilenceEarned(v, report) /\ RightlyIncompatible(v, report)
  /\ v # FirstHop => FromManifests(v, report)

(* The first hop's report, when it calls itself complete, has everything   *)
(* there is to find, but what is on a later page.                          *)
FirstOK(report, code) ==
  /\ code = ReportExitCode(report.findings, report.complete)
  /\ report.complete => \A f \in TrueFindings : f \in report.findings \/ OnLaterPage(f)

ReportsOK ==
  /\ \A v \in DOMAIN reports : HopReportOK(v, reports[v])
  /\ Assessed => FirstOK(First, exitCode)

PlanInv == HopOK /\ AwsOK /\ EvidenceOK /\ ReportsOK

LEMMA InitIsOK ==
  ASSUME Init
  PROVE  PlanInv
<1>1. HopOK
  BY DEF Init, CollectorInit, HopOK, Reading, Reported, NoVersion
<1>2. AwsOK
  BY DEF Init, CollectorInit, AwsOK
<1>3. EvidenceOK
  BY DEF Init, EvidenceOK, NothingLive, Reported
<1>4. ReportsOK
  BY DEF Init, ReportsOK, Assessed
<1>5. QED
  BY <1>1, <1>2, <1>3, <1>4 DEF PlanInv

(* What no step changes. *)
LEMMA Stay ==
  ASSUME PlanInv, Next
  PROVE  account' = account /\ opts' = opts /\ cluster' = cluster
<1>1. CASE CollectAws
  BY <1>1, AwsStep DEF CollectAws, PlanInv, AwsOK, inputs
<1>2. CASE Load
  BY <1>2 DEF Load, Begin, Aside, inputs
<1>3. CASE NextHop
  BY <1>3 DEF NextHop, Begin, inputs, collectorVars
<1>4. CASE Resolve \/ CollectKubernetes \/ ReadManifests \/ RenderCharts
  BY <1>4 DEF Resolve, CollectKubernetes, ReadManifests, RenderCharts, Aside, inputs
<1>5. CASE Assess \/ Project \/ Render \/ Write
  BY <1>5 DEF Assess, Project, Render, Write, collectorVars, inputs
<1>6. CASE Signal
  BY <1>6 DEF Signal, Interrupt, inputs
<1>7. QED
  BY <1>1, <1>2, <1>3, <1>4, <1>5, <1>6 DEF Next, Main

LEMMA VersionsAreNumbers ==
  ASSUME HopOK
  PROVE  /\ opts.from \in Nat /\ opts.to \in Nat /\ opts.eks \in BOOLEAN
         /\ cluster.version \in Nat
         /\ \A f \in cluster.state : f.rule \notin AwsRuleIDs \cup ApiRules
BY PlanAssumption DEF HopOK

LEMMA PathIs ==
  ASSUME NEW version \in Nat, Path(version)
  PROVE  \/ pc' = "kubernetes" /\ from' = version /\ hop' = version + 1
         \/ pc' = "done" /\ from' = from /\ hop' = hop
BY DEF Path, Goto, Exit

LEMMA ResolveIs ==
  ASSUME HopOK, Resolve
  PROVE  /\ pc = "resolve" /\ pc' \in {"kubernetes", "done"}
         /\ from' \in Nat /\ hop' \in Nat /\ (pc' = "kubernetes" => hop' = from' + 1)
         /\ UNCHANGED <<inputs, evidence, reports, exitCode, account, target, todo, snap>>
<1>1. pc = "resolve" /\ from \in Nat /\ hop \in Nat
  BY DEF Resolve, HopOK
<1>2. \/ \E version \in Nat : Path(version)
      \/ pc' = "done" /\ from' = from /\ hop' = hop
  BY VersionsAreNumbers DEF Resolve, Exit
<1>3. UNCHANGED <<inputs, evidence, reports, exitCode, account, target, todo, snap>>
  BY DEF Resolve, Aside
<1>4. QED
  BY <1>1, <1>2, <1>3, PathIs

LEMMA HopStep ==
  ASSUME PlanInv, Next
  PROVE  HopOK'
<1>1. HopOK /\ account' \in Accounts /\ opts' \in Options /\ cluster' \in Clusters
  BY Stay DEF PlanInv, HopOK
<1> DEFINE Rest == /\ pc \in {"resolve", "done"} \cup Reading \cup Reported
                   /\ from \in Nat /\ hop \in Nat
                   /\ pc \in {"resolve"} \cup Reading => DOMAIN reports = {}
                   /\ pc \in Reading => hop = from + 1
                   /\ pc \in {"fresh", "project"} => hop > from + 1
                   /\ pc = "next" => hop > from
<1>2. Rest
  BY <1>1 DEF HopOK
<1>3. SUFFICES Rest'
  BY <1>1 DEF HopOK
<1>4. CASE Resolve
  BY <1>1, <1>2, <1>4, ResolveIs DEF Reading, Reported
<1>5. CASE CollectKubernetes
  BY <1>2, <1>5 DEF CollectKubernetes, Goto, Reading, Reported
<1>6. CASE Load
  BY <1>2, <1>6 DEF Load, Goto, Reading, Reported
<1>7. CASE CollectAws
  BY <1>2, <1>7 DEF CollectAws
<1>8. CASE ReadManifests
  BY <1>2, <1>8 DEF ReadManifests, Goto, Reading, Reported
<1>9. CASE RenderCharts
  BY <1>2, <1>9 DEF RenderCharts, Goto, Reading, Reported
<1>10. CASE Assess
  BY <1>2, <1>10 DEF Assess, Goto, Reading, Reported
<1>11. CASE NextHop
  BY <1>2, <1>11 DEF NextHop, Goto, Reading, Reported
<1>12. CASE Project
  BY <1>2, <1>12 DEF Project, Goto, Reading, Reported
<1>13. CASE Render
  BY <1>2, <1>13 DEF Render, Goto, Exit, Reading, Reported
<1>14. CASE Write
  BY <1>2, <1>14 DEF Write, Exit, Reading, Reported
<1>15. CASE Signal
  BY <1>2, <1>15 DEF Signal
<1>16. QED
  BY <1>4, <1>5, <1>6, <1>7, <1>8, <1>9, <1>10, <1>11, <1>12, <1>13, <1>14, <1>15 DEF Next, Main

LEMMA AwsOKStep ==
  ASSUME PlanInv, Next
  PROVE  AwsOK'
<1>1. HopOK /\ AwsOK
  BY DEF PlanInv
<1>2. ASSUME UNCHANGED <<account, target, todo, snap>>, AwsInv PROVE AwsInv'
  BY <1>2, AwsStays
<1>3. CASE Resolve
  BY <1>1, <1>3, ResolveIs DEF AwsOK, evidence
<1>4. CASE CollectKubernetes
  BY <1>1, <1>4 DEF AwsOK, CollectKubernetes, Goto, inputs
<1>5. CASE Load
  <2>1. CASE Answers /\ Begin(hop) /\ aws' = "loaded" /\ Goto("aws")
    BY <1>1, <1>5, <2>1, AwsBegins DEF AwsOK, HopOK, Load, Goto, inputs
  <2>2. CASE aws' = "unavailable" /\ Goto("manifests")
    BY <2>2 DEF AwsOK, Goto
  <2>3. QED
    BY <1>5, <2>1, <2>2 DEF Load
<1>6. CASE CollectAws
  BY <1>1, <1>6, AwsStep DEF AwsOK, CollectAws, inputs, evidence
<1>7. CASE ReadManifests
  BY <1>1, <1>2, <1>7 DEF AwsOK, ReadManifests, Goto, Aside, inputs, Collecting
<1>8. CASE RenderCharts
  BY <1>1, <1>2, <1>8 DEF AwsOK, RenderCharts, Goto, Aside, inputs
<1>9. CASE Assess
  BY <1>1, <1>2, <1>9 DEF AwsOK, Assess, Goto, collectorVars, inputs, evidence
<1>10. CASE NextHop
  <2>1. CASE aws = "loaded"
    BY <1>1, <1>10, <2>1, AwsBegins DEF AwsOK, HopOK, NextHop, Goto, inputs, evidence
  <2>2. CASE aws # "loaded"
    BY <1>10, <2>2 DEF AwsOK, NextHop, Goto, evidence
  <2>3. QED
    BY <2>1, <2>2
<1>11. CASE Project
  BY <1>1, <1>2, <1>11 DEF AwsOK, Project, Goto, collectorVars, inputs, evidence, Collecting
<1>12. CASE Render \/ Write
  BY <1>1, <1>2, <1>12 DEF AwsOK, Render, Write, Goto, Exit, collectorVars, inputs, evidence
<1>13. CASE Signal
  BY <1>1, <1>2, <1>13 DEF AwsOK, Signal, Interrupt, inputs, evidence
<1>14. QED
  BY <1>3, <1>4, <1>5, <1>6, <1>7, <1>8, <1>9, <1>10, <1>11, <1>12, <1>13 DEF Next, Main

LEMMA EvidenceStep ==
  ASSUME PlanInv, Next
  PROVE  EvidenceOK'
<1>1. HopOK /\ EvidenceOK /\ cluster' = cluster /\ opts' = opts
  BY Stay DEF PlanInv
<1>2. WholeManifests' = WholeManifests
  BY <1>1 DEF WholeManifests
<1>3. CASE Resolve
  BY <1>1, <1>3, ResolveIs DEF EvidenceOK, evidence, Reported
<1>4. CASE CollectKubernetes
  <2>1. PICK lost : live' = Seen(lost) /\ (lost = Lists \/ lost \in SUBSET Lists)
    BY <1>4 DEF CollectKubernetes
  <2>2. pc = "kubernetes" /\ pc' \in {"load", "manifests"} /\ manifests' = manifests
    BY <1>4 DEF CollectKubernetes, Goto
  <2>3. live'.state \subseteq cluster.state
    BY <2>1 DEF Seen
  <2>4. live'.errors = {} => /\ live'.apis = cluster.apis /\ live'.workloads = cluster.workloads
                             /\ live'.state = cluster.state
    BY <2>1 DEF Seen
  <2>5. QED
    BY <1>1, <2>2, <2>3, <2>4 DEF EvidenceOK, Reported
<1>5. CASE Load
  BY <1>1, <1>5 DEF EvidenceOK, Load, Goto, Reported
<1>6. CASE CollectAws
  BY <1>1, <1>2, <1>6 DEF EvidenceOK, CollectAws, evidence
<1>7. CASE ReadManifests
  <2>1. /\ pc \in {"manifests", "aws"} /\ live' = live /\ manifests = NoManifests
    BY <1>1, <1>7 DEF ReadManifests, EvidenceOK
  <2>2. CASE ~opts.manifests /\ Goto("assess") /\ UNCHANGED manifests
    <3>1. WholeManifests = {} /\ manifests'.objects = {}
      BY <2>1, <2>2 DEF WholeManifests, NoManifests
    <3>2. QED
      BY <1>1, <1>2, <2>1, <2>2, <3>1 DEF EvidenceOK, Goto, Reported
  <2>3. CASE /\ opts.manifests /\ Goto("charts")
             /\ \E objects, errors :
                  /\ manifests' = [objects |-> objects, errors |-> errors]
                  /\ errors = {} => objects = cluster.files
    BY <1>1, <2>1, <2>3 DEF EvidenceOK, Goto, Reported
  <2>4. QED
    <3>1. \/ ~opts.manifests /\ Goto("assess") /\ UNCHANGED manifests
          \/ /\ opts.manifests /\ Goto("charts")
             /\ \/ manifests' = [objects |-> cluster.files, errors |-> {}]
                \/ \E kept \in SUBSET cluster.files :
                     manifests' = [objects |-> kept, errors |-> {"files"}]
      BY <1>7 DEF ReadManifests
    <3>2. {"files"} # {}
      OBVIOUS
    <3>3. QED
      BY <2>2, <2>3, <3>1, <3>2
<1>8. CASE RenderCharts
  <2>1. /\ pc = "charts" /\ pc' = "assess" /\ live' = live /\ opts.manifests
        /\ manifests = [objects |-> manifests.objects, errors |-> manifests.errors]
        /\ manifests.errors = {} => manifests.objects = cluster.files
    BY <1>1, <1>8 DEF RenderCharts, Goto, EvidenceOK
  <2>2. WholeManifests = cluster.files \cup cluster.chart
    BY <2>1 DEF WholeManifests
  <2>3. manifests'.errors = {} => manifests'.objects = WholeManifests
    <3>1. \/ Rendered(cluster.chart, {})
          \/ \E kept : Rendered(kept, {"chart"})
      BY <1>8 DEF RenderCharts
    <3>2. CASE Rendered(cluster.chart, {})
      BY <2>1, <2>2, <3>2 DEF Rendered
    <3>3. CASE \E kept : Rendered(kept, {"chart"})
      BY <3>3 DEF Rendered
    <3>4. QED
      BY <3>1, <3>2, <3>3
  <2>4. QED
    BY <1>1, <1>2, <2>1, <2>3 DEF EvidenceOK, Reported
<1>9. CASE Assess
  BY <1>1, <1>2, <1>9 DEF EvidenceOK, Assess, Goto, evidence, Reported
<1>10. CASE NextHop
  BY <1>1, <1>2, <1>10 DEF EvidenceOK, NextHop, Goto, evidence, Reported
<1>11. CASE Project
  BY <1>1, <1>2, <1>11 DEF EvidenceOK, Project, Goto, evidence, Reported
<1>12. CASE Render
  BY <1>1, <1>2, <1>12 DEF EvidenceOK, Render, Goto, Exit, evidence, Reported
<1>13. CASE Write
  BY <1>1, <1>2, <1>13 DEF EvidenceOK, Write, Exit, evidence, Reported
<1>14. CASE Signal
  BY <1>1, <1>2, <1>14 DEF EvidenceOK, Signal, evidence
<1>15. QED
  BY <1>3, <1>4, <1>5, <1>6, <1>7, <1>8, <1>9, <1>10, <1>11, <1>12, <1>13, <1>14 DEF Next, Main
-----------------------------------------------------------------------------
(* A report stays what it was.                                             *)
LEMMA ReportsStay ==
  ASSUME ReportsOK, UNCHANGED <<account, opts, reports, exitCode>>,
         DOMAIN reports = {} \/ UNCHANGED <<cluster, from, manifests>>
  PROVE  ReportsOK'
<1>1. CASE DOMAIN reports = {}
  BY <1>1 DEF ReportsOK, Assessed
<1>2. CASE UNCHANGED <<cluster, from, manifests>>
  <2>1. \A v : TrueAwsFindings(v)' = TrueAwsFindings(v)
    BY DEF TrueAwsFindings, Complete
  <2>2. FirstHop' = FirstHop /\ TrueFindings' = TrueFindings
    BY <1>2, <2>1 DEF FirstHop, TrueFindings
  <2>3. QED
    BY <1>2, <2>1, <2>2 DEF ReportsOK, Assessed, First, FirstOK, HopReportOK, SilenceEarned,
       RightlyIncompatible, FromManifests, OnLaterPage
<1>3. QED
  BY <1>1, <1>2

LEMMA AllOfAws ==
  ASSUME NEW f \in AllFindings(hop), f.rule \in AwsRuleIDs, HopOK, EvidenceOK
  PROVE  \/ aws = "loaded" /\ f \in AwsFindings(snap, hop, opts.context)
         \/ f.planes = {"live"} /\ f.rule \in Addons
<1>1. \/ aws = "loaded" /\ f \in AwsFindings(snap, hop, opts.context)
      \/ f \in AddonsLive(live.workloads, hop, opts.context, aws = "loaded")
      \/ f \in ApiFindings(live.apis, manifests.objects, hop)
      \/ f \in live.state
  BY DEF AllFindings
<1>2. f \notin ApiFindings(live.apis, manifests.objects, hop)
  BY ApiFindingsAre DEF ApiRules, AwsRuleIDs, Insights, Nodegroups, Addons
<1>3. f \notin live.state
  BY VersionsAreNumbers DEF EvidenceOK
<1>4. QED
  BY <1>1, <1>2, <1>3, AddonsLiveAre

(* What the assessment of the first hop, or of a later one, says of the    *)
(* add-ons: it is so.                                                      *)
LEMMA Rightly ==
  ASSUME HopOK, AwsOK, EvidenceOK, pc \in {"assess", "fresh", "project"},
         aws = "loaded" => todo = <<>>,
         NEW f \in AllFindings(hop), f.rule = "ADDON-001", f.planes = {"aws"}
  PROVE  f \in TrueAwsFindings(hop)
<1>1. f.rule \in AwsRuleIDs /\ f.planes # {"live"}
  BY DEF AwsRuleIDs, Addons
<1>2. aws = "loaded" /\ f \in AwsFindings(snap, hop, opts.context)
  BY <1>1, AllOfAws
<1>3. AwsInv /\ todo = <<>> /\ target = hop
  BY <1>2 DEF AwsOK
<1>4. QED
  BY <1>2, <1>3, NothingInvented

LEMMA AssessStep ==
  ASSUME PlanInv, Assess
  PROVE  ReportsOK'
<1> DEFINE found == {f \in AllFindings(hop) : ~Withheld(f.rule)}
           silent == {r \in AwsRuleIDs \cup ApiRules : ~Withheld(r) /\ ~Gap(r)}
           report == [findings |-> found, complete |-> Complete1, silent |-> silent]
           code == ReportExitCode(found, Complete1)
<1>1. HopOK /\ AwsOK /\ EvidenceOK /\ pc = "assess" /\ hop = FirstHop
  BY DEF PlanInv, Assess, HopOK, Reading, FirstHop
<1>2. aws = "loaded" => AwsInv /\ todo = <<>> /\ target = hop
  BY <1>1 DEF AwsOK
<1>3. DOMAIN reports' = {hop} /\ reports'[hop] = report /\ exitCode' = code
  <2>1. DOMAIN reports = {}
    BY <1>1 DEF HopOK, Reading
  <2>2. reports' = Planned(report) /\ exitCode' = code
    BY DEF Assess
  <2> HIDE DEF report, code
  <2>3. QED
    BY <2>1, <2>2 DEF Planned
<1>4. report.findings = found /\ report.complete = Complete1 /\ report.silent = silent
  OBVIOUS
<1>5. ASSUME NEW f \in TrueAwsFindings(hop), opts.eks, f.rule \in silent, ~OnLaterPage(f)
      PROVE  f \in found
  <2>1. f.rule \in AwsRuleIDs
    BY AwsRulesAre DEF TrueAwsFindings
  <2>2. aws = "loaded" /\ ~AwsGap(f.rule) /\ ~Withheld(f.rule)
    BY <1>5, <2>1 DEF Withheld, Gap, NeedsAws
  <2>3. f \in AwsFindings(snap, hop, opts.context)
    BY <1>2, <1>5, <2>2, NothingMissed
  <2>4. QED
    BY <2>2, <2>3 DEF AllFindings
<1>6. ASSUME NEW f \in found, f.rule = "ADDON-001", f.planes = {"aws"}
      PROVE  f \in TrueAwsFindings(hop)
  BY <1>1, <1>2, <1>6, Rightly
<1>7. ASSUME Complete1, NEW f \in TrueFindings, ~OnLaterPage(f) PROVE f \in found
  <2>1. /\ live.errors = {} /\ manifests.errors = {}
        /\ opts.eks => aws = "loaded" /\ snap.errors = {}
    BY <1>7 DEF Complete1
  <2>2. /\ live.apis = cluster.apis /\ live.workloads = cluster.workloads
        /\ live.state = cluster.state /\ manifests.objects = WholeManifests
    BY <1>1, <2>1 DEF EvidenceOK
  <2>3. opts.eks = (aws = "loaded")
    BY <1>1, <2>1, VersionsAreNumbers DEF AwsOK
  <2>4. CASE opts.eks /\ f \in TrueAwsFindings(hop)
    <3>1. ~AwsGap(f.rule)
      BY <2>1, <2>4 DEF AwsGap
    <3>2. f \in AwsFindings(snap, hop, opts.context)
      BY <1>2, <1>7, <2>3, <2>4, <3>1, NothingMissed
    <3>3. QED
      BY <2>3, <2>4, <3>2 DEF AllFindings, Withheld
  <2>5. CASE f \in AddonsLive(cluster.workloads, hop, opts.context, opts.eks)
    <3>1. f \in AddonsLive(live.workloads, hop, opts.context, aws = "loaded")
      BY <2>2, <2>3, <2>5
    <3>2. f.rule \in Addons
      BY <3>1, AddonsLiveAre
    <3>3. QED
      BY <2>3, <3>1, <3>2 DEF AllFindings, Withheld, NeedsAws
  <2>6. CASE f \in ApiFindings(cluster.apis, WholeManifests, hop)
    <3>1. f.rule \in ApiRules
      BY <2>6, ApiFindingsAre
    <3>2. f.rule \notin AwsRuleIDs
      BY <3>1 DEF ApiRules, AwsRuleIDs, Insights, Nodegroups, Addons
    <3>3. QED
      BY <2>2, <2>6, <3>2 DEF AllFindings, Withheld, NeedsAws
  <2>7. CASE f \in cluster.state
    <3>1. f.rule \notin AwsRuleIDs
      BY <1>1, <2>7, VersionsAreNumbers
    <3>2. QED
      BY <2>2, <2>7, <3>1 DEF AllFindings, Withheld, NeedsAws
  <2>8. QED
    BY <1>1, <1>7, <2>4, <2>5, <2>6, <2>7 DEF TrueFindings, WholeManifests
<1> HIDE DEF found, silent, report, code
<1>8. code = ReportExitCode(report.findings, report.complete)
  BY <1>4 DEF code
<1>9. /\ \A v : TrueAwsFindings(v)' = TrueAwsFindings(v)
      /\ \A f : OnLaterPage(f)' = OnLaterPage(f)
      /\ FirstHop' = FirstHop /\ opts' = opts
  BY DEF Assess, TrueAwsFindings, OnLaterPage, Complete, FirstHop, collectorVars, inputs
<1>10. TrueFindings' = TrueFindings
  BY <1>9 DEF TrueFindings, Assess, inputs
<1>11. First' = report
  BY <1>1, <1>3, <1>9 DEF First
<1>12. FirstOK(First, exitCode)'
  <2>1. report.complete => \A f \in TrueFindings : f \in report.findings \/ OnLaterPage(f)
    BY <1>4, <1>7
  <2>2. report.complete => \A f \in TrueFindings' : f \in report.findings \/ OnLaterPage(f)'
    BY <1>9, <1>10, <2>1
  <2>3. QED
    BY <1>3, <1>8, <1>11, <2>2 DEF FirstOK
<1>13. \A v \in DOMAIN reports' : HopReportOK(v, reports[v])'
  BY <1>1, <1>3, <1>4, <1>5, <1>6, <1>9 DEF HopReportOK, SilenceEarned, RightlyIncompatible
<1>14. QED
  BY <1>12, <1>13 DEF ReportsOK

LEMMA ProjectStep ==
  ASSUME PlanInv, Project
  PROVE  ReportsOK'
<1> DEFINE found == {f \in AllFindings(hop) : Projected(f)}
           silent == SilentRules(hop)
           report == [findings |-> found, complete |-> PredictedComplete, silent |-> silent]
<1>1. /\ HopOK /\ AwsOK /\ EvidenceOK /\ ReportsOK /\ pc \in {"fresh", "project"}
      /\ hop # FirstHop /\ hop > FirstHop
  BY DEF PlanInv, Project, HopOK, FirstHop
<1>2. aws = "loaded" => AwsInv /\ todo = <<>> /\ target = hop
  BY <1>1 DEF AwsOK, Project, Collecting
<1>3. /\ DOMAIN reports' = {hop} \cup DOMAIN reports /\ reports'[hop] = report
      /\ \A v \in DOMAIN reports : v # hop => reports'[v] = reports[v]
  <2>1. reports' = Planned(report)
    BY DEF Project
  <2> HIDE DEF report
  <2>2. QED
    BY <2>1 DEF Planned
<1>4. report.findings = found /\ report.silent = silent
  OBVIOUS
<1>5. ASSUME NEW f \in TrueAwsFindings(hop), f.rule \in silent, ~OnLaterPage(f)
      PROVE  f \in found
  <2>1. f.rule \in AwsRuleIDs
    BY AwsRulesAre DEF TrueAwsFindings
  <2>2. f.rule \notin ManifestProjectable
    BY <2>1 DEF ManifestProjectable, ApiRules, AwsRuleIDs, Insights, Nodegroups, Addons
  <2>3. f.rule \in AwsProjectable /\ aws = "loaded" /\ ~AwsGap(f.rule)
    BY <1>5, <2>2 DEF SilentRules, ProjectionIncomplete
  <2>4. f \in AwsFindings(snap, hop, opts.context)
    BY <1>2, <1>5, <2>3, NothingMissed
  <2>5. QED
    BY <2>3, <2>4 DEF AllFindings, Projected
<1>6. ASSUME NEW f \in found, f.rule = "ADDON-001", f.planes = {"aws"}
      PROVE  f \in TrueAwsFindings(hop)
  BY <1>1, <1>2, <1>6, Rightly
<1>7. ASSUME NEW f \in found, f.rule \in ApiRules PROVE f.planes = {"manifest"}
  <2>1. f.rule \notin AwsProjectable
    BY <1>7 DEF AwsProjectable, ApiRules, Insights, Addons
  <2>2. QED
    BY <1>7, <2>1 DEF Projected, IsManifestOnlyFinding
<1>8. ASSUME NEW o \in Removed(manifests.objects, hop), "API-001" \in silent
      PROVE  Found("API-001", o.name, {"manifest"}, "block") \in found
  <2> DEFINE m == Found("API-001", o.name, {"manifest"}, "block")
  <2>1. "API-001" \notin AwsProjectable /\ "API-001" \in ManifestProjectable
    BY DEF AwsProjectable, ManifestProjectable, ApiRules, Insights, Addons
  <2>2. \A f \in ApiFindings(live.apis, manifests.objects, hop) :
          f.rule = "API-001" => IsManifestOnlyFinding(f)
    BY <1>8, <2>1 DEF SilentRules
  <2>3. m \in ApiFindings(live.apis, manifests.objects, hop)
    BY <2>2, RemovedIsFound
  <2>4. m.rule = "API-001"
    BY FoundFields
  <2> HIDE DEF m
  <2>5. m \in AllFindings(hop) /\ Projected(m)
    BY <2>1, <2>2, <2>3, <2>4 DEF AllFindings, Projected
  <2>6. QED
    BY <2>5 DEF m
<1> HIDE DEF found, silent, report
<1>9. /\ \A v : TrueAwsFindings(v)' = TrueAwsFindings(v)
      /\ \A f : OnLaterPage(f)' = OnLaterPage(f)
      /\ FirstHop' = FirstHop /\ opts' = opts /\ manifests' = manifests
  BY DEF Project, TrueAwsFindings, OnLaterPage, Complete, FirstHop, collectorVars, inputs, evidence
<1>10. TrueFindings' = TrueFindings
  BY <1>9 DEF TrueFindings, Project, inputs
<1>11. Assessed' => Assessed /\ First' = First /\ exitCode' = exitCode
  BY <1>1, <1>3, <1>9 DEF Assessed, First, Project
<1>12. Assessed' => FirstOK(First, exitCode)'
  <2>1. SUFFICES ASSUME Assessed' PROVE FirstOK(First, exitCode)'
    OBVIOUS
  <2>2. FirstOK(First, exitCode)
    BY <1>1, <1>11, <2>1 DEF ReportsOK
  <2>3. First.complete => \A f \in TrueFindings' : f \in First.findings \/ OnLaterPage(f)'
    BY <1>9, <1>10, <2>2 DEF FirstOK
  <2>4. QED
    BY <1>11, <2>1, <2>2, <2>3 DEF FirstOK
<1>13. ASSUME NEW v \in DOMAIN reports' PROVE HopReportOK(v, reports[v])'
  <2>1. CASE v = hop
    BY <1>3, <1>4, <1>5, <1>6, <1>7, <1>8, <1>9, <2>1
       DEF HopReportOK, SilenceEarned, RightlyIncompatible, FromManifests
  <2>2. CASE v # hop
    <3>1. v \in DOMAIN reports /\ reports'[v] = reports[v]
      BY <1>3, <2>2
    <3>2. HopReportOK(v, reports[v])
      BY <1>1, <3>1 DEF ReportsOK
    <3>3. QED
      BY <1>9, <3>1, <3>2 DEF HopReportOK, SilenceEarned, RightlyIncompatible, FromManifests
  <2>3. QED
    BY <2>1, <2>2
<1>14. QED
  BY <1>12, <1>13 DEF ReportsOK
-----------------------------------------------------------------------------
LEMMA PlanStep ==
  ASSUME PlanInv, [Next]_vars
  PROVE  PlanInv'
<1>1. CASE Next
  <2>1. HopOK' /\ AwsOK' /\ EvidenceOK'
    BY <1>1, HopStep, AwsOKStep, EvidenceStep
  <2>2. ReportsOK /\ HopOK /\ account' = account /\ opts' = opts /\ cluster' = cluster
    BY <1>1, Stay DEF PlanInv
  <2>3. CASE Assess
    BY <2>1, <2>3, AssessStep DEF PlanInv
  <2>4. CASE Project
    BY <2>1, <2>4, ProjectStep DEF PlanInv
  <2>5. CASE Resolve
    <3>1. DOMAIN reports = {} /\ UNCHANGED <<reports, exitCode>>
      BY <2>2, <2>5, ResolveIs DEF HopOK
    <3>2. QED
      BY <2>1, <2>2, <3>1, ReportsStay DEF PlanInv
  <2>6. CASE ReadManifests \/ RenderCharts
    <3>1. DOMAIN reports = {} /\ UNCHANGED <<reports, exitCode>>
      BY <2>2, <2>6 DEF ReadManifests, RenderCharts, HopOK, Reading
    <3>2. QED
      BY <2>1, <2>2, <3>1, ReportsStay DEF PlanInv
  <2>7. CASE CollectKubernetes \/ Load \/ CollectAws \/ NextHop \/ Render \/ Write \/ Signal
    <3>1. UNCHANGED <<from, manifests, reports, exitCode>>
      BY <2>7 DEF CollectKubernetes, Load, CollectAws, NextHop, Render, Write, Signal, evidence
    <3>2. QED
      BY <2>1, <2>2, <3>1, ReportsStay DEF PlanInv
  <2>8. QED
    BY <1>1, <2>3, <2>4, <2>5, <2>6, <2>7 DEF Next, Main
<1>2. CASE UNCHANGED vars
  <2>1. /\ UNCHANGED <<account, target, todo, snap, pc, opts, cluster, from, hop, live, manifests,
                       aws, reports, exitCode>>
    BY <1>2 DEF vars, collectorVars, inputs, evidence
  <2>2. HopOK' /\ EvidenceOK'
    BY <2>1 DEF PlanInv, HopOK, EvidenceOK, WholeManifests
  <2>3. AwsOK'
    BY <2>1, AwsStays DEF PlanInv, AwsOK
  <2>4. ReportsOK'
    BY <2>1, ReportsStay DEF PlanInv
  <2>5. QED
    BY <2>2, <2>3, <2>4 DEF PlanInv
<1>3. QED
  BY <1>1, <1>2

(* The inductive invariant: a collection loses no part of the first pages  *)
(* without a key that tells, is over before the rules read it, and is the  *)
(* one for the hop they are run for; the other evidence is whole unless it *)
(* says otherwise; and every report says only what these allow it to say.  *)
(* The later pages of ListAddons and ListNodegroups are not asked for, and *)
(* no key tells of them.                                                   *)
THEOREM PlanInvariance == Spec => []PlanInv
<1>1. Init => PlanInv
  BY InitIsOK
<1>2. PlanInv /\ [Next]_vars => PlanInv'
  BY PlanStep
<1>3. QED
  BY <1>1, <1>2, PTL DEF Spec

(* Whatever the faults and wherever Ctrl+C falls, an AWS rule that has     *)
(* found nothing about a problem of the account owns up to a gap, in the   *)
(* first hop and in every later one, unless the problem is an add-on's or  *)
(* a node group's that AWS lists on a later page (the one loss that leaves *)
(* no key: AddonsHoldEveryAddon does not hold).                            *)
THEOREM AwsSilence == Spec => []AwsSilenceIsEarned
<1>1. PlanInv => AwsSilenceIsEarned
  BY DEF PlanInv, ReportsOK, HopReportOK, SilenceEarned, AwsSilenceIsEarned
<1>2. QED
  BY <1>1, PlanInvariance, PTL

(* ADDON-001 calls no add-on incompatible that AWS could not be asked      *)
(* about.                                                                  *)
THEOREM IncompatibilitySafety == Spec => []NoFalseIncompatibility
<1>1. PlanInv => NoFalseIncompatibility
  BY DEF PlanInv, ReportsOK, HopReportOK, RightlyIncompatible, NoFalseIncompatibility
<1>2. QED
  BY <1>1, PlanInvariance, PTL

(* A later hop speaks of the manifests only, and of all of them that were  *)
(* read, or says that API-001 must be run again.                           *)
THEOREM ProjectionSafety == Spec => []ManifestsAreProjected
<1>1. PlanInv => ManifestsAreProjected
  BY DEF PlanInv, ReportsOK, HopReportOK, FromManifests, ManifestsAreProjected
<1>2. QED
  BY <1>1, PlanInvariance, PTL

(* The plan passes only if there is no blocker to be found for the next    *)
(* hop, but such as are about add-ons or node groups of a later page.      *)
THEOREM PlanPassSafety == Spec => []PlanPassIsEarned
<1>1. ASSUME PlanInv, Assessed, exitCode \in {0, 1}
      PROVE  ~HasClass({f \in TrueFindings : ~OnLaterPage(f)}, {"block"})
  <2>1. FirstOK(First, exitCode)
    BY <1>1 DEF PlanInv, ReportsOK
  <2>2. First.complete /\ ~HasClass(First.findings, {"block"})
    BY <1>1, <2>1 DEF FirstOK, ReportExitCode
  <2>3. {f \in TrueFindings : ~OnLaterPage(f)} \subseteq First.findings
    BY <2>1, <2>2 DEF FirstOK
  <2>4. QED
    BY <2>2, <2>3 DEF HasClass
<1>2. PlanInv => PlanPassIsEarned
  BY <1>1 DEF PlanPassIsEarned
<1>3. QED
  BY <1>2, PlanInvariance, PTL

(* The action plan says READY only if no rule that its first phase is for  *)
(* has a blocker to find.  Those rules are not about add-ons and node      *)
(* groups, and so the later pages do not matter.                           *)
THEOREM ReadySafety == Spec => []ReadyIsEarned
<1>1. ASSUME PlanInv, Assessed, ActionPlanVerdict = "READY",
             NEW f \in TrueFindings, f.rule \in CriticalRules, f.class = "block"
      PROVE  FALSE
  <2>1. First.complete /\ ~Phase3Blocked
    BY <1>1 DEF ActionPlanVerdict
  <2>2. f \in First.findings
    <3>1. f.rule \notin Addons \cup Nodegroups
      BY <1>1 DEF CriticalRules, Templates, ApiRules, Addons, Nodegroups
    <3>2. QED
      BY <1>1, <2>1, <3>1 DEF PlanInv, ReportsOK, FirstOK, OnLaterPage
  <2>3. PICK t \in Templates : f.rule \in t.rules
    BY <1>1 DEF CriticalRules
  <2>4. Required(t)
    BY <1>1, <2>2, <2>3 DEF Required, HasBlockerFor
  <2>5. QED
    BY <2>1, <2>4 DEF Phase3Blocked
<1>2. PlanInv => ReadyIsEarned
  BY <1>1 DEF ReadyIsEarned, HasClass
<1>3. QED
  BY <1>2, PlanInvariance, PTL
-----------------------------------------------------------------------------
(* The first report has all that the API rules find in what was collected, *)
(* and what was collected of the cluster's objects is there.               *)
ApisKept ==
  /\ live.apis \subseteq cluster.apis
  /\ Assessed => ApiFindings(live.apis, manifests.objects, FirstHop) \subseteq First.findings

LEMMA ApisKeptStay ==
  ASSUME ApisKept, UNCHANGED <<live, cluster, reports>>,
         DOMAIN reports = {} \/ UNCHANGED <<from, manifests>>
  PROVE  ApisKept'
<1>1. CASE DOMAIN reports = {}
  BY <1>1 DEF ApisKept, Assessed
<1>2. CASE UNCHANGED <<from, manifests>>
  BY <1>2 DEF ApisKept, Assessed, First, FirstHop
<1>3. QED
  BY <1>1, <1>2

LEMMA ApisKeptStep ==
  ASSUME PlanInv, ApisKept, [Next]_vars
  PROVE  ApisKept'
<1>1. CASE Assess
  <2> DEFINE found == {f \in AllFindings(hop) : ~Withheld(f.rule)}
             silent == {r \in AwsRuleIDs \cup ApiRules : ~Withheld(r) /\ ~Gap(r)}
             report == [findings |-> found, complete |-> Complete1, silent |-> silent]
  <2>1. DOMAIN reports = {} /\ hop = FirstHop
    BY <1>1 DEF PlanInv, HopOK, Assess, Reading, FirstHop
  <2>2. reports' = Planned(report) /\ UNCHANGED <<live, cluster, from, manifests>>
    BY <1>1 DEF Assess, inputs, evidence
  <2>3. report.findings = found
    OBVIOUS
  <2>4. \A f \in ApiFindings(live.apis, manifests.objects, hop) : f \in found
    <3>1. SUFFICES ASSUME NEW f \in ApiFindings(live.apis, manifests.objects, hop)
                   PROVE  f \in found
      OBVIOUS
    <3>2. f.rule \notin AwsRuleIDs
      BY <3>1, ApiFindingsAre DEF ApiRules, AwsRuleIDs, Insights, Nodegroups, Addons
    <3>3. QED
      BY <3>1, <3>2 DEF AllFindings, Withheld, NeedsAws
  <2> HIDE DEF found, report
  <2>5. First'.findings = found /\ FirstHop' = hop
    BY <2>1, <2>2, <2>3 DEF First, FirstHop, Planned
  <2>6. QED
    BY <2>2, <2>4, <2>5 DEF ApisKept
<1>2. CASE Project
  <2> DEFINE found == {f \in AllFindings(hop) : Projected(f)}
             silent == SilentRules(hop)
             report == [findings |-> found, complete |-> PredictedComplete, silent |-> silent]
  <2>0. UNCHANGED <<live, cluster, from, manifests>> /\ reports' = Planned(report)
    BY <1>2 DEF Project, inputs, evidence
  <2> HIDE DEF found, silent, report
  <2>1. /\ UNCHANGED <<live, cluster, from, manifests>> /\ hop # FirstHop
        /\ \E r : reports' = Planned(r)
    <3>1. pc \in {"fresh", "project"} /\ HopOK
      BY <1>2 DEF Project, PlanInv
    <3>2. hop # FirstHop
      BY <3>1 DEF HopOK, FirstHop
    <3>3. QED
      BY <2>0, <3>2
  <2>2. FirstHop' = FirstHop /\ (Assessed' => Assessed /\ First' = First)
    BY <2>1 DEF Assessed, First, FirstHop, Planned
  <2>3. QED
    BY <2>1, <2>2 DEF ApisKept
<1>3. CASE CollectKubernetes
  <2>1. DOMAIN reports = {} /\ UNCHANGED <<cluster, reports>>
    BY <1>3 DEF PlanInv, HopOK, Reading, CollectKubernetes, inputs
  <2>2. \E lost : live' = Seen(lost)
    BY <1>3 DEF CollectKubernetes
  <2>3. live'.apis \subseteq cluster.apis
    BY <2>2 DEF Seen
  <2>4. QED
    BY <2>1, <2>3 DEF ApisKept, Assessed
<1>4. CASE Resolve \/ ReadManifests \/ RenderCharts
  <2>1. DOMAIN reports = {} /\ UNCHANGED <<live, cluster, reports>>
    BY <1>4, ResolveIs DEF PlanInv, HopOK, Reading, Resolve, ReadManifests, RenderCharts, inputs,
       evidence
  <2>2. QED
    BY <2>1, ApisKeptStay
<1>5. CASE Load \/ CollectAws \/ NextHop \/ Render \/ Write \/ Signal
  <2>1. UNCHANGED <<live, cluster, reports, from, manifests>>
    BY <1>5 DEF Load, CollectAws, NextHop, Render, Write, Signal, inputs, evidence
  <2>2. QED
    BY <2>1, ApisKeptStay
<1>6. CASE UNCHANGED vars
  BY <1>6, ApisKeptStay DEF vars, inputs, evidence
<1>7. QED
  BY <1>1, <1>2, <1>3, <1>4, <1>5, <1>6 DEF Next, Main

(* A removed object of a manifest that a controller also manages in the    *)
(* cluster.                                                                *)
ManagedTwin ==
  \E o \in Removed(manifests.objects, FirstHop), a \in Removed(cluster.apis, FirstHop) :
    a.name = o.name /\ a.kind = "auto"

LEMMA RemovedBlocks ==
  ASSUME ApisKept, ~ManagedTwin, NEW o \in Removed(manifests.objects, FirstHop)
  PROVE  \E f \in ApiFindings(live.apis, manifests.objects, FirstHop) :
           f.rule = "API-001" /\ f.on = o.name /\ f.class = "block"
<1> DEFINE of == Api001Live(live.apis, FirstHop)
           manifest == Api001Manifest(manifests.objects, FirstHop)
           m == Api001ManifestFinding(o)
<1>1. /\ m \in manifest /\ m.on = o.name /\ m.rule = "API-001" /\ m.class = "block"
  BY FoundFields DEF Api001Manifest, Api001ManifestFinding
<1>2. Api001(live.apis, manifests.objects, FirstHop) = MergeFindings(of, manifest)
  BY Api001Is
<1>3. \A g \in of : g.on = o.name => g = Found("API-001", o.name, {"live"}, "block")
  <2>1. \A a \in Removed(live.apis, FirstHop) : a.name = o.name => a.kind # "auto"
    BY DEF ApisKept, ManagedTwin, Removed
  <2>2. QED
    BY <2>1, FoundFields DEF Api001Live, Api001LiveFinding, Api001AutoManagedFinding
<1> HIDE DEF of, manifest, m
<1>4. CASE m.on \notin {g.on : g \in of}
  <2>1. m \in MergeFindings(of, manifest)
    BY <1>1, <1>4 DEF MergeFindings
  <2>2. QED
    BY <1>1, <1>2, <2>1 DEF ApiFindings
<1>5. CASE m.on \in {g.on : g \in of}
  <2>1. PICK g \in of : g.on = m.on
    BY <1>5
  <2> DEFINE f == [g EXCEPT !.planes = @ \cup {"manifest"}]
  <2>2. g = Found("API-001", o.name, {"live"}, "block")
    BY <1>1, <1>3, <2>1
  <2>3. f \in MergeFindings(of, manifest)
    BY <1>1, <2>1 DEF MergeFindings
  <2>4. f.rule = "API-001" /\ f.on = o.name /\ f.class = "block"
    BY <2>2 DEF Found
  <2> HIDE DEF f
  <2>5. QED
    BY <1>2, <2>3, <2>4 DEF ApiFindings
<1>6. QED
  BY <1>4, <1>5

(* What is lost in the merge of the planes (mergeAPI001Findings) is lost   *)
(* only there: a removed object of a manifest is a blocker of the first    *)
(* hop unless a controller manages one of its name in the cluster.         *)
THEOREM OnlyTwinsAreDowngraded == Spec => [](~ManagedTwin => ManifestBlockersStayBlockers)
<1>1. Init => ApisKept
  BY DEF Init, ApisKept, NothingLive, Assessed
<1>2. PlanInv /\ ApisKept /\ [Next]_vars => ApisKept'
  BY ApisKeptStep
<1>3. ApisKept => (~ManagedTwin => ManifestBlockersStayBlockers)
  BY RemovedBlocks DEF ApisKept, ManifestBlockersStayBlockers
<1>4. QED
  BY <1>1, <1>2, <1>3, PlanInvariance, PTL DEF Spec
=============================================================================
