------------------------------ MODULE SumLemmas ------------------------------
(***************************************************************************)
(* What the score, the counters of a category and the demand on a node     *)
(* rest on: the sum of a function over a finite set, as the community      *)
(* modules define it by a fold that picks one element after the other.     *)
(* The fold is a function defined by recursion, so that it has to be shown *)
(* first that there is such a function (SumExists); then that the order    *)
(* does not matter (SumRemove); then what a proof asks of a sum.           *)
(*                                                                         *)
(* Induction is by a smallest counterexample: of a set of subsets of a     *)
(* finite set, one contains no other (SmallestSubset).                     *)
(***************************************************************************)
EXTENDS Functions, FiniteSetTheorems, WellFoundedInduction, TLAPS

(* A non-empty set of subsets of a finite set has a smallest one. *)
LEMMA SmallestSubset ==
  ASSUME NEW S, IsFiniteSet(S), NEW B \in SUBSET SUBSET S, B # {}
  PROVE  \E T \in B : \A U \in B : U \subseteq T => U = T
<1>1. IsWellFoundedOn(StrictSubsetOrdering(S), SUBSET S)
  BY FS_StrictSubsetOrderingWellFounded, FS_FiniteSubsetsOfFinite
<1>2. PICK T \in B : \A U \in B : <<U, T>> \notin StrictSubsetOrdering(S)
  BY <1>1, WFMin
<1>3. QED
  BY <1>2 DEF StrictSubsetOrdering

Pick(s) == CHOOSE x \in s : TRUE

(* it is the fold's function on the subsets D. *)
IsSum(f, D, it) ==
  it = [s \in D |-> IF s = {} THEN 0 ELSE f[Pick(s)] + it[s \ {Pick(s)}]]

Fold(f, S) == CHOOSE it : IsSum(f, SUBSET S, it)

LEMMA SumUnfold == ASSUME NEW f, NEW S PROVE SumFunctionOnSet(f, S) = Fold(f, S)[S]
BY Zenon DEF SumFunctionOnSet, FoldFunctionOnSet, MapThenFoldSet, IsSum, Pick, Fold

LEMMA PickIn == ASSUME NEW s, s # {} PROVE Pick(s) \in s
BY DEF Pick

(* There is at most one such function. *)
LEMMA SumUnique ==
  ASSUME NEW f, NEW S, IsFiniteSet(S), NEW T \in SUBSET S, NEW a, NEW b,
         IsSum(f, SUBSET S, a), IsSum(f, SUBSET T, b)
  PROVE  a[T] = b[T]
<1> DEFINE Bad == {s \in SUBSET T : a[s] # b[s]}
<1> SUFFICES ASSUME Bad # {} PROVE FALSE
  OBVIOUS
<1>1. IsFiniteSet(T)
  BY FS_Subset
<1>2. PICK s \in Bad : \A u \in Bad : u \subseteq s => u = s
  <2>1. Bad \in SUBSET SUBSET T
    OBVIOUS
  <2> HIDE DEF Bad
  <2>2. QED
    BY <1>1, <2>1, SmallestSubset
<1>3. /\ a[s] = IF s = {} THEN 0 ELSE f[Pick(s)] + a[s \ {Pick(s)}]
      /\ b[s] = IF s = {} THEN 0 ELSE f[Pick(s)] + b[s \ {Pick(s)}]
  <2>1. s \in SUBSET S /\ s \in SUBSET T
    OBVIOUS
  <2>2. QED
    BY <2>1, Zenon DEF IsSum
<1>4. CASE s = {}
  BY <1>3, <1>4
<1>5. CASE s # {}
  <2>1. s \ {Pick(s)} # s /\ s \ {Pick(s)} \in SUBSET T
    BY <1>5, PickIn
  <2>2. a[s \ {Pick(s)}] = b[s \ {Pick(s)}]
    BY <1>2, <2>1
  <2>3. QED
    BY <1>3, <1>5, <2>2
<1>6. QED
  BY <1>4, <1>5

(* There is one. *)
LEMMA SumExists ==
  ASSUME NEW f, NEW S, IsFiniteSet(S)
  PROVE  IsSum(f, SUBSET S, Fold(f, S))
<1> DEFINE Bad == {T \in SUBSET S : ~\E it : IsSum(f, SUBSET T, it)}
<1>1. Bad = {}
  <2> SUFFICES ASSUME Bad # {} PROVE FALSE
    OBVIOUS
  <2>1. PICK T \in Bad : \A U \in Bad : U \subseteq T => U = T
    <3>1. Bad \in SUBSET SUBSET S
      OBVIOUS
    <3> HIDE DEF Bad
    <3>2. QED
      BY <3>1, SmallestSubset
  <2>2. ASSUME NEW U \in SUBSET T, U # T PROVE IsSum(f, SUBSET U, Fold(f, U))
    <3>1. \E it : IsSum(f, SUBSET U, it)
      BY <2>1, <2>2
    <3>2. QED
      BY <3>1, Zenon DEF Fold
  <2> DEFINE Less(s) == s \ {Pick(s)}
             it == [s \in SUBSET T |-> IF s = {} THEN 0 ELSE f[Pick(s)] + Fold(f, Less(s))[Less(s)]]
  <2>3. ASSUME NEW s \in SUBSET T, s # {} PROVE Less(s) \in SUBSET T /\ Less(s) # T /\ Less(s) # s
    BY <2>3, PickIn
  <2>4. ASSUME NEW u \in SUBSET T, u # T PROVE it[u] = Fold(f, u)[u]
    <3>1. Fold(f, u)[u] = IF u = {} THEN 0 ELSE f[Pick(u)] + Fold(f, u)[Less(u)]
      <4>1. u \in SUBSET u /\ IsSum(f, SUBSET u, Fold(f, u))
        BY <2>2, <2>4
      <4>2. QED
        BY <4>1, Zenon DEF IsSum
    <3>2. CASE u = {}
      BY <3>1, <3>2
    <3>3. CASE u # {}
      <4>1. Less(u) \in SUBSET u /\ Less(u) # T
        BY <2>3, <3>3
      <4>2. IsFiniteSet(u)
        <5>1. u \in SUBSET S
          BY <2>1
        <5>2. QED
          BY <5>1, FS_Subset
      <4>3. IsSum(f, SUBSET u, Fold(f, u)) /\ IsSum(f, SUBSET Less(u), Fold(f, Less(u)))
        BY <2>2, <2>4, <4>1
      <4>5. Fold(f, u)[Less(u)] = Fold(f, Less(u))[Less(u)]
        <5> DEFINE l == Less(u)
        <5>1. /\ IsFiniteSet(u) /\ l \in SUBSET u
              /\ IsSum(f, SUBSET u, Fold(f, u)) /\ IsSum(f, SUBSET l, Fold(f, l))
          BY <4>1, <4>2, <4>3
        <5> HIDE DEF l, Less, it, Bad
        <5>2. Fold(f, u)[l] = Fold(f, l)[l]
          BY <5>1, SumUnique
        <5>3. QED
          BY <5>2 DEF l
      <4>6. it[u] = f[Pick(u)] + Fold(f, Less(u))[Less(u)]
        BY <3>3
      <4>7. QED
        BY <3>1, <3>3, <4>5, <4>6
    <3>4. QED
      BY <3>2, <3>3
  <2>5. IsSum(f, SUBSET T, it)
    <3>1. \A s \in SUBSET T : it[s] = IF s = {} THEN 0 ELSE f[Pick(s)] + it[Less(s)]
      BY <2>3, <2>4
    <3>2. it = [s \in SUBSET T |-> it[s]]
      OBVIOUS
    <3> HIDE DEF it
    <3>3. it = [s \in SUBSET T |-> IF s = {} THEN 0 ELSE f[Pick(s)] + it[Less(s)]]
      BY <3>1, <3>2
    <3>4. QED
      BY <3>3 DEF IsSum
  <2>6. QED
    BY <2>1, <2>5
<1>2. \E it : IsSum(f, SUBSET S, it)
  BY <1>1
<1>3. QED
  BY <1>2, Zenon DEF Fold

(* The equation of the fold. *)
LEMMA SumEquation ==
  ASSUME NEW f, NEW S, IsFiniteSet(S)
  PROVE  SumFunctionOnSet(f, S) =
           IF S = {} THEN 0 ELSE f[Pick(S)] + SumFunctionOnSet(f, S \ {Pick(S)})
<1> DEFINE L == S \ {Pick(S)}
<1>1. Fold(f, S)[S] = IF S = {} THEN 0 ELSE f[Pick(S)] + Fold(f, S)[L]
  <2>1. S \in SUBSET S
    OBVIOUS
  <2>2. IsSum(f, SUBSET S, Fold(f, S))
    BY SumExists
  <2>3. QED
    BY <2>1, <2>2, Zenon DEF IsSum
<1>2. Fold(f, S)[L] = Fold(f, L)[L]
  <2>1. L \in SUBSET S /\ IsFiniteSet(L) /\ L \in SUBSET L
    BY FS_Subset
  <2> HIDE DEF L
  <2>2. IsSum(f, SUBSET S, Fold(f, S)) /\ IsSum(f, SUBSET L, Fold(f, L))
    BY <2>1, SumExists
  <2>3. QED
    BY <2>1, <2>2, SumUnique
<1>3. QED
  BY <1>1, <1>2, SumUnfold
-----------------------------------------------------------------------------
(* The order does not matter: any element can be taken out first. *)
LEMMA SumRemove ==
  ASSUME NEW f, NEW S, IsFiniteSet(S), \A s \in S : f[s] \in Int
  PROVE  /\ SumFunctionOnSet(f, S) \in Int
         /\ \A x \in S : SumFunctionOnSet(f, S) = f[x] + SumFunctionOnSet(f, S \ {x})
<1> DEFINE Sum(T) == SumFunctionOnSet(f, T)
           Good(T) == Sum(T) \in Int /\ \A x \in T : Sum(T) = f[x] + Sum(T \ {x})
           Bad == {T \in SUBSET S : ~Good(T)}
<1> SUFFICES ASSUME Bad # {} PROVE FALSE
  OBVIOUS
<1>1. PICK T \in Bad : \A U \in Bad : U \subseteq T => U = T
  <2>1. Bad \in SUBSET SUBSET S
    OBVIOUS
  <2> HIDE DEF Bad
  <2>2. QED
    BY <2>1, SmallestSubset
<1>2. ASSUME NEW x \in T PROVE Good(T \ {x})
  <2>1. T \ {x} \in SUBSET S /\ T \ {x} \subseteq T /\ T \ {x} # T
    BY <1>1
  <2> HIDE DEF Good
  <2>2. QED
    BY <1>1, <2>1
<1>3. Sum(T) = IF T = {} THEN 0 ELSE f[Pick(T)] + Sum(T \ {Pick(T)})
  <2>1. IsFiniteSet(T)
    BY <1>1, FS_Subset
  <2>2. QED
    BY <2>1, SumEquation
<1>4. CASE T = {}
  BY <1>1, <1>3, <1>4
<1>5. CASE T # {}
  <2> DEFINE p == Pick(T)
  <2>1. p \in T
    BY <1>5, PickIn
  <2> HIDE DEF p, Sum
  <2>2. Sum(T) = f[p] + Sum(T \ {p})
    BY <1>3, <1>5 DEF p
  <2>3. f[p] \in Int /\ Sum(T \ {p}) \in Int
    BY <1>1, <1>2, <2>1
  <2>4. ASSUME NEW x \in T, x # p PROVE Sum(T) = f[x] + Sum(T \ {x})
    <3>1. (T \ {p}) \ {x} = (T \ {x}) \ {p} /\ x \in T \ {p} /\ p \in T \ {x}
      BY <2>1, <2>4
    <3>2. /\ Sum(T \ {p}) = f[x] + Sum((T \ {p}) \ {x})
          /\ Sum(T \ {x}) = f[p] + Sum((T \ {x}) \ {p})
      BY <1>2, <2>1, <3>1
    <3>3. f[x] \in Int /\ Sum((T \ {x}) \ {p}) \in Int
      <4>1. Sum(T \ {p}) = f[x] + Sum((T \ {p}) \ {x}) /\ f[x] \in Int
        BY <1>1, <3>2
      <4>2. (T \ {p}) \ {x} \in SUBSET S /\ (T \ {p}) \ {x} \subseteq T /\ (T \ {p}) \ {x} # T
        BY <1>1, <2>1
      <4>3. Good((T \ {p}) \ {x})
        <5> HIDE DEF Good
        <5>1. QED
          BY <1>1, <4>2
      <4>4. QED
        BY <3>1, <4>1, <4>3
    <3> DEFINE r == Sum((T \ {x}) \ {p})
    <3>4. /\ r \in Int /\ Sum(T) = f[p] + Sum(T \ {p})
          /\ Sum(T \ {p}) = f[x] + r /\ Sum(T \ {x}) = f[p] + r
      BY <2>2, <3>1, <3>2, <3>3
    <3> HIDE DEF r
    <3>5. QED
      BY <2>3, <3>3, <3>4
  <2>5. Good(T)
    <3>1. Sum(T) \in Int
      BY <2>2, <2>3
    <3>2. \A x \in T : Sum(T) = f[x] + Sum(T \ {x})
      BY <2>2, <2>4
    <3>3. QED
      BY <3>1, <3>2
  <2>6. QED
    BY <1>1, <2>5
<1>6. QED
  BY <1>4, <1>5

(* The sum of an empty set. *)
LEMMA SumEmpty == ASSUME NEW f PROVE SumFunctionOnSet(f, {}) = 0
BY SumEquation, FS_EmptySet

(* A sum of no less is no less. *)
LEMMA SumMonotone ==
  ASSUME NEW f, NEW g, NEW S, IsFiniteSet(S),
         \A s \in S : f[s] \in Int /\ g[s] \in Int /\ f[s] <= g[s]
  PROVE  SumFunctionOnSet(f, S) <= SumFunctionOnSet(g, S)
<1> DEFINE F(T) == SumFunctionOnSet(f, T)
           G(T) == SumFunctionOnSet(g, T)
           Bad == {T \in SUBSET S : ~(F(T) <= G(T))}
<1> SUFFICES ASSUME Bad # {} PROVE FALSE
  OBVIOUS
<1>1. PICK T \in Bad : \A U \in Bad : U \subseteq T => U = T
  <2>1. Bad \in SUBSET SUBSET S
    OBVIOUS
  <2> HIDE DEF Bad
  <2>2. QED
    BY <2>1, SmallestSubset
<1>2. IsFiniteSet(T) /\ \A s \in T : f[s] \in Int /\ g[s] \in Int /\ f[s] <= g[s]
  BY <1>1, FS_Subset
<1>3. T # {}
  <2>1. F({}) = 0 /\ G({}) = 0 /\ ~(F(T) <= G(T))
    BY <1>1, SumEmpty
  <2> HIDE DEF F, G
  <2>2. QED
    BY <2>1
<1>4. PICK x \in T : TRUE
  BY <1>3
<1>5. T \ {x} \in SUBSET S /\ T \ {x} \subseteq T /\ T \ {x} # T
  BY <1>1
<1>6. F(T \ {x}) <= G(T \ {x})
  BY <1>1, <1>5
<1>7. F(T) = f[x] + F(T \ {x}) /\ G(T) = g[x] + G(T \ {x})
  BY <1>2, SumRemove
<1>8. F(T \ {x}) \in Int /\ G(T \ {x}) \in Int
  <2>1. IsFiniteSet(T \ {x}) /\ \A s \in T \ {x} : f[s] \in Int /\ g[s] \in Int
    BY <1>2, FS_Subset
  <2>2. QED
    BY <2>1, SumRemove
<1>9. F(T) <= G(T)
  <2> HIDE DEF F, G
  <2>1. QED
    BY <1>2, <1>6, <1>7, <1>8
<1>10. QED
  BY <1>1, <1>9

(* A sum depends on the values at the elements only. *)
LEMMA SumEqual ==
  ASSUME NEW f, NEW g, NEW S, IsFiniteSet(S),
         \A s \in S : f[s] \in Int /\ g[s] = f[s]
  PROVE  SumFunctionOnSet(f, S) = SumFunctionOnSet(g, S)
<1>1. SumFunctionOnSet(f, S) \in Int /\ SumFunctionOnSet(g, S) \in Int
  BY SumRemove
<1>2. /\ SumFunctionOnSet(f, S) <= SumFunctionOnSet(g, S)
      /\ SumFunctionOnSet(g, S) <= SumFunctionOnSet(f, S)
  BY SumMonotone
<1>3. QED
  BY <1>1, <1>2

(* A sum of naturals is a natural, and positive if one of them is. *)
LEMMA SumPositive ==
  ASSUME NEW f, NEW S, IsFiniteSet(S), \A s \in S : f[s] \in Nat
  PROVE  /\ SumFunctionOnSet(f, S) \in Nat
         /\ SumFunctionOnSet(f, S) > 0 <=> \E s \in S : f[s] > 0
<1> DEFINE Sum(T) == SumFunctionOnSet(f, T)
           Good(T) == Sum(T) \in Nat /\ (Sum(T) > 0 <=> \E s \in T : f[s] > 0)
           Bad == {T \in SUBSET S : ~Good(T)}
<1> SUFFICES ASSUME Bad # {} PROVE FALSE
  OBVIOUS
<1>1. PICK T \in Bad : \A U \in Bad : U \subseteq T => U = T
  <2>1. Bad \in SUBSET SUBSET S
    OBVIOUS
  <2> HIDE DEF Bad
  <2>2. QED
    BY <2>1, SmallestSubset
<1>2. IsFiniteSet(T) /\ \A s \in T : f[s] \in Int /\ f[s] \in Nat
  BY <1>1, FS_Subset
<1>3. T # {}
  <2>1. Good({})
    BY SumEmpty
  <2> HIDE DEF Good
  <2>2. QED
    BY <1>1, <2>1
<1>4. PICK x \in T : TRUE
  BY <1>3
<1>5. T \ {x} \in SUBSET S /\ T \ {x} \subseteq T /\ T \ {x} # T
  BY <1>1
<1>6. Good(T \ {x})
  BY <1>1, <1>5
<1>7. Sum(T) = f[x] + Sum(T \ {x})
  BY <1>2, SumRemove
<1>8. Good(T)
  <2> HIDE DEF Sum
  <2>1. Sum(T) \in Nat /\ (Sum(T) > 0 <=> f[x] > 0 \/ Sum(T \ {x}) > 0)
    BY <1>2, <1>6, <1>7
  <2>2. (\E s \in T : f[s] > 0) <=> f[x] > 0 \/ \E s \in T \ {x} : f[s] > 0
    OBVIOUS
  <2>3. QED
    BY <1>6, <2>1, <2>2
<1>9. QED
  BY <1>1, <1>8

(* Summing group by group gives the same sum. *)
LEMMA SumPartition ==
  ASSUME NEW f, NEW S, IsFiniteSet(S), \A s \in S : f[s] \in Nat,
         NEW T, IsFiniteSet(T), NEW g, \A s \in S : g[s] \in T
  PROVE  SumFunctionOnSet(f, S)
           = SumFunctionOnSet([t \in T |-> SumFunctionOnSet(f, {s \in S : g[s] = t})], T)
<1> DEFINE Sum(U) == SumFunctionOnSet(f, U)
           Group(U, t) == {s \in U : g[s] = t}
           Part(U) == [t \in T |-> Sum(Group(U, t))]
           Good(U) == Sum(U) = SumFunctionOnSet(Part(U), T)
           Bad == {U \in SUBSET S : ~Good(U)}
<1>1. ASSUME Bad # {} PROVE FALSE
  <2>1. PICK U \in Bad : \A V \in Bad : V \subseteq U => V = U
    <3>1. Bad \in SUBSET SUBSET S
      OBVIOUS
    <3> HIDE DEF Bad
    <3>2. QED
      BY <1>1, <3>1, SmallestSubset
  <2>2. U \in SUBSET S /\ ~Good(U)
    BY <2>1
  <2>3. IsFiniteSet(U) /\ \A s \in U : f[s] \in Nat /\ f[s] \in Int /\ g[s] \in T
    BY <2>2, FS_Subset
  <2>4. \A V \in SUBSET S : Sum(V) \in Nat
    <3>1. \A V \in SUBSET S : IsFiniteSet(V) /\ \A s \in V : f[s] \in Nat
      BY FS_Subset
    <3>2. QED
      BY <3>1, SumPositive
  <2>5. \A V \in SUBSET S, t \in T : Part(V)[t] = Sum(Group(V, t)) /\ Part(V)[t] \in Nat
    <3>1. \A V \in SUBSET S, t \in T : Group(V, t) \in SUBSET S
      OBVIOUS
    <3> HIDE DEF Sum, Group
    <3>2. QED
      BY <2>4, <3>1
  <2>6. U # {}
    <3>1. \A t \in T : Group({}, t) = {}
      OBVIOUS
    <3>2. Sum({}) = 0
      BY SumEmpty
    <3>3. \A t \in T : Part({})[t] = 0
      <4> HIDE DEF Sum, Group
      <4>1. QED
        BY <3>1, <3>2
    <3> HIDE DEF Part
    <3>4. SumFunctionOnSet(Part({}), T) = 0
      <4>1. /\ SumFunctionOnSet(Part({}), T) \in Nat
            /\ SumFunctionOnSet(Part({}), T) > 0 <=> \E t \in T : Part({})[t] > 0
        BY <3>3, SumPositive
      <4>2. QED
        BY <3>3, <4>1
    <3>5. Good({})
      BY <3>2, <3>4
    <3> HIDE DEF Good
    <3>6. QED
      BY <2>2, <3>5
  <2>7. PICK x \in U : TRUE
    BY <2>6
  <2> DEFINE V == U \ {x}
             t0 == g[x]
             R == T \ {t0}
  <2>8. V \in SUBSET S /\ V \subseteq U /\ V # U /\ t0 \in T /\ IsFiniteSet(R)
    BY <2>2, <2>3, <2>7, FS_RemoveElement
  <2>9. Good(V)
    <3> HIDE DEF V, Good
    <3>1. QED
      BY <2>1, <2>8
  <2>10. Sum(U) = f[x] + Sum(V)
    BY <2>3, <2>7, SumRemove
  <2>11. Sum(Group(U, t0)) = f[x] + Sum(Group(V, t0))
    <3> DEFINE W == Group(U, t0)
    <3>1. IsFiniteSet(W) /\ \A s \in W : f[s] \in Int
      BY <2>3, FS_Subset
    <3>2. x \in W /\ W \ {x} = Group(V, t0)
      BY <2>7
    <3> HIDE DEF W
    <3>3. Sum(W) = f[x] + Sum(W \ {x})
      BY <3>1, <3>2, SumRemove
    <3> HIDE DEF Sum, Group, V, t0
    <3>4. QED
      BY <3>2, <3>3 DEF W
  <2>12. \A t \in R : Group(U, t) = Group(V, t)
    OBVIOUS
  <2> HIDE DEF V, t0, R
  <2>13. Part(U)[t0] = f[x] + Part(V)[t0]
    <3> HIDE DEF Part, Sum, Group
    <3>1. QED
      BY <2>2, <2>5, <2>8, <2>11
  <2>14. \A t \in R : Part(U)[t] = Part(V)[t] /\ Part(U)[t] \in Int
    <3>1. R \subseteq T
      BY DEF R
    <3> HIDE DEF Part, Sum, Group
    <3>2. QED
      BY <2>2, <2>5, <2>8, <2>12, <3>1
  <2>15. \A t \in T : Part(U)[t] \in Int /\ Part(V)[t] \in Int
    <3> HIDE DEF Part, Sum, Group
    <3>1. QED
      BY <2>2, <2>5, <2>8
  <2>16. SumFunctionOnSet(Part(U), R) = SumFunctionOnSet(Part(V), R)
    <3> HIDE DEF Part, Sum, Group
    <3>1. QED
      BY <2>8, <2>14, SumEqual
  <2>17. /\ SumFunctionOnSet(Part(U), T) = Part(U)[t0] + SumFunctionOnSet(Part(U), R)
         /\ SumFunctionOnSet(Part(V), T) = Part(V)[t0] + SumFunctionOnSet(Part(V), R)
    <3> HIDE DEF Part, Sum, Group
    <3>1. \A y \in T : SumFunctionOnSet(Part(U), T) = Part(U)[y] + SumFunctionOnSet(Part(U), T \ {y})
      BY <2>15, SumRemove
    <3>2. \A y \in T : SumFunctionOnSet(Part(V), T) = Part(V)[y] + SumFunctionOnSet(Part(V), T \ {y})
      BY <2>15, SumRemove
    <3>3. QED
      BY <2>8, <3>1, <3>2 DEF R
  <2>18. SumFunctionOnSet(Part(V), R) \in Int
    <3>1. \A t \in R : Part(V)[t] \in Int
      BY <2>15 DEF R
    <3> HIDE DEF Part, Sum, Group
    <3>2. QED
      BY <2>8, <3>1, SumRemove
  <2>19. f[x] \in Int /\ Part(V)[t0] \in Int /\ Sum(V) \in Int
    <3> HIDE DEF Part, Sum, Group
    <3>1. QED
      BY <2>3, <2>4, <2>7, <2>8, <2>15
  <2>20. Sum(U) = SumFunctionOnSet(Part(U), T)
    <3>1. Sum(V) = SumFunctionOnSet(Part(V), T)
      BY <2>9
    <3> HIDE DEF Part, Sum, Group
    <3>2. QED
      BY <2>10, <2>13, <2>16, <2>17, <2>18, <2>19, <3>1
  <2>21. QED
    BY <2>2, <2>20
<1>2. Good(S)
  <2> HIDE DEF Good
  <2>1. QED
    BY <1>1
<1>3. QED
  BY <1>2
=============================================================================
