-------------------------- MODULE ThreadMergeProofs --------------------------
(***************************************************************************)
(* For any messages, any merge workers and any bounds: every variable has  *)
(* its type, the threading index and the archives agree on the thread of   *)
(* every message, a merge does not bring back a message that was deleted   *)
(* while it ran, and a conversation whose lookups and merges did not        *)
(* overlap ends up in one thread.                                          *)
(***************************************************************************)
EXTENDS ThreadMerge, FiniteSetTheorems, WellFoundedInduction, TLAPS

-----------------------------------------------------------------------------
(* The operators: merge_thread_id, the lengths of lists, has_message_id *)

(* A set of numbers has a least one.                                        *)
LEMMA LeastNumber ==
  ASSUME NEW S \in SUBSET Nat, S # {}
  PROVE  \E n \in S : \A m \in S : n <= m
<1>1. PICK x \in S : \A y \in S : ~(<<y, x>> \in OpToRel(<, Nat))
  BY WFMin, NatLessThanWellFounded
<1>2. ASSUME NEW y \in S PROVE x <= y
  <2>1. ~(y < x)
    BY <1>1 DEF OpToRel
  <2> QED BY <2>1
<1> QED BY <1>2

(* merge_thread_id answers one of the threads it was given: among finitely  *)
(* many, one is beaten by none.                                             *)
LEMMA MergeThreadIdIsListed ==
  ASSUME NEW count \in [Docs -> Nat], NEW a \in Docs, count[a] > 0
  PROVE  MergeThreadId(count) \in Docs /\ count[MergeThreadId(count)] > 0
<1> DEFINE Beats(u, t) == count[t] < count[u] \/ (count[t] = count[u] /\ u < t)
           Over(t) == {u \in Docs : Beats(u, t)}
           N == {Cardinality(Over(t)) : t \in Docs}
<1>1. \A t \in Docs : IsFiniteSet(Over(t)) /\ Cardinality(Over(t)) \in Nat
  <2> TAKE t \in Docs
  <2>1. Over(t) \in SUBSET Docs
    OBVIOUS
  <2> HIDE DEF Over
  <2>2. IsFiniteSet(Over(t))
    BY <2>1, FS_Subset, ThreadDocsAssumption
  <2> QED BY <2>2, FS_CardinalityType
<1>2. N \in SUBSET Nat /\ N # {}
  BY <1>1
<1>3. PICK n \in N : \A m \in N : n <= m
  <2> HIDE DEF N
  <2> QED BY <1>2, LeastNumber
<1>4. PICK t \in Docs : n = Cardinality(Over(t))
  BY <1>3
<1>5. Over(t) = {}
  <2> SUFFICES ASSUME NEW u \in Over(t) PROVE FALSE
    OBVIOUS
  <2>1. u \in Docs /\ Over(u) \in SUBSET Over(t) /\ u \notin Over(u)
    <3>1. \A d \in Docs : d \in Nat /\ count[d] \in Nat
      BY ThreadDocsAssumption
    <3> QED BY <3>1
  <2>2. Cardinality(Over(t)) <= Cardinality(Over(u))
    <3>1. Cardinality(Over(u)) \in N
      BY <2>1
    <3> QED BY <1>3, <1>4, <3>1
  <2> HIDE DEF Over
  <2>3. Cardinality(Over(u)) <= Cardinality(Over(t))
         /\ (Cardinality(Over(t)) = Cardinality(Over(u)) => Over(t) = Over(u))
    BY <1>1, <2>1, FS_Subset
  <2> QED BY <1>1, <2>1, <2>2, <2>3
<1>6. \A u \in Docs : count[u] < count[t] \/ (count[u] = count[t] /\ t <= u)
  <2>1. \A d \in Docs : d \in Nat /\ count[d] \in Nat
    BY ThreadDocsAssumption
  <2> QED BY <1>5, <2>1
<1>7. count[t] > 0
  BY <1>6
<1>8. DOMAIN count = Docs
  OBVIOUS
<1> HIDE DEF N, Over
<1> QED BY <1>6, <1>7, <1>8 DEF MergeThreadId

(* A thread has a message in thread_merge exactly if its list is not empty. *)
LEMMA TotalCounts ==
  ASSUME NEW count \in [Pair -> Nat], NEW t \in Docs
  PROVE  /\ Total(count, t) \in Nat
         /\ Total(count, t) > 0 <=> \E d \in Docs : count[<<t, d>>] > 0
<1> DEFINE F == [d \in Docs |-> {d} \X (1..count[<<t, d>>])]
           R == {{d} \X (1..count[<<t, d>>]) : d \in Docs}
<1>1. \A d \in Docs : count[<<t, d>>] \in Nat
  BY DEF Pair
<1>2. IsFiniteSet(R)
  <2>1. F \in Surjection(Docs, R)
    BY DEF Surjection
  <2> HIDE DEF F, R
  <2> QED BY <2>1, FS_Surjection, ThreadDocsAssumption
<1>3. \A r \in R : IsFiniteSet(r)
  <2> SUFFICES ASSUME NEW d \in Docs PROVE IsFiniteSet({d} \X (1..count[<<t, d>>]))
    OBVIOUS
  <2>1. IsFiniteSet({d})
    BY FS_Singleton
  <2>2. IsFiniteSet(1..count[<<t, d>>])
    BY <1>1, FS_Interval
  <2> QED BY <2>1, <2>2, FS_Product
<1>4. IsFiniteSet(UNION R)
  <2> HIDE DEF R
  <2> QED BY <1>2, <1>3, FS_UNION
<1>5. Cardinality(UNION R) \in Nat /\ (Cardinality(UNION R) = 0 <=> UNION R = {})
  <2> HIDE DEF R
  <2> QED BY <1>4, FS_CardinalityType, FS_EmptySet
<1>6. UNION R # {} <=> \E d \in Docs : count[<<t, d>>] > 0
  <2>1. ASSUME NEW d \in Docs, count[<<t, d>>] > 0 PROVE UNION R # {}
    <3>1. <<d, 1>> \in {d} \X (1..count[<<t, d>>])
      BY <1>1, <2>1
    <3> QED BY <3>1
  <2>2. ASSUME NEW x \in UNION R PROVE \E d \in Docs : count[<<t, d>>] > 0
    <3>1. PICK d \in Docs : x \in {d} \X (1..count[<<t, d>>])
      OBVIOUS
    <3> QED BY <1>1, <3>1
  <2> QED BY <2>1, <2>2
<1>7. Total(count, t) = Cardinality(UNION R)
  BY DEF Total
<1> HIDE DEF R
<1> QED BY <1>5, <1>6, <1>7

(* Sorted message ids, and a message id that two lists have in common from  *)
(* two places on.                                                           *)
Increasing(s) == \A i, j \in DOMAIN s : i < j => s[i] < s[j]
Ahead(a, b, i, j) == \E k \in i..Len(a), l \in j..Len(b) : a[k] = b[l]
(* The places of the walk of has_message_id, and one step of it.            *)
Places(a, b) == (1..Len(a) + 1) \X (1..Len(b) + 1)
Walk(a, b, walk) ==
  [at \in Places(a, b) |->
     /\ at[1] <= Len(a) /\ at[2] <= Len(b)
     /\ \/ a[at[1]] = b[at[2]]
        \/ IF a[at[1]] < b[at[2]] THEN walk[<<at[1] + 1, at[2]>>]
           ELSE walk[<<at[1], at[2] + 1>>]]

(* In sorted lists the smaller of two message ids is not in the other one.  *)
LEMMA AheadStep ==
  ASSUME NEW a \in Seq(Nat), NEW b \in Seq(Nat), Increasing(a), Increasing(b),
         NEW i \in 1..Len(a) + 1, NEW j \in 1..Len(b) + 1
  PROVE  Ahead(a, b, i, j) <=>
           /\ i <= Len(a) /\ j <= Len(b)
           /\ \/ a[i] = b[j]
              \/ IF a[i] < b[j] THEN Ahead(a, b, i + 1, j) ELSE Ahead(a, b, i, j + 1)
<1> USE DEF Ahead
<1>1. CASE i > Len(a) \/ j > Len(b)
  BY <1>1
<1>2. CASE i <= Len(a) /\ j <= Len(b)
  <2>1. a[i] \in Nat /\ b[j] \in Nat
    BY <1>2
  <2>2. CASE a[i] = b[j]
    BY <1>2, <2>2
  <2>3. CASE a[i] < b[j]
    <3>1. ASSUME NEW k \in i..Len(a), NEW l \in j..Len(b), a[k] = b[l]
          PROVE  k \in i + 1..Len(a)
      <4>1. b[l] \in Nat /\ (l = j \/ b[j] < b[l])
        BY <1>2 DEF Increasing
      <4>2. k # i
        BY <2>1, <2>3, <3>1, <4>1
      <4> QED BY <4>2
    <3>2. Ahead(a, b, i, j) => Ahead(a, b, i + 1, j)
      BY <3>1
    <3>3. Ahead(a, b, i + 1, j) => Ahead(a, b, i, j)
      OBVIOUS
    <3> HIDE DEF Ahead
    <3> QED BY <1>2, <2>1, <2>3, <3>2, <3>3
  <2>4. CASE b[j] < a[i]
    <3>1. ASSUME NEW k \in i..Len(a), NEW l \in j..Len(b), a[k] = b[l]
          PROVE  l \in j + 1..Len(b)
      <4>1. a[k] \in Nat /\ (k = i \/ a[i] < a[k])
        BY <1>2 DEF Increasing
      <4>2. l # j
        BY <2>1, <2>4, <3>1, <4>1
      <4> QED BY <4>2
    <3>2. Ahead(a, b, i, j) => Ahead(a, b, i, j + 1)
      BY <3>1
    <3>3. Ahead(a, b, i, j + 1) => Ahead(a, b, i, j)
      OBVIOUS
    <3> HIDE DEF Ahead
    <3> QED BY <1>2, <2>1, <2>4, <3>2, <3>3
  <2> HIDE DEF Ahead
  <2> QED BY <2>1, <2>2, <2>3, <2>4
<1> QED BY <1>1, <1>2

(* The recursion of has_message_id defines a function: this one.            *)
LEMMA WalkExists ==
  ASSUME NEW a \in Seq(Nat), NEW b \in Seq(Nat), Increasing(a), Increasing(b)
  PROVE  \E walk : walk = Walk(a, b, walk)
<1> DEFINE W == [at \in Places(a, b) |-> Ahead(a, b, at[1], at[2])]
<1>1. ASSUME NEW at \in Places(a, b)
      PROVE  W[at] = (/\ at[1] <= Len(a) /\ at[2] <= Len(b)
                      /\ \/ a[at[1]] = b[at[2]]
                         \/ IF a[at[1]] < b[at[2]] THEN W[<<at[1] + 1, at[2]>>]
                            ELSE W[<<at[1], at[2] + 1>>])
  <2>1. PICK i \in 1..Len(a) + 1, j \in 1..Len(b) + 1 : at = <<i, j>>
    BY DEF Places
  <2>2. W[at] = Ahead(a, b, i, j)
    BY <2>1
  <2>3. i <= Len(a) => W[<<i + 1, j>>] = Ahead(a, b, i + 1, j)
    <3> SUFFICES ASSUME i <= Len(a) PROVE W[<<i + 1, j>>] = Ahead(a, b, i + 1, j)
      OBVIOUS
    <3>1. <<i + 1, j>> \in Places(a, b)
      BY DEF Places
    <3> QED BY <3>1
  <2>4. j <= Len(b) => W[<<i, j + 1>>] = Ahead(a, b, i, j + 1)
    <3> SUFFICES ASSUME j <= Len(b) PROVE W[<<i, j + 1>>] = Ahead(a, b, i, j + 1)
      OBVIOUS
    <3>1. <<i, j + 1>> \in Places(a, b)
      BY DEF Places
    <3> QED BY <3>1
  <2>5. Ahead(a, b, i, j) = (/\ i <= Len(a) /\ j <= Len(b)
           /\ \/ a[i] = b[j]
              \/ IF a[i] < b[j] THEN Ahead(a, b, i + 1, j) ELSE Ahead(a, b, i, j + 1))
    <3>1. Ahead(a, b, i, j) \in BOOLEAN
      BY DEF Ahead
    <3> QED BY <3>1, AheadStep
  <2>6. at[1] = i /\ at[2] = j
    BY <2>1
  <2> HIDE DEF W
  <2> QED BY <2>2, <2>3, <2>4, <2>5, <2>6
<1>2. W = Walk(a, b, W)
  BY <1>1 DEF Walk
<1> QED BY <1>2

(* How much of lists of m and n message ids is left, which each step of the *)
(* walk makes less.                                                         *)
Togo(m, n, k, l) == (m + 1 - k) + (n + 1 - l)

LEMMA TogoShrinks ==
  ASSUME NEW m \in Nat, NEW n \in Nat, NEW k \in 1..m + 1, NEW l \in 1..n + 1
  PROVE  /\ Togo(m, n, k, l) \in Nat
         /\ k <= m => /\ k + 1 \in 1..m + 1
                      /\ Togo(m, n, k + 1, l) \in Nat
                      /\ Togo(m, n, k + 1, l) < Togo(m, n, k, l)
         /\ l <= n => /\ l + 1 \in 1..n + 1
                      /\ Togo(m, n, k, l + 1) \in Nat
                      /\ Togo(m, n, k, l + 1) < Togo(m, n, k, l)
BY DEF Togo

(* And only this one: a place where another function differs, with the      *)
(* least left to go, has successors where it does not.                      *)
LEMMA WalkIsAhead ==
  ASSUME NEW a \in Seq(Nat), NEW b \in Seq(Nat), Increasing(a), Increasing(b),
         NEW walk, walk = Walk(a, b, walk),
         NEW i \in 1..Len(a) + 1, NEW j \in 1..Len(b) + 1
  PROVE  walk[<<i, j>>] <=> Ahead(a, b, i, j)
<1> DEFINE Rest(k, l) == Togo(Len(a), Len(b), k, l)
           Bad == {n \in Nat : \E k \in 1..Len(a) + 1, l \in 1..Len(b) + 1 :
                     n = Rest(k, l) /\ ~(walk[<<k, l>>] <=> Ahead(a, b, k, l))}
<1>1. Bad = {}
  <2> SUFFICES ASSUME Bad # {} PROVE FALSE
    OBVIOUS
  <2>0. Len(a) \in Nat /\ Len(b) \in Nat
    OBVIOUS
  <2>1. PICK n \in Bad : \A m \in Bad : n <= m
    BY LeastNumber
  <2>2. PICK k \in 1..Len(a) + 1, l \in 1..Len(b) + 1 :
          n = Rest(k, l) /\ ~(walk[<<k, l>>] <=> Ahead(a, b, k, l))
    BY <2>1
  <2>3. k <= Len(a) => (walk[<<k + 1, l>>] <=> Ahead(a, b, k + 1, l))
    <3> SUFFICES ASSUME k <= Len(a), ~(walk[<<k + 1, l>>] <=> Ahead(a, b, k + 1, l))
                 PROVE  FALSE
      OBVIOUS
    <3>1. k + 1 \in 1..Len(a) + 1 /\ Rest(k + 1, l) \in Nat /\ Rest(k + 1, l) < Rest(k, l)
      BY <2>0, TogoShrinks
    <3>2. Rest(k + 1, l) \in Bad
      BY <3>1
    <3> HIDE DEF Bad
    <3>3. Rest(k, l) \in Nat
      BY <2>0, TogoShrinks
    <3> QED BY <2>1, <2>2, <3>1, <3>2, <3>3
  <2>4. l <= Len(b) => (walk[<<k, l + 1>>] <=> Ahead(a, b, k, l + 1))
    <3> SUFFICES ASSUME l <= Len(b), ~(walk[<<k, l + 1>>] <=> Ahead(a, b, k, l + 1))
                 PROVE  FALSE
      OBVIOUS
    <3>1. l + 1 \in 1..Len(b) + 1 /\ Rest(k, l + 1) \in Nat /\ Rest(k, l + 1) < Rest(k, l)
      BY <2>0, TogoShrinks
    <3>2. Rest(k, l + 1) \in Bad
      BY <3>1
    <3> HIDE DEF Bad
    <3>3. Rest(k, l) \in Nat
      BY <2>0, TogoShrinks
    <3> QED BY <2>1, <2>2, <3>1, <3>2, <3>3
  <2>5. walk[<<k, l>>] <=>
          /\ k <= Len(a) /\ l <= Len(b)
          /\ \/ a[k] = b[l]
             \/ IF a[k] < b[l] THEN walk[<<k + 1, l>>] ELSE walk[<<k, l + 1>>]
    <3> DEFINE at == <<k, l>>
    <3>1. at \in Places(a, b) /\ at[1] = k /\ at[2] = l
      BY DEF Places
    <3> HIDE DEF at
    <3>2. walk[at] <=>
          /\ at[1] <= Len(a) /\ at[2] <= Len(b)
          /\ \/ a[at[1]] = b[at[2]]
             \/ IF a[at[1]] < b[at[2]] THEN walk[<<at[1] + 1, at[2]>>]
                ELSE walk[<<at[1], at[2] + 1>>]
      BY <3>1, Zenon DEF Walk
    <3> QED BY <3>1, <3>2 DEF at
  <2> QED BY <2>2, <2>3, <2>4, <2>5, AheadStep
<1>2. Rest(i, j) \in Nat
  BY TogoShrinks
<1> QED BY <1>1, <1>2

(* has_message_id finds a common message id of sorted lists if there is one.*)
LEMMA HasMessageIdFinds ==
  ASSUME NEW a \in Seq(Nat), NEW b \in Seq(Nat), Increasing(a), Increasing(b)
  PROVE  HasMessageId(a, b) <=> \E k \in 1..Len(a), l \in 1..Len(b) : a[k] = b[l]
<1> DEFINE walk == CHOOSE w : w = Walk(a, b, w)
<1>1. walk = Walk(a, b, walk)
  BY WalkExists, Zenon
<1>2. HasMessageId(a, b) = walk[<<1, 1>>]
  BY Zenon DEF HasMessageId, Walk, Places
<1> HIDE DEF walk
<1>3. walk[<<1, 1>>] <=> Ahead(a, b, 1, 1)
  <2>1. 1 \in 1..Len(a) + 1 /\ 1 \in 1..Len(b) + 1
    OBVIOUS
  <2> QED BY <1>1, <2>1, WalkIsAhead
<1> QED BY <1>2, <1>3 DEF Ahead

-----------------------------------------------------------------------------
(* Types *)

(* A map that is changed in one place.                                      *)
LEMMA Put ==
  ASSUME NEW S, NEW T, NEW f \in [S -> T], NEW x \in S, NEW y \in T, NEW g,
         g = [f EXCEPT ![x] = y]
  PROVE  g \in [S -> T] /\ g[x] = y /\ \A v \in S : v # x => g[v] = f[v]
OBVIOUS

(* The thread that a merge keeps is one of those it has listed.             *)
LEMMA WinnerIsListed ==
  ASSUME NEW count \in [Pair -> Nat], NEW p \in Pair, count[p] > 0
  PROVE  LET t == MergeThreadId([u \in Docs |-> Total(count, u)])
         IN  t \in Docs /\ \E d \in Docs : count[<<t, d>>] > 0
<1> DEFINE C == [u \in Docs |-> Total(count, u)]
<1>1. C \in [Docs -> Nat]
  BY TotalCounts
<1>2. PICK a \in Docs, d \in Docs : p = <<a, d>>
  BY DEF Pair
<1>3. Total(count, a) > 0
  BY <1>2, TotalCounts
<1>4. C[a] > 0
  BY <1>3
<1>5. PICK t \in Docs : t = MergeThreadId(C) /\ C[t] > 0
  <2> HIDE DEF C
  <2> QED BY <1>1, <1>4, MergeThreadIdIsListed
<1>6. Total(count, t) > 0
  BY <1>5
<1> HIDE DEF C
<1> QED BY <1>5, <1>6, TotalCounts DEF C

(* A merge that visits messages has listed some.                            *)
SeenSome == \A w \in Workers : pc[w] = "visit" => \E p \in Pair : seen[w][p] > 0

(* The plan of a session that has one is an answer of find_thread_id.       *)
PlanMade == \A d \in Docs : session[d] = "found" => plan[d] \in Merge

(* The type invariant, with what it needs to be inductive.                  *)
Typed == TypeOK /\ SeenSome /\ PlanMade

(* The first state.                                                         *)
LEMMA TypedInit == Init => Typed
<1> SUFFICES ASSUME Init PROVE Typed
  OBVIOUS
<1> DEFINE zero == [p \in Pair |-> 0]
<1>1. zero \in [Pair -> Nat]
  OBVIOUS
<1>2. seen = [w \in Workers |-> zero] /\ left = [w \in Workers |-> zero]
  BY DEF Init
<1> HIDE DEF zero
<1>3. seen \in [Workers -> [Pair -> Nat]] /\ left \in [Workers -> [Pair -> Nat]]
  BY <1>1, <1>2
<1>4. /\ plan \in [Docs -> [doc : Docs, ids : SUBSET Docs] \cup {NoMerge}]
      /\ task \in [Workers -> Merge \cup {NoMerge}]
  BY Zenon DEF Init
<1>5. /\ thread \in [Docs -> Docs \cup {None}] /\ index \in [Docs -> Docs \cup {None}]
      /\ version \in [Docs -> Nat] /\ tries \in [Workers -> Nat]
      /\ session \in [Docs -> {"new", "found", "stored"}]
      /\ entries \in [Workers -> SUBSET Docs]
      /\ reads \in [Workers -> SUBSET (Docs \X Nat)]
      /\ pc \in [Workers -> PcStates] /\ \A w \in Workers : pc[w] # "visit"
      /\ \A d \in Docs : session[d] # "found"
  BY DEF Init, PcStates, None
<1>6. tasks \subseteq Merge /\ locks \subseteq Merge /\ closed \subseteq Docs /\ raced \in BOOLEAN
  BY DEF Init
<1> QED BY <1>3, <1>4, <1>5, <1>6 DEF Typed, TypeOK, SeenSome, PlanMade

(* find_thread_id gives a new message its own thread or one that it found.  *)
LEMMA FindThreadAnswers ==
  ASSUME Typed, NEW d \in Docs
  PROVE  LET related == {e \in Docs : index[e] # None /\ HasMessageId(Refs[d], Refs[e])}
             found == {index[e] : e \in related}
         IN  /\ FindThread(d) \in Merge
             /\ FindThread(d).ids = IF Cardinality(found) > 1 THEN found ELSE {}
             /\ FindThread(d).doc = d \/ FindThread(d).doc \in found
             /\ found # {} => FindThread(d).doc \in found
<1> DEFINE related == {e \in Docs : index[e] # None /\ HasMessageId(Refs[d], Refs[e])}
           In(t) == {e \in related : index[e] = t}
           count == [t \in Docs |-> Cardinality(In(t))]
           found == {index[e] : e \in related}
           first == IF found = {} THEN d ELSE MergeThreadId(count)
           ids == IF Cardinality(found) > 1 THEN found ELSE {}
<1>1. FindThread(d) = [doc |-> first, ids |-> ids]
  BY DEF FindThread
<1>2. found \subseteq Docs
  BY DEF Typed, TypeOK
<1> HIDE DEF related
<1>3. related \in SUBSET Docs
  BY DEF related
<1>4. \A t \in Docs : IsFiniteSet(In(t)) /\ Cardinality(In(t)) \in Nat /\ (Cardinality(In(t)) = 0 <=> In(t) = {})
  <2> TAKE t \in Docs
  <2>1. In(t) \in SUBSET Docs
    BY <1>3
  <2> HIDE DEF In
  <2>2. IsFiniteSet(In(t))
    BY <2>1, FS_Subset, ThreadDocsAssumption
  <2> QED BY <2>2, FS_CardinalityType, FS_EmptySet
<1>5. found # {} => MergeThreadId(count) \in found
  <2> SUFFICES ASSUME NEW e \in related PROVE MergeThreadId(count) \in found
    OBVIOUS
  <2>1. index[e] \in Docs /\ e \in In(index[e])
    BY <1>2
  <2> HIDE DEF In
  <2>2. count \in [Docs -> Nat] /\ count[index[e]] > 0
    <3>1. Cardinality(In(index[e])) > 0
      BY <1>4, <2>1
    <3> QED BY <1>4, <2>1, <3>1
  <2>3. PICK t \in Docs : t = MergeThreadId(count) /\ count[t] > 0
    <3> HIDE DEF count
    <3> QED BY <2>1, <2>2, MergeThreadIdIsListed
  <2>4. In(t) # {}
    BY <1>4, <2>3
  <2>5. t \in found
    BY <2>4 DEF In
  <2> QED BY <2>3, <2>5
<1> HIDE DEF found, count
<1>6. first \in Docs /\ (first = d \/ first \in found) /\ (found # {} => first \in found)
  BY <1>2, <1>5
<1>7. ids \in SUBSET Docs
  BY <1>2
<1> HIDE DEF first
<1>8. FindThread(d) \in Merge /\ FindThread(d).doc = first /\ FindThread(d).ids = ids
  BY <1>1, <1>6, <1>7 DEF Merge
<1> QED BY <1>6, <1>8 DEF found, related

(* A lookup.                                                                *)
LEMMA FindType ==
  ASSUME Typed, NEW d \in Docs, Find(d)
  PROVE  Typed'
<1>1. FindThread(d) \in Merge
  BY FindThreadAnswers
<1> HIDE DEF FindThread
<1>2. plan' \in [Docs -> [doc : Docs, ids : SUBSET Docs] \cup {NoMerge}] /\ PlanMade'
  BY <1>1 DEF Find, Typed, TypeOK, Merge, PlanMade
<1>3. raced' \in BOOLEAN
  BY DEF Find, Typed, TypeOK
<1> QED BY <1>2, <1>3 DEF Find, Typed, TypeOK, SeenSome, loop

(* The batch of a session.                                                  *)
LEMMA StoreType ==
  ASSUME Typed, NEW d \in Docs, Store(d)
  PROVE  Typed'
<1>1. plan[d] \in Merge
  BY DEF Store, Typed, PlanMade
<1>2. plan[d].doc \in Docs /\ plan[d].ids \in SUBSET Docs
  BY <1>1 DEF Merge
<1>3. tasks' \subseteq Merge
  BY <1>2 DEF Store, Typed, TypeOK, Merge
<1>4. /\ thread' \in [Docs -> Docs \cup {None}] /\ index' \in [Docs -> Docs \cup {None}]
      /\ version' \in [Docs -> Nat] /\ session' \in [Docs -> {"new", "found", "stored"}]
  BY <1>2 DEF Store, Typed, TypeOK
<1> QED BY <1>3, <1>4 DEF Store, Typed, TypeOK, SeenSome, PlanMade, loop

(* A change, and the two steps of a deletion.                               *)
LEMMA ChangeType ==
  ASSUME Typed, NEW d \in Docs, Change(d) \/ DeleteMessage(d) \/ DeleteEntry(d)
  PROVE  Typed'
<1>1. CASE Change(d)
  BY <1>1 DEF Change, Typed, TypeOK, SeenSome, PlanMade, loop
<1>2. CASE DeleteMessage(d)
  BY <1>2 DEF DeleteMessage, Typed, TypeOK, SeenSome, PlanMade, loop
<1>3. CASE DeleteEntry(d)
  BY <1>3 DEF DeleteEntry, Typed, TypeOK, SeenSome, PlanMade, loop
<1> QED BY <1>1, <1>2, <1>3

(* A worker starts on a task.                                               *)
LEMMA BeginType ==
  ASSUME Typed, NEW w \in Workers, Begin(w)
  PROVE  Typed'
<1> DEFINE zero == [p \in Pair |-> 0]
<1>1. zero \in [Pair -> Nat]
  OBVIOUS
<1>2. seen' = [seen EXCEPT ![w] = zero]
  BY DEF Begin
<1> HIDE DEF zero
<1>3. seen' \in [Workers -> [Pair -> Nat]] /\ \A v \in Workers : v # w => seen'[v] = seen[v]
  BY <1>1, <1>2 DEF Typed, TypeOK
<1>4. task' \in [Workers -> Merge \cup {NoMerge}] /\ locks' \subseteq Merge
  <2>1. PICK t \in tasks : task' = [task EXCEPT ![w] = t] /\ locks' = locks \cup {t}
    BY DEF Begin
  <2>2. t \in Merge
    BY DEF Typed, TypeOK
  <2> QED BY <2>1, <2>2 DEF Typed, TypeOK
<1>5. /\ pc' \in [Workers -> PcStates] /\ pc'[w] = "scan"
      /\ \A v \in Workers : v # w => pc'[v] = pc[v]
      /\ tries' \in [Workers -> Nat] /\ entries' \in [Workers -> SUBSET Docs]
  BY DEF Begin, Typed, TypeOK, PcStates
<1>6. SeenSome'
  BY <1>3, <1>5 DEF Typed, SeenSome
<1> QED BY <1>3, <1>4, <1>5, <1>6 DEF Begin, Typed, TypeOK, PlanMade, store

(* What a scan lists, and which threads it finds.                           *)
Hits(w) == {d \in Docs : index[d] # None /\ index[d] \in task[w].ids}
List(w) ==
  [p \in Pair |-> seen[w][p] + IF p[2] \in Hits(w) /\ index[p[2]] = p[1] THEN 1 ELSE 0]
Found(count) == {t \in Docs : Total(count, t) > 0}
Best(count) == MergeThreadId([t \in Docs |-> Total(count, t)])

(* A scan in these words.                                                   *)
LEMMA ScanSteps ==
  ASSUME NEW w \in Workers, Scan(w)
  PROVE  /\ pc[w] = "scan"
         /\ seen' = [seen EXCEPT ![w] = List(w)]
         /\ entries' = [entries EXCEPT ![w] = @ \cup Hits(w)]
         /\ \/ /\ Cardinality(Found(List(w))) < 2
               /\ pc' = [pc EXCEPT ![w] = "clear"]
               /\ left' = left
            \/ /\ ~(Cardinality(Found(List(w))) < 2)
               /\ pc' = [pc EXCEPT ![w] = "visit"]
               /\ left' = [left EXCEPT ![w] =
                     [p \in Pair |-> IF p[1] = Best(List(w)) THEN 0 ELSE List(w)[p]]]
         /\ reads' = [reads EXCEPT ![w] = {}]
         /\ UNCHANGED <<store, tasks, locks, task, tries, raced>>
BY Zenon DEF Scan, List, Found, Best, Hits

(* A scan lists every message of a thread to merge.                         *)
LEMMA ListType ==
  ASSUME Typed, NEW w \in Workers
  PROVE  /\ List(w) \in [Pair -> Nat]
         /\ Hits(w) \in SUBSET Docs
         /\ \A p \in Pair : List(w)[p] > 0 <=> seen[w][p] > 0 \/ (p[2] \in Hits(w) /\ index[p[2]] = p[1])
<1>1. seen[w] \in [Pair -> Nat]
  BY DEF Typed, TypeOK
<1>2. \A p \in Pair : seen[w][p] \in Nat
  BY <1>1
<1> QED BY <1>2 DEF List, Hits

(* With no thread in the list there is nothing to visit.                    *)
LEMMA FoundSome ==
  ASSUME NEW count \in [Pair -> Nat], ~(Cardinality(Found(count)) < 2)
  PROVE  \E p \in Pair : count[p] > 0
<1>1. PICK t \in Docs : Total(count, t) > 0
  <2>1. Found(count) # {}
    BY FS_EmptySet
  <2> QED BY <2>1 DEF Found
<1>2. PICK d \in Docs : count[<<t, d>>] > 0
  BY <1>1, TotalCounts
<1> QED BY <1>2 DEF Pair

(* A scan.                                                                  *)
LEMMA ScanType ==
  ASSUME Typed, NEW w \in Workers, Scan(w)
  PROVE  Typed'
<1>0. /\ List(w) \in [Pair -> Nat]
      /\ Hits(w) \in SUBSET Docs
  BY ListType
<1>1. seen' \in [Workers -> [Pair -> Nat]] /\ seen'[w] = List(w)
      /\ \A v \in Workers : v # w => seen'[v] = seen[v]
  <2>1. seen' = [seen EXCEPT ![w] = List(w)] /\ seen \in [Workers -> [Pair -> Nat]]
    BY ScanSteps DEF Typed, TypeOK
  <2> QED BY <1>0, <2>1, Put
<1>2. /\ entries' \in [Workers -> SUBSET Docs]
      /\ reads' \in [Workers -> SUBSET (Docs \X Nat)]
  <2>1. entries' = [entries EXCEPT ![w] = entries[w] \cup Hits(w)] /\ reads' = [reads EXCEPT ![w] = {}]
    BY ScanSteps
  <2>2. /\ entries \in [Workers -> SUBSET Docs]
        /\ reads \in [Workers -> SUBSET (Docs \X Nat)]
    BY DEF Typed, TypeOK
  <2>3. entries[w] \cup Hits(w) \in SUBSET Docs
    BY <1>0, <2>2
  <2>4. entries' \in [Workers -> SUBSET Docs]
    BY <2>1, <2>2, <2>3, Put
  <2>5. {} \in SUBSET (Docs \X Nat)
    OBVIOUS
  <2> QED BY <2>1, <2>2, <2>4, <2>5, Put
<1>3. /\ pc' \in [Workers -> PcStates]
      /\ \A v \in Workers : v # w => pc'[v] = pc[v]
      /\ pc'[w] = "visit" => ~(Cardinality(Found(List(w))) < 2)
  <2>1. \/ pc' = [pc EXCEPT ![w] = "clear"]
        \/ pc' = [pc EXCEPT ![w] = "visit"] /\ ~(Cardinality(Found(List(w))) < 2)
    BY ScanSteps, Zenon
  <2>2. pc \in [Workers -> PcStates]
    BY DEF Typed, TypeOK
  <2> QED BY <2>1, <2>2 DEF PcStates
<1>4. left' \in [Workers -> [Pair -> Nat]]
  <2> DEFINE L == [p \in Pair |-> IF p[1] = Best(List(w)) THEN 0 ELSE List(w)[p]]
  <2>1. L \in [Pair -> Nat]
    BY <1>0
  <2>2. left' = left \/ left' = [left EXCEPT ![w] = L]
    BY ScanSteps
  <2> HIDE DEF L
  <2> QED BY <2>1, <2>2 DEF Typed, TypeOK
<1>5. SeenSome'
  <2>1. pc'[w] = "visit" => \E p \in Pair : List(w)[p] > 0
    BY <1>0, <1>3, FoundSome
  <2> QED BY <1>1, <1>3, <2>1 DEF Typed, SeenSome
<1>6. UNCHANGED <<store, tasks, locks, task, tries, raced>>
  BY ScanSteps
<1> QED BY <1>1, <1>2, <1>3, <1>4, <1>5, <1>6 DEF Typed, TypeOK, PlanMade, store

(* A visit takes a pair off the list.                                       *)
LEMMA VisitSteps ==
  ASSUME Typed, NEW w \in Workers, Visit(w)
  PROVE  \E t \in Docs, d \in Docs :
           /\ pc[w] = "visit"
           /\ left[w][<<t, d>>] \in Nat \ {0}
           /\ left' = [left EXCEPT ![w] = [left[w] EXCEPT ![<<t, d>>] = left[w][<<t, d>>] - 1]]
           /\ \/ /\ ~Alive(d)
                 /\ UNCHANGED <<pc, tries, entries, reads>>
              \/ /\ pc' = [pc EXCEPT ![w] = "scan"]
                 /\ tries' = [tries EXCEPT ![w] = @ + 1]
                 /\ UNCHANGED <<entries, reads>>
              \/ /\ Alive(d) /\ thread[d] = t
                 /\ entries' = [entries EXCEPT ![w] = @ \ {d}]
                 /\ reads' = [reads EXCEPT ![w] = @ \cup {<<d, version[d]>>}]
                 /\ UNCHANGED <<pc, tries>>
              \/ /\ pc' = [pc EXCEPT ![w] = "dead"]
                 /\ UNCHANGED <<tries, entries, reads>>
           /\ UNCHANGED <<store, tasks, locks, task, seen, raced>>
<1>1. PICK p \in Pair :
       /\ left[w][p] > 0
       /\ left' = [left EXCEPT ![w][p] = @ - 1]
       /\ \/ /\ ~Alive(p[2])
             /\ UNCHANGED <<pc, tries, entries, reads>>
          \/ /\ Alive(p[2]) /\ thread[p[2]] # p[1]
             /\ pc' = [pc EXCEPT ![w] = "scan"]
             /\ tries' = [tries EXCEPT ![w] = @ + 1]
             /\ UNCHANGED <<entries, reads>>
          \/ /\ Alive(p[2]) /\ thread[p[2]] = p[1] /\ p[2] \in entries[w]
             /\ entries' = [entries EXCEPT ![w] = @ \ {p[2]}]
             /\ reads' = [reads EXCEPT ![w] = @ \cup {<<p[2], version[p[2]]>>}]
             /\ UNCHANGED <<pc, tries>>
          \/ /\ Alive(p[2]) /\ thread[p[2]] = p[1] /\ p[2] \notin entries[w]
             /\ pc' = [pc EXCEPT ![w] = "dead"]
             /\ UNCHANGED <<tries, entries, reads>>
  BY Zenon DEF Visit
<1>2. PICK t \in Docs, d \in Docs : p = <<t, d>>
  BY DEF Pair
<1>3. p[1] = t /\ p[2] = d
  BY <1>2
<1>4. left[w] \in [Pair -> Nat]
  BY DEF Typed, TypeOK
<1>5. left[w][p] \in Nat \ {0}
  BY <1>1, <1>4
<1>6. pc[w] = "visit" /\ UNCHANGED <<store, tasks, locks, task, seen, raced>>
  BY DEF Visit
<1>7. left' = [left EXCEPT ![w] = [left[w] EXCEPT ![p] = left[w][p] - 1]]
  BY <1>1, Zenon
<1>8. /\ \/ /\ ~Alive(d)
            /\ UNCHANGED <<pc, tries, entries, reads>>
         \/ /\ pc' = [pc EXCEPT ![w] = "scan"]
            /\ tries' = [tries EXCEPT ![w] = @ + 1]
            /\ UNCHANGED <<entries, reads>>
         \/ /\ Alive(d) /\ thread[d] = t
            /\ entries' = [entries EXCEPT ![w] = @ \ {d}]
            /\ reads' = [reads EXCEPT ![w] = @ \cup {<<d, version[d]>>}]
            /\ UNCHANGED <<pc, tries>>
         \/ /\ pc' = [pc EXCEPT ![w] = "dead"]
            /\ UNCHANGED <<tries, entries, reads>>
  BY <1>1, <1>3, Zenon
<1> QED BY <1>2, <1>5, <1>6, <1>7, <1>8, Zenon

(* A visit.                                                                 *)
LEMMA VisitType ==
  ASSUME Typed, NEW w \in Workers, Visit(w)
  PROVE  Typed'
<1>1. PICK t \in Docs, d \in Docs :
           /\ pc[w] = "visit"
           /\ left[w][<<t, d>>] \in Nat \ {0}
           /\ left' = [left EXCEPT ![w] = [left[w] EXCEPT ![<<t, d>>] = left[w][<<t, d>>] - 1]]
           /\ \/ /\ ~Alive(d)
                 /\ UNCHANGED <<pc, tries, entries, reads>>
              \/ /\ pc' = [pc EXCEPT ![w] = "scan"]
                 /\ tries' = [tries EXCEPT ![w] = @ + 1]
                 /\ UNCHANGED <<entries, reads>>
              \/ /\ Alive(d) /\ thread[d] = t
                 /\ entries' = [entries EXCEPT ![w] = @ \ {d}]
                 /\ reads' = [reads EXCEPT ![w] = @ \cup {<<d, version[d]>>}]
                 /\ UNCHANGED <<pc, tries>>
              \/ /\ pc' = [pc EXCEPT ![w] = "dead"]
                 /\ UNCHANGED <<tries, entries, reads>>
           /\ UNCHANGED <<store, tasks, locks, task, seen, raced>>
  BY VisitSteps
<1>2. left' \in [Workers -> [Pair -> Nat]]
  <2> DEFINE L == [left[w] EXCEPT ![<<t, d>>] = left[w][<<t, d>>] - 1]
  <2>1. left[w] \in [Pair -> Nat]
    BY DEF Typed, TypeOK
  <2>2. left[w][<<t, d>>] - 1 \in Nat
    BY <1>1
  <2>3. L \in [Pair -> Nat]
    BY <2>1, <2>2
  <2>4. left' = [left EXCEPT ![w] = L]
    BY <1>1, Zenon
  <2>5. left \in [Workers -> [Pair -> Nat]]
    BY DEF Typed, TypeOK
  <2> HIDE DEF L
  <2> QED BY <2>3, <2>4, <2>5, Put
<1>3. reads' \in [Workers -> SUBSET (Docs \X Nat)]
  <2>1. <<d, version[d]>> \in Docs \X Nat
    BY DEF Typed, TypeOK
  <2>2. reads \in [Workers -> SUBSET (Docs \X Nat)]
    BY DEF Typed, TypeOK
  <2>3. reads[w] \cup {<<d, version[d]>>} \in SUBSET (Docs \X Nat)
    BY <2>1, <2>2
  <2>4. reads' = reads \/ reads' = [reads EXCEPT ![w] = reads[w] \cup {<<d, version[d]>>}]
    BY <1>1, Zenon
  <2> QED BY <2>2, <2>3, <2>4, Put
<1>4. entries' \in [Workers -> SUBSET Docs] /\ tries' \in [Workers -> Nat]
  <2>1. entries \in [Workers -> SUBSET Docs] /\ tries \in [Workers -> Nat]
    BY DEF Typed, TypeOK
  <2>2. entries[w] \ {d} \in SUBSET Docs /\ tries[w] + 1 \in Nat
    BY <2>1
  <2>3. entries' = entries \/ entries' = [entries EXCEPT ![w] = entries[w] \ {d}]
    BY <1>1, Zenon
  <2>4. tries' = tries \/ tries' = [tries EXCEPT ![w] = tries[w] + 1]
    BY <1>1, Zenon
  <2>5. entries' \in [Workers -> SUBSET Docs]
    BY <2>1, <2>2, <2>3, Put
  <2> QED BY <2>1, <2>2, <2>4, <2>5, Put
<1>5. pc' \in [Workers -> PcStates] /\ \A v \in Workers : pc'[v] = "visit" => pc[v] = "visit"
  BY <1>1 DEF Typed, TypeOK, PcStates
<1>6. UNCHANGED <<store, tasks, locks, task, seen, raced>>
  BY <1>1
<1> QED BY <1>2, <1>3, <1>4, <1>5, <1>6 DEF Typed, TypeOK, SeenSome, PlanMade, store

(* The thread that a batch moves messages to is one of the list.            *)
LEMMA WinnerType ==
  ASSUME Typed, NEW w \in Workers, pc[w] = "visit"
  PROVE  Winner(w) \in Docs
<1>1. seen[w] \in [Pair -> Nat]
  BY DEF Typed, TypeOK
<1>2. \E p \in Pair : seen[w][p] > 0
  BY DEF Typed, SeenSome
<1> QED BY <1>1, <1>2, WinnerIsListed DEF Winner

(* A batch.                                                                 *)
LEMMA CommitType ==
  ASSUME Typed, NEW w \in Workers, Commit(w)
  PROVE  Typed'
<1>1. Winner(w) \in Docs
  BY WinnerType DEF Commit
<1>2. closed' \subseteq Docs
  BY DEF Commit, Typed, TypeOK
<1>3. pc' \in [Workers -> PcStates] /\ \A v \in Workers : pc'[v] = "visit" => pc[v] = "visit"
  BY DEF Commit, Typed, TypeOK, PcStates
<1>4. tries' \in [Workers -> Nat]
  <2>1. tries \in [Workers -> Nat]
    BY DEF Typed, TypeOK
  <2>2. \/ tries' = tries
        \/ tries' = [tries EXCEPT ![w] = IF tries[w] < MaxRetries THEN tries[w] + 1 ELSE tries[w]]
    BY DEF Commit
  <2>3. (IF tries[w] < MaxRetries THEN tries[w] + 1 ELSE tries[w]) \in Nat
    BY <2>1
  <2> QED BY <2>1, <2>2, <2>3
<1>5. /\ thread' \in [Docs -> Docs \cup {None}]
      /\ version' \in [Docs -> Nat]
      /\ index' \in [Docs -> Docs \cup {None}]
  <2>1. CASE /\ thread' = [d \in Docs |-> IF d \in Moved(w) THEN Winner(w) ELSE thread[d]]
             /\ version' = [d \in Docs |-> IF d \in Moved(w) THEN version[d] + 1 ELSE version[d]]
             /\ index' = [d \in Docs |-> IF d \in Moved(w) THEN Winner(w) ELSE index[d]]
    <3> HIDE DEF Moved, Winner
    <3> QED BY <1>1, <2>1 DEF Typed, TypeOK
  <2>2. CASE UNCHANGED <<thread, version, index>>
    BY <2>2 DEF Typed, TypeOK
  <2> QED BY <2>1, <2>2 DEF Commit
<1>6. UNCHANGED <<session, plan, tasks, locks, task, seen, entries, left, reads, raced>>
  BY DEF Commit
<1> QED BY <1>2, <1>3, <1>4, <1>5, <1>6 DEF Typed, TypeOK, SeenSome, PlanMade

(* Every step keeps the types.                                              *)
LEMMA TypedStep == Typed /\ [Next]_vars => Typed'
<1> SUFFICES ASSUME Typed, [Next]_vars PROVE Typed'
  OBVIOUS
<1>1. ASSUME NEW w \in Workers, Clear(w) PROVE Typed'
  BY <1>1 DEF Clear, Typed, TypeOK, SeenSome, PlanMade, PcStates, store, loop
<1>2. ASSUME NEW w \in Workers, Restart(w) PROVE Typed'
  BY <1>2 DEF Restart, Typed, TypeOK, SeenSome, PlanMade, PcStates, store, loop
<1>3. ASSUME NEW t \in locks, Lapse(t) PROVE Typed'
  BY <1>3 DEF Lapse, Typed, TypeOK, SeenSome, PlanMade, store, loop
<1>4. CASE UNCHANGED vars
  BY <1>4 DEF vars, store, loop, Typed, TypeOK, SeenSome, PlanMade
<1> QED
  BY <1>1, <1>2, <1>3, <1>4, FindType, StoreType, ChangeType, BeginType, ScanType, VisitType,
     CommitType DEF Next, WorkerStep

(* Every variable of ThreadMerge keeps its type: in particular a message is *)
(* always moved to a thread that the merge has listed, never to the answer  *)
(* of merge_thread_id for an empty list.                                    *)
THEOREM TypeCorrect == Spec => []TypeOK
<1>1. Typed => TypeOK
  BY DEF Typed
<1> QED BY <1>1, TypedInit, TypedStep, PTL DEF Spec

-----------------------------------------------------------------------------
(* The index and the archives *)

(* What the proofs need of the types: the two maps are defined for every    *)
(* message.                                                                 *)
Maps == DOMAIN thread = Docs /\ DOMAIN index = Docs

(* Maps and the agreement, which is inductive with it.                      *)
Agreement == Maps /\ IndexAgrees

-----------------------------------------------------------------------------

(* Before the first message there is nothing to disagree about.             *)
LEMMA AgreementInit == Init => Agreement
BY DEF Init, Agreement, Maps, IndexAgrees, Alive

(* The batch of email_ingest writes one thread to the archive and to the    *)
(* index.                                                                   *)
LEMMA StoreAgrees ==
  ASSUME Agreement, NEW d \in Docs, Store(d)
  PROVE  Agreement'
BY DEF Agreement, Maps, IndexAgrees, Alive, Store

(* The deletion of an archive leaves one message less to agree on, and the  *)
(* deletion of an entry is of a message without archive.                    *)
LEMMA DeleteAgrees ==
  ASSUME Agreement, NEW d \in Docs, DeleteMessage(d) \/ DeleteEntry(d)
  PROVE  Agreement'
BY DEF Agreement, Maps, IndexAgrees, Alive, DeleteMessage, DeleteEntry, None

(* The batch of a merge moves a message in both or in neither.              *)
LEMMA CommitAgrees ==
  ASSUME Agreement, NEW w \in Workers, Commit(w)
  PROVE  Agreement'
<1> DEFINE M == Moved(w)
           W == Winner(w)
<1>1. CASE /\ thread' = [d \in Docs |-> IF d \in M THEN W ELSE thread[d]]
           /\ index' = [d \in Docs |-> IF d \in M THEN W ELSE index[d]]
  <2> HIDE DEF M, W
  <2> QED BY <1>1 DEF Agreement, Maps, IndexAgrees, Alive
<1>2. CASE thread' = thread /\ index' = index
  BY <1>2 DEF Agreement, Maps, IndexAgrees, Alive
<1> QED BY <1>1, <1>2 DEF Commit

(* Every other step leaves both alone.                                      *)
LEMMA AgreementStep == Agreement /\ [Next]_vars => Agreement'
<1> SUFFICES ASSUME Agreement, [Next]_vars PROVE Agreement'
  OBVIOUS
<1>1. ASSUME thread' = thread, index' = index PROVE Agreement'
  BY <1>1 DEF Agreement, Maps, IndexAgrees, Alive
<1>2. ASSUME NEW d \in Docs, Find(d) \/ Change(d) PROVE Agreement'
  BY <1>1, <1>2 DEF Find, Change
<1>3. ASSUME NEW w \in Workers,
             Begin(w) \/ Scan(w) \/ Visit(w) \/ Clear(w) \/ Restart(w)
      PROVE  Agreement'
  BY <1>1, <1>3 DEF Begin, Scan, Visit, Clear, Restart, store
<1>4. ASSUME NEW t \in locks, Lapse(t) PROVE Agreement'
  BY <1>1, <1>4 DEF Lapse, store
<1>5. CASE UNCHANGED vars
  BY <1>1, <1>5 DEF vars, store
<1> QED
  BY <1>2, <1>3, <1>4, <1>5, StoreAgrees, DeleteAgrees, CommitAgrees DEF Next, WorkerStep

(* The threading index and the archives agree: a lookup of find_thread_id   *)
(* and a scan of merge_threads see for every message that exists the thread *)
(* that clients see.                                                        *)
THEOREM IndexAgreesHolds == Spec => []IndexAgrees
<1>1. Agreement => IndexAgrees
  BY DEF Agreement
<1> QED BY <1>1, AgreementInit, AgreementStep, PTL DEF Spec

-----------------------------------------------------------------------------

(* The batch asserts the archives that it moves, and an assertion fails for *)
(* one that is gone.                                                        *)
LEMMA CommitRevivesNone ==
  ASSUME NEW w \in Workers, Commit(w), NEW d \in Docs, ~Alive(d)
  PROVE  thread'[d] = None
<1>1. CASE /\ Unchanged(w)
           /\ thread' = [e \in Docs |-> IF e \in Moved(w) THEN Winner(w) ELSE thread[e]]
  <2>1. d \notin Moved(w)
    BY <1>1 DEF Moved, Unchanged
  <2> HIDE DEF Moved, Winner
  <2> QED BY <1>1, <2>1 DEF Alive
<1>2. CASE thread' = thread
  BY <1>2 DEF Alive
<1> QED BY <1>1, <1>2 DEF Commit

(* No step gives a stored message without archive one again.                *)
LEMMA NoRevival ==
  ASSUME Agreement, [Next]_vars, NEW d \in Docs, session[d] = "stored", ~Alive(d)
  PROVE  thread'[d] = None
<1>1. CASE thread' = thread
  BY <1>1 DEF Alive
<1>2. ASSUME NEW e \in Docs, Find(e) \/ Change(e) \/ DeleteEntry(e)
      PROVE  thread'[d] = None
  BY <1>1, <1>2 DEF Find, Change, DeleteEntry
<1>3. ASSUME NEW e \in Docs, Store(e) PROVE thread'[d] = None
  BY <1>3 DEF Store, Agreement, Maps, Alive
<1>4. ASSUME NEW e \in Docs, DeleteMessage(e) PROVE thread'[d] = None
  BY <1>4 DEF DeleteMessage, Agreement, Maps, Alive
<1>5. ASSUME NEW w \in Workers,
             Begin(w) \/ Scan(w) \/ Visit(w) \/ Clear(w) \/ Restart(w)
      PROVE  thread'[d] = None
  BY <1>1, <1>5 DEF Begin, Scan, Visit, Clear, Restart, store
<1>6. ASSUME NEW t \in locks, Lapse(t) PROVE thread'[d] = None
  BY <1>1, <1>6 DEF Lapse, store
<1>7. CASE UNCHANGED vars
  BY <1>1, <1>7 DEF vars, store
<1> QED
  BY <1>2, <1>3, <1>4, <1>5, <1>6, <1>7, CommitRevivesNone DEF Next, WorkerStep

(* A merge never brings back a message that was deleted while it ran.       *)
THEOREM DeletedStaysDeletedHolds == Spec => DeletedStaysDeleted
<1> DEFINE Step == \A d \in Docs : (session[d] = "stored" /\ ~Alive(d)) => thread'[d] = None
<1>1. Agreement /\ [Next]_vars => [Step]_vars
  BY NoRevival
<1>2. DeletedStaysDeleted <=> [][Step]_vars
  BY DEF DeletedStaysDeleted
<1> QED BY <1>1, <1>2, AgreementInit, AgreementStep, PTL DEF Spec

-----------------------------------------------------------------------------
(* One conversation, one thread *)

(* Two messages that belong to one conversation: a message id in common,    *)
(* which has_message_id finds as both lists are sorted.                     *)
Shares(d, e) == Sorted(d) /\ Sorted(e) /\ MessageIds(d) \cap MessageIds(e) # {}

(* The lock of a task is in force while a worker is at it, and it is the    *)
(* work of one worker at most.                                              *)
Claimed ==
  /\ \A w \in Workers : Busy(w) => task[w] \in locks
  /\ \A v, w \in Workers : Busy(v) /\ Busy(w) /\ task[v] = task[w] => v = w

(* What a worker lists are messages of the threads it is to merge.          *)
Listed ==
  \A w \in Workers : \A t, d \in Docs :
     /\ pc[w] \in {"scan", "visit"} /\ seen[w][<<t, d>>] > 0 => t \in task[w].ids
     /\ pc[w] = "visit" /\ left[w][<<t, d>>] > 0 => t \in task[w].ids

(* Without a race there is one task at a time, no lookup is between its two *)
(* steps while there is one, and it is what every worker works on.          *)
OneTask ==
  /\ \A s, t \in tasks : s = t
  /\ \A d \in Docs : session[d] = "found" => tasks = {}
  /\ \A d, e \in Docs : session[d] = "found" /\ session[e] = "found" => d = e
  /\ \A w \in Workers : Busy(w) => task[w] \in tasks

(* What a session has found covers its conversation still.                  *)
Planned ==
  \A d \in Docs : session[d] = "found" =>
     /\ plan[d].ids # {} => plan[d].doc \in plan[d].ids
     /\ \A e \in Docs : Alive(e) /\ Shares(d, e) =>
          IF plan[d].ids = {} THEN thread[e] = plan[d].doc ELSE thread[e] \in plan[d].ids

(* A conversation is in one thread, or in threads that are to be merged.    *)
Grouped ==
  \A d, e \in Docs : Alive(d) /\ Alive(e) /\ Shares(d, e) =>
     \/ thread[d] = thread[e]
     \/ \E t \in tasks : thread[d] \in t.ids /\ thread[e] \in t.ids

(* A message of a thread to merge is in the thread that is kept, has still  *)
(* to be visited, or will be moved; and only such messages will.            *)
Gathered(w) ==
  \A d \in Docs : Alive(d) =>
     /\ thread[d] \in task[w].ids =>
          thread[d] = Winner(w) \/ left[w][<<thread[d], d>>] > 0 \/ d \in Moved(w)
     /\ d \in Moved(w) => thread[d] \in task[w].ids

(* The threads are merged.                                                  *)
Together(w) ==
  \A d, e \in Docs :
     Alive(d) /\ Alive(e) /\ thread[d] \in task[w].ids /\ thread[e] \in task[w].ids
       => thread[d] = thread[e]

(* What a worker has achieved.                                              *)
Merging ==
  \A w \in Workers : /\ pc[w] = "visit" => Gathered(w)
                     /\ pc[w] = "clear" => Together(w)

(* The inductive invariant of OneThread.                                    *)
Quiet == OneTask /\ Planned /\ Grouped /\ Merging
MergeInv == Typed /\ Agreement /\ Listed /\ (~raced => Claimed /\ Quiet)

-----------------------------------------------------------------------------

(* There is nothing to merge at first.                                      *)
LEMMA MergeInvInit == Init => MergeInv
<1> SUFFICES ASSUME Init PROVE MergeInv
  OBVIOUS
<1>1. Typed /\ Agreement
  BY TypedInit, AgreementInit
<1>2. tasks = {} /\ (\A d \in Docs : session[d] = "new" /\ ~Alive(d))
       /\ \A w \in Workers : pc[w] = "idle"
  BY DEF Init, Alive
<1>3. Claimed /\ Listed
  BY <1>2 DEF Claimed, Listed, Busy
<1>4. Quiet
  BY <1>2 DEF Quiet, OneTask, Planned, Grouped, Merging, Busy
<1> QED BY <1>1, <1>3, <1>4 DEF MergeInv

(* Under OneTask there is one worker at work.                               *)
LEMMA LoneWorker ==
  ASSUME OneTask, Claimed, NEW v \in Workers, NEW w \in Workers, Busy(v), Busy(w)
  PROVE  v = w
BY DEF OneTask, Claimed

(* No message starts a thread or changes to another, but some may go.       *)
OnlyDeletes == \A d \in Docs : thread'[d] = thread[d] \/ thread'[d] = None

(* What a worker has collected, and what it has merged, stays so when       *)
(* messages are deleted.                                                    *)
LEMMA GatheredFrame ==
  ASSUME OnlyDeletes, NEW w \in Workers, Gathered(w),
         task'[w] = task[w], seen'[w] = seen[w], left'[w] = left[w], reads'[w] = reads[w]
  PROVE  Gathered(w)'
<1>1. Winner(w)' = Winner(w) /\ Moved(w)' = Moved(w)
  BY DEF Winner, Moved
<1>2. \A d \in Docs : Alive(d)' => Alive(d) /\ thread'[d] = thread[d]
  BY DEF OnlyDeletes, Alive
<1> QED BY <1>1, <1>2 DEF Gathered

LEMMA TogetherFrame ==
  ASSUME OnlyDeletes, NEW w \in Workers, Together(w), task'[w] = task[w]
  PROVE  Together(w)'
<1>2. \A d \in Docs : Alive(d)' => Alive(d) /\ thread'[d] = thread[d]
  BY DEF OnlyDeletes, Alive
<1> QED BY <1>2 DEF Together

(* Steps that delete at most, and that leave what a worker has collected or *)
(* merged alone, or drop it.                                                *)
LEMMA QuietFrame ==
  ASSUME Quiet, OnlyDeletes, UNCHANGED <<session, plan, tasks>>,
         \A v \in Workers : Busy(v)' => task'[v] \in tasks,
         \A v \in Workers : pc'[v] \in {"visit", "clear"} =>
            pc'[v] = pc[v] /\ task'[v] = task[v],
         \A v \in Workers : pc'[v] = "visit" =>
            seen'[v] = seen[v] /\ left'[v] = left[v] /\ reads'[v] = reads[v]
  PROVE  Quiet'
<1>1. \A d \in Docs : Alive(d)' => Alive(d) /\ thread'[d] = thread[d]
  BY DEF OnlyDeletes, Alive
<1>2. OneTask'
  BY DEF Quiet, OneTask
<1>3. Planned'
  BY <1>1 DEF Quiet, Planned, Shares, Sorted, MessageIds
<1>4. Grouped'
  BY <1>1 DEF Quiet, Grouped, Shares, Sorted, MessageIds
<1>5. Merging'
  BY GatheredFrame, TogetherFrame DEF Quiet, Merging
<1> QED BY <1>2, <1>3, <1>4, <1>5 DEF Quiet

(* Lookups: has_message_id finds every message of the conversation.         *)
LEMMA SharesFound ==
  ASSUME NEW d \in Docs, NEW e \in Docs, Shares(d, e)
  PROVE  HasMessageId(Refs[d], Refs[e])
<1>1. Refs[d] \in Seq(Nat) /\ Refs[e] \in Seq(Nat)
  BY RefsAssumption
<1>2. Increasing(Refs[d]) /\ Increasing(Refs[e])
  BY DEF Shares, Sorted, Increasing
<1>3. PICK i \in DOMAIN Refs[d], j \in DOMAIN Refs[e] : Refs[d][i] = Refs[e][j]
  BY DEF Shares, MessageIds
<1>4. i \in 1..Len(Refs[d]) /\ j \in 1..Len(Refs[e])
  BY <1>1
<1> HIDE DEF HasMessageId
<1> QED BY <1>1, <1>2, <1>3, <1>4, HasMessageIdFinds

(* A lookup that overlaps nothing covers the conversation.                  *)
LEMMA FindQuiet ==
  ASSUME MergeInv, NEW d \in Docs, Find(d), ~raced'
  PROVE  Quiet'
<1>1. ~raced /\ tasks = {} /\ \A e \in Docs : session[e] # "found"
  BY DEF Find
<1>2. Quiet /\ Typed /\ IndexAgrees
  BY <1>1 DEF MergeInv, Agreement
<1>3. /\ session'[d] = "found" /\ plan'[d] = FindThread(d)
      /\ \A e \in Docs : e # d => session'[e] = session[e]
      /\ UNCHANGED <<thread, tasks, pc, task, seen, left, reads>>
  <2> HIDE DEF FindThread
  <2> QED BY <1>2 DEF Find, Typed, TypeOK, loop
<1> DEFINE related == {e \in Docs : index[e] # None /\ HasMessageId(Refs[d], Refs[e])}
           found == {index[e] : e \in related}
<1>4. /\ FindThread(d).ids = IF Cardinality(found) > 1 THEN found ELSE {}
      /\ found # {} => FindThread(d).doc \in found
  BY <1>2, FindThreadAnswers
<1>5. found \subseteq Docs
  BY <1>2 DEF Typed, TypeOK
<1>6. ASSUME NEW e \in Docs, Alive(e), Shares(d, e)
      PROVE  thread[e] \in found
  <2>1. index[e] = thread[e] /\ index[e] # None
    BY <1>2, <1>6 DEF IndexAgrees, Alive
  <2>2. e \in related
    BY <1>6, <2>1, SharesFound
  <2> HIDE DEF related
  <2> QED BY <2>1, <2>2
<1> HIDE DEF found, FindThread
<1>7. ~(Cardinality(found) > 1) => \A s, t \in found : s = t
  <2>1. IsFiniteSet(found)
    BY <1>5, FS_Subset, ThreadDocsAssumption
  <2>2. Cardinality(found) \in Nat /\ (Cardinality(found) = 0 => found = {})
    BY <2>1, FS_CardinalityType, FS_EmptySet
  <2>3. Cardinality(found) = 1 => \E x : found = {x}
    BY <2>1, FS_Singleton
  <2> QED BY <2>2, <2>3
<1>8. Planned'
  <2>1. FindThread(d).ids # {} => FindThread(d).doc \in FindThread(d).ids
    BY <1>4
  <2>2. ASSUME NEW e \in Docs, Alive(e), Shares(d, e)
        PROVE  IF FindThread(d).ids = {} THEN thread[e] = FindThread(d).doc
               ELSE thread[e] \in FindThread(d).ids
    BY <1>4, <1>6, <1>7, <2>2
  <2>3. \A e \in Docs : Alive(e)' <=> Alive(e)
    BY <1>3 DEF Alive
  <2>4. \A e \in Docs : session'[e] = "found" => e = d
    BY <1>1, <1>3
  <2>5. \A e \in Docs : Shares(d, e)' <=> Shares(d, e)
    BY DEF Shares, Sorted, MessageIds
  <2> QED BY <1>3, <2>1, <2>2, <2>3, <2>4, <2>5 DEF Planned
<1>9. OneTask'
  BY <1>1, <1>2, <1>3 DEF Quiet, OneTask, Busy
<1>10. Grouped'
  BY <1>2, <1>3 DEF Quiet, Grouped, Alive, Shares, Sorted, MessageIds
<1>11. Merging'
  <2>1. OnlyDeletes
    BY <1>3 DEF OnlyDeletes
  <2> QED BY <1>2, <1>3, <2>1, GatheredFrame, TogetherFrame DEF Quiet, Merging
<1> QED BY <1>8, <1>9, <1>10, <1>11 DEF Quiet

(* A message is stored in the one thread of its conversation, or with a     *)
(* task for all of them.                                                    *)
LEMMA StoreQuiet ==
  ASSUME MergeInv, NEW d \in Docs, Store(d), ~raced'
  PROVE  Quiet'
<1>1. ~raced /\ session[d] = "found"
  BY DEF Store
<1>2. Quiet /\ Typed
  BY <1>1 DEF MergeInv
<1>3. /\ thread'[d] = plan[d].doc /\ session'[d] = "stored"
      /\ \A e \in Docs : e # d => thread'[e] = thread[e] /\ session'[e] = session[e]
      /\ UNCHANGED <<plan, pc, task, seen, left, reads>>
  BY <1>2 DEF Store, Typed, TypeOK, loop
<1>4. /\ tasks = {} /\ (\A e \in Docs : session'[e] # "found")
      /\ \A w \in Workers : ~Busy(w)
  BY <1>1, <1>2, <1>3 DEF Quiet, OneTask
<1>5. IF plan[d].ids = {} THEN tasks' = {} ELSE tasks' = {[doc |-> d, ids |-> plan[d].ids]}
  BY <1>4 DEF Store
<1>6. OneTask' /\ Planned' /\ Merging'
  BY <1>3, <1>4, <1>5 DEF OneTask, Planned, Merging, Busy
<1>7. Grouped'
  <2>1. ASSUME NEW e \in Docs, Alive(e), Shares(d, e)
        PROVE  IF plan[d].ids = {} THEN thread[e] = plan[d].doc ELSE thread[e] \in plan[d].ids
    BY <1>1, <1>2, <2>1 DEF Quiet, Planned
  <2>2. plan[d].ids # {} => plan[d].doc \in plan[d].ids
    BY <1>1, <1>2 DEF Quiet, Planned
  <2>3. ASSUME NEW e \in Docs, NEW f \in Docs, Alive(e), Alive(f), Shares(e, f)
        PROVE  thread[e] = thread[f]
    BY <1>2, <1>4, <2>3 DEF Quiet, Grouped
  <2>4. \A e, f \in Docs : (Shares(e, f)' <=> Shares(e, f)) /\ (Shares(e, f) => Shares(f, e))
    BY DEF Shares, Sorted, MessageIds
  <2>5. \A e \in Docs : e # d => (Alive(e)' <=> Alive(e))
    BY <1>3 DEF Alive
  <2>6. ASSUME NEW e \in Docs, e # d, Alive(e), Shares(d, e)
        PROVE  thread'[d] = thread'[e] \/ \E t \in tasks' : thread'[d] \in t.ids /\ thread'[e] \in t.ids
    <3>1. CASE plan[d].ids = {}
      BY <1>3, <2>1, <2>6, <3>1
    <3>2. CASE plan[d].ids # {}
      <4> DEFINE t == [doc |-> d, ids |-> plan[d].ids]
      <4>1. t \in tasks' /\ t.ids = plan[d].ids
        BY <1>5, <3>2
      <4>2. thread'[d] \in plan[d].ids /\ thread'[e] \in plan[d].ids
        BY <1>3, <2>1, <2>2, <2>6, <3>2
      <4> HIDE DEF t
      <4> QED BY <4>1, <4>2
    <3> QED BY <3>1, <3>2
  <2>7. ASSUME NEW e \in Docs, NEW f \in Docs, Alive(e)', Alive(f)', Shares(e, f)
        PROVE  \/ thread'[e] = thread'[f]
               \/ \E t \in tasks' : thread'[e] \in t.ids /\ thread'[f] \in t.ids
    <3>1. CASE e = d /\ f = d
      BY <3>1
    <3>2. CASE e = d /\ f # d
      BY <2>5, <2>6, <2>7, <3>2
    <3>3. CASE e # d /\ f = d
      BY <2>4, <2>5, <2>6, <2>7, <3>3
    <3>4. CASE e # d /\ f # d
      BY <1>3, <2>3, <2>5, <2>7, <3>4
    <3> QED BY <3>1, <3>2, <3>3, <3>4
  <2> QED BY <2>4, <2>7 DEF Grouped
<1> QED BY <1>6, <1>7 DEF Quiet

(* A scan lists every message of the threads to merge; with one thread left *)
(* they are merged already.                                                 *)
LEMMA ScanQuiet ==
  ASSUME MergeInv, NEW w \in Workers, Scan(w), ~raced'
  PROVE  Quiet'
<1>1. /\ pc[w] = "scan" /\ seen' = [seen EXCEPT ![w] = List(w)]
      /\ reads' = [reads EXCEPT ![w] = {}]
      /\ UNCHANGED <<session, plan, thread, index, tasks, task, raced>>
  BY ScanSteps DEF store
<1>2. Quiet /\ Typed /\ IndexAgrees
  BY <1>1 DEF MergeInv, Agreement
<1>3. /\ List(w) \in [Pair -> Nat]
      /\ \A p \in Pair : List(w)[p] > 0 <=> seen[w][p] > 0 \/ (p[2] \in Hits(w) /\ index[p[2]] = p[1])
  BY <1>2, ListType
<1>4. ASSUME NEW d \in Docs, Alive(d), thread[d] \in task[w].ids
      PROVE  thread[d] \in Docs /\ List(w)[<<thread[d], d>>] > 0
  <2>1. index[d] = thread[d] /\ index[d] # None /\ thread[d] \in Docs
    BY <1>2, <1>4 DEF IndexAgrees, Alive, Typed, TypeOK
  <2>2. d \in Hits(w)
    BY <1>4, <2>1 DEF Hits
  <2>3. <<thread[d], d>> \in Pair
    BY <2>1 DEF Pair
  <2>4. PICK p \in Pair : p = <<thread[d], d>>
    BY <2>3
  <2> QED BY <1>3, <2>1, <2>2, <2>4
<1>5. seen'[w] = List(w) /\ reads'[w] = {}
  BY <1>1, <1>2 DEF Typed, TypeOK
<1>6. \A v \in Workers : v # w => ~Busy(v)
  BY <1>1, <1>2, LoneWorker DEF MergeInv, Quiet, Busy
<1>7. \A v \in Workers : v # w => pc'[v] \in {"idle", "dead"}
  BY <1>2, <1>6, ScanSteps DEF Busy, Typed, TypeOK
<1>8. OneTask'
  BY <1>1, <1>2, <1>7 DEF Quiet, OneTask, Busy
<1>9. Planned' /\ Grouped'
  BY <1>1, <1>2 DEF Quiet, Planned, Grouped, Alive, Shares, Sorted, MessageIds
<1>10. pc'[w] = "visit" => Gathered(w)'
  <2> SUFFICES ASSUME pc'[w] = "visit" PROVE Gathered(w)'
    OBVIOUS
  <2>1. left' = [left EXCEPT ![w] =
                   [p \in Pair |-> IF p[1] = Best(List(w)) THEN 0 ELSE List(w)[p]]]
    BY <1>2, ScanSteps DEF Typed, TypeOK
  <2>2. left'[w] = [p \in Pair |-> IF p[1] = Best(List(w)) THEN 0 ELSE List(w)[p]]
    BY <1>2, <2>1 DEF Typed, TypeOK
  <2>3. Winner(w)' = Best(List(w))
    BY <1>5 DEF Winner, Best
  <2>4. Moved(w)' = {}
    BY <1>5 DEF Moved
  <2>5. ASSUME NEW d \in Docs, Alive(d), thread[d] \in task[w].ids
        PROVE  thread[d] = Best(List(w)) \/ left'[w][<<thread[d], d>>] > 0
    <3>1. <<thread[d], d>> \in Pair
      BY <1>4, <2>5 DEF Pair
    <3>2. left'[w][<<thread[d], d>>] = IF thread[d] = Best(List(w)) THEN 0 ELSE List(w)[<<thread[d], d>>]
      BY <2>2, <3>1
    <3> QED BY <1>4, <2>5, <3>2
  <2>6. \A d \in Docs : Alive(d)' <=> Alive(d)
    BY <1>1 DEF Alive
  <2> QED BY <1>1, <2>3, <2>4, <2>5, <2>6 DEF Gathered
<1>11. pc'[w] = "clear" => Together(w)'
  <2> SUFFICES ASSUME pc'[w] = "clear" PROVE Together(w)'
    OBVIOUS
  <2> DEFINE F == Found(List(w))
  <2>1. Cardinality(F) < 2
    BY <1>2, ScanSteps DEF Typed, TypeOK
  <2>2. F \in SUBSET Docs
    BY DEF Found
  <2>3. ASSUME NEW d \in Docs, Alive(d), thread[d] \in task[w].ids PROVE thread[d] \in F
    BY <1>3, <1>4, <2>3, TotalCounts DEF Found
  <2> HIDE DEF F
  <2>4. IsFiniteSet(F)
    BY <2>2, FS_Subset, ThreadDocsAssumption
  <2>5. Cardinality(F) \in Nat /\ (Cardinality(F) = 0 => F = {})
    BY <2>4, FS_CardinalityType, FS_EmptySet
  <2>6. Cardinality(F) = 1 => \E x : F = {x}
    BY <2>4, FS_Singleton
  <2>7. \A s, t \in F : s = t
    BY <2>1, <2>5, <2>6
  <2>8. \A d \in Docs : Alive(d)' <=> Alive(d)
    BY <1>1 DEF Alive
  <2> QED BY <1>1, <2>3, <2>7, <2>8 DEF Together
<1>12. Merging'
  BY <1>7, <1>10, <1>11 DEF Merging
<1> QED BY <1>8, <1>9, <1>12 DEF Quiet

(* A visit reads an archive that is to move, or drops what was collected.   *)
LEMMA VisitQuiet ==
  ASSUME MergeInv, NEW w \in Workers, Visit(w), ~raced'
  PROVE  Quiet'
<1>0. ~raced /\ Typed
  BY DEF Visit, MergeInv
<1>1. PICK t \in Docs, d \in Docs :
           /\ pc[w] = "visit"
           /\ left[w][<<t, d>>] \in Nat \ {0}
           /\ left' = [left EXCEPT ![w] = [left[w] EXCEPT ![<<t, d>>] = left[w][<<t, d>>] - 1]]
           /\ \/ /\ ~Alive(d)
                 /\ UNCHANGED <<pc, tries, entries, reads>>
              \/ /\ pc' = [pc EXCEPT ![w] = "scan"]
                 /\ tries' = [tries EXCEPT ![w] = @ + 1]
                 /\ UNCHANGED <<entries, reads>>
              \/ /\ Alive(d) /\ thread[d] = t
                 /\ entries' = [entries EXCEPT ![w] = @ \ {d}]
                 /\ reads' = [reads EXCEPT ![w] = @ \cup {<<d, version[d]>>}]
                 /\ UNCHANGED <<pc, tries>>
              \/ /\ pc' = [pc EXCEPT ![w] = "dead"]
                 /\ UNCHANGED <<tries, entries, reads>>
           /\ UNCHANGED <<store, tasks, locks, task, seen, raced>>
  BY <1>0, VisitSteps
<1>2. Quiet /\ Claimed /\ Listed
  BY <1>0 DEF MergeInv
<1>3. \A v \in Workers : v # w => pc[v] \in {"idle", "dead"}
  BY <1>1, <1>2, LoneWorker DEF Quiet, Busy
<1>4. UNCHANGED <<session, plan, thread, tasks, task, seen, raced>>
  BY <1>1 DEF store
<1>5. \A v \in Workers : v # w => pc'[v] \in {"idle", "dead"}
  BY <1>0, <1>1, <1>3 DEF Typed, TypeOK
<1>6. OneTask'
  BY <1>1, <1>2, <1>4, <1>5 DEF Quiet, OneTask, Busy
<1>7. Planned' /\ Grouped'
  BY <1>2, <1>4 DEF Quiet, Planned, Grouped, Alive, Shares, Sorted, MessageIds
<1>8. pc'[w] # "clear"
  BY <1>0, <1>1 DEF Typed, TypeOK
<1>9. pc'[w] = "visit" => Gathered(w)'
  <2> SUFFICES ASSUME pc'[w] = "visit" PROVE Gathered(w)'
    OBVIOUS
  <2>1. left[w] \in [Pair -> Nat] /\ left \in [Workers -> [Pair -> Nat]]
    BY <1>0 DEF Typed, TypeOK
  <2>2. ASSUME NEW u \in Docs, NEW e \in Docs, e # d \/ u # t
        PROVE  left'[w][<<u, e>>] = left[w][<<u, e>>]
    <3>1. left'[w] = [left[w] EXCEPT ![<<t, d>>] = left[w][<<t, d>>] - 1]
      BY <1>1, <2>1
    <3>2. <<u, e>> \in Pair /\ <<u, e>> # <<t, d>>
      BY <2>2 DEF Pair
    <3> QED BY <2>1, <3>1, <3>2
  <2>3. \/ ~Alive(d) /\ reads' = reads
        \/ Alive(d) /\ thread[d] = t /\ reads' = [reads EXCEPT ![w] = reads[w] \cup {<<d, version[d]>>}]
    BY <1>0, <1>1 DEF Typed, TypeOK
  <2>4. \/ ~Alive(d) /\ Moved(w)' = Moved(w)
        \/ Alive(d) /\ thread[d] = t /\ Moved(w)' = Moved(w) \cup {d}
    <3>1. CASE ~Alive(d) /\ reads' = reads
      BY <3>1 DEF Moved
    <3>2. CASE Alive(d) /\ thread[d] = t /\ reads' = [reads EXCEPT ![w] = reads[w] \cup {<<d, version[d]>>}]
      <4>1. reads'[w] = reads[w] \cup {<<d, version[d]>>}
        BY <1>0, <3>2 DEF Typed, TypeOK
      <4>2. PICK r : r = <<d, version[d]>> /\ r[1] = d
        <5>1. <<d, version[d]>>[1] = d
          OBVIOUS
        <5> QED BY <5>1, Zenon
      <4>3. Moved(w)' = {x[1] : x \in reads[w] \cup {r}}
        BY <4>1, <4>2 DEF Moved
      <4> QED BY <3>2, <4>2, <4>3 DEF Moved
    <3> QED BY <2>3, <3>1, <3>2
  <2>5. Winner(w)' = Winner(w)
    BY <1>4 DEF Winner
  <2>6. t \in task[w].ids
    BY <1>1, <1>2 DEF Listed
  <2>7. Gathered(w)
    BY <1>1, <1>2 DEF Quiet, Merging
  <2>8. ASSUME NEW e \in Docs, Alive(e)
        PROVE  /\ thread[e] \in task[w].ids =>
                    thread[e] = Winner(w) \/ left'[w][<<thread[e], e>>] > 0 \/ e \in Moved(w)'
               /\ e \in Moved(w)' => thread[e] \in task[w].ids
    <3>1. thread[e] \in Docs
      BY <1>0, <2>8 DEF Typed, TypeOK, Alive
    <3>2. CASE e = d
      BY <2>4, <2>6, <2>8, <3>2
    <3>3. CASE e # d
      <4>1. left'[w][<<thread[e], e>>] = left[w][<<thread[e], e>>]
        BY <2>2, <3>1, <3>3
      <4> QED BY <2>4, <2>7, <2>8, <3>3, <4>1 DEF Gathered
    <3> QED BY <3>2, <3>3
  <2>9. \A e \in Docs : Alive(e)' <=> Alive(e)
    BY <1>4 DEF Alive
  <2> QED BY <1>4, <2>5, <2>8, <2>9 DEF Gathered
<1>10. Merging'
  BY <1>5, <1>8, <1>9 DEF Merging
<1> QED BY <1>6, <1>7, <1>10 DEF Quiet

(* The batch moves every message of a thread to merge to the thread that is *)
(* kept, and no other.                                                      *)
LEMMA CommitMoves ==
  ASSUME MergeInv, ~raced, NEW w \in Workers, Commit(w), Unchanged(w)
  PROVE  \A d \in Docs :
           /\ Alive(d)' => Alive(d)
           /\ Alive(d) => thread'[d] = IF thread[d] \in task[w].ids THEN Winner(w) ELSE thread[d]
<1>1. thread' = [d \in Docs |-> IF d \in Moved(w) THEN Winner(w) ELSE thread[d]]
  BY DEF Commit
<1>2. Gathered(w) /\ Visited(w) /\ Typed
  BY DEF MergeInv, Quiet, Merging, Commit
<1> TAKE d \in Docs
<1>3. d \in Moved(w) => Alive(d)
  BY DEF Moved, Unchanged
<1>4. thread'[d] = IF d \in Moved(w) THEN Winner(w) ELSE thread[d]
  <2> HIDE DEF Moved, Winner
  <2> QED BY <1>1
<1>5. Alive(d)' => Alive(d)
  BY <1>3, <1>4 DEF Alive
<1>6. ASSUME Alive(d) PROVE thread'[d] = IF thread[d] \in task[w].ids THEN Winner(w) ELSE thread[d]
  <2>1. <<thread[d], d>> \in Pair
    BY <1>2, <1>6 DEF Typed, TypeOK, Alive, Pair
  <2>2. ~(left[w][<<thread[d], d>>] > 0)
    BY <1>2, <2>1 DEF Visited
  <2> QED BY <1>2, <1>4, <1>6, <2>2 DEF Gathered
<1> QED BY <1>5, <1>6

(* So the threads are merged after the batch.                               *)
LEMMA CommitQuiet ==
  ASSUME MergeInv, NEW w \in Workers, Commit(w), Unchanged(w), ~raced'
  PROVE  Quiet'
<1>1. ~raced /\ UNCHANGED <<session, plan, tasks, task>>
  BY DEF Commit
<1>2. Quiet /\ Typed
  BY <1>1 DEF MergeInv
<1>3. ASSUME NEW d \in Docs, Alive(d)'
      PROVE  /\ Alive(d)
             /\ thread'[d] = IF thread[d] \in task[w].ids THEN Winner(w) ELSE thread[d]
  BY <1>1, <1>3, CommitMoves
<1>4. pc[w] = "visit" /\ pc' = [pc EXCEPT ![w] = "clear"]
  BY DEF Commit
<1>5. \A v \in Workers : v # w => pc[v] \in {"idle", "dead"}
  BY <1>1, <1>2, <1>4, LoneWorker DEF MergeInv, Quiet, Busy
<1>6. \A v \in Workers : v # w => pc'[v] \in {"idle", "dead"}
  BY <1>2, <1>4, <1>5 DEF Typed, TypeOK
<1>7. OneTask' /\ task[w] \in tasks
  BY <1>1, <1>2, <1>4, <1>6 DEF Quiet, OneTask, Busy
<1>8. Planned'
  BY <1>1, <1>2, <1>7 DEF Quiet, OneTask, Planned
<1>9. Grouped'
  <2>1. ASSUME NEW d \in Docs, NEW e \in Docs, Alive(d)', Alive(e)', Shares(d, e)
        PROVE  thread'[d] = thread'[e]
    <3>1. \/ thread[d] = thread[e]
          \/ \E t \in tasks : thread[d] \in t.ids /\ thread[e] \in t.ids
      BY <1>2, <1>3, <2>1 DEF Quiet, Grouped
    <3>2. \A t \in tasks : t = task[w]
      BY <1>2, <1>7 DEF Quiet, OneTask
    <3> HIDE DEF Winner
    <3> QED BY <1>3, <2>1, <3>1, <3>2
  <2>2. \A d, e \in Docs : Shares(d, e)' <=> Shares(d, e)
    BY DEF Shares, Sorted, MessageIds
  <2> QED BY <2>1, <2>2 DEF Grouped
<1>10. Together(w)'
  <2> HIDE DEF Winner
  <2> QED BY <1>1, <1>3 DEF Together
<1>11. pc'[w] = "clear"
  BY <1>2, <1>4 DEF Typed, TypeOK
<1>12. Merging'
  BY <1>6, <1>10, <1>11 DEF Merging
<1> QED BY <1>7, <1>8, <1>9, <1>12 DEF Quiet

(* A task goes when its threads are merged.                                 *)
LEMMA ClearQuiet ==
  ASSUME MergeInv, NEW w \in Workers, Clear(w), ~raced'
  PROVE  Quiet'
<1>1. /\ ~raced /\ UNCHANGED <<session, plan, thread, task, seen, left, reads>>
      /\ pc[w] = "clear" /\ pc' = [pc EXCEPT ![w] = "idle"]
  BY DEF Clear, store, loop
<1>2. Quiet /\ Typed /\ Claimed
  BY <1>1 DEF MergeInv
<1>3. \A v \in Workers : ~Busy(v)'
  BY <1>1, <1>2, LoneWorker DEF Quiet, Busy, Typed, TypeOK
<1>4. CASE tasks' = tasks
  <2>1. \A v \in Workers : pc'[v] \in {"visit", "clear"} => FALSE
    BY <1>3 DEF Busy
  <2> QED BY <1>1, <1>2, <1>3, <1>4, <2>1, QuietFrame DEF OnlyDeletes
<1>5. CASE tasks' = tasks \ {task[w]}
  <2>1. tasks' = {} /\ task[w] \in tasks
    BY <1>1, <1>2, <1>5 DEF Quiet, OneTask, Busy
  <2>2. OneTask' /\ Planned' /\ Merging'
    <3>1. \A d \in Docs : session[d] # "found"
      BY <1>2, <2>1 DEF Quiet, OneTask
    <3> QED BY <1>1, <1>3, <2>1, <3>1 DEF OneTask, Planned, Merging, Busy
  <2>3. Together(w)
    BY <1>1, <1>2 DEF Quiet, Merging
  <2>4. Grouped'
    <3>1. ASSUME NEW d \in Docs, NEW e \in Docs, Alive(d), Alive(e), Shares(d, e)
          PROVE  thread[d] = thread[e]
      BY <1>2, <2>1, <2>3, <3>1 DEF Quiet, Grouped, OneTask, Together
    <3> QED BY <1>1, <3>1 DEF Grouped, Alive, Shares, Sorted, MessageIds
  <2> QED BY <2>2, <2>4 DEF Quiet
<1> QED BY <1>4, <1>5 DEF Clear

(* The lock of a task, unless it lapses too early: a worker begins only     *)
(* what no other is at.                                                     *)
LEMMA ClaimedStep ==
  ASSUME Typed, ~raced => Claimed, [Next]_vars, ~raced'
  PROVE  Claimed'
<1>0. ~raced /\ Claimed
  <2>1. raced => raced'
    BY DEF Next, WorkerStep, Find, Store, Change, DeleteMessage, DeleteEntry, Begin, Scan, Visit,
           Commit, Clear, Restart, Lapse, vars
  <2> QED BY <2>1
<1>1. ASSUME \A v \in Workers : Busy(v)' => Busy(v), task' = task, locks' = locks PROVE Claimed'
  BY <1>0, <1>1 DEF Claimed
<1>2. CASE pc' = pc /\ task' = task /\ locks' = locks
  BY <1>1, <1>2 DEF Busy
<1>3. ASSUME NEW d \in Docs, Find(d) \/ Store(d) \/ Change(d) \/ DeleteMessage(d) \/ DeleteEntry(d)
      PROVE  Claimed'
  BY <1>2, <1>3 DEF Find, Store, Change, DeleteMessage, DeleteEntry
<1>4. ASSUME NEW w \in Workers, Begin(w) PROVE Claimed'
  <2>1. PICK t \in tasks \ locks : locks' = locks \cup {t} /\ task' = [task EXCEPT ![w] = t]
    BY <1>4 DEF Begin
  <2>2. /\ task'[w] = t /\ \A v \in Workers : v # w => task'[v] = task[v] /\ pc'[v] = pc[v]
    BY <1>4, <2>1 DEF Begin, Typed, TypeOK
  <2> QED BY <1>0, <2>1, <2>2 DEF Claimed, Busy
<1>5. ASSUME NEW w \in Workers, Busy(w), NEW x, pc' = [pc EXCEPT ![w] = x], task' = task,
             locks' = locks
      PROVE  Claimed'
  <2>1. \A v \in Workers : Busy(v)' => Busy(v)
    BY <1>5 DEF Busy, Typed, TypeOK
  <2> QED BY <1>1, <1>5, <2>1
<1>6. ASSUME NEW w \in Workers, Scan(w) PROVE Claimed'
  <2>1. /\ pc[w] = "scan" /\ task' = task /\ locks' = locks
        /\ pc' = [pc EXCEPT ![w] = "clear"] \/ pc' = [pc EXCEPT ![w] = "visit"]
    BY <1>6, ScanSteps
  <2> QED BY <1>5, <2>1 DEF Busy
<1>7. ASSUME NEW w \in Workers, Visit(w) PROVE Claimed'
  <2>1. /\ pc[w] = "visit" /\ task' = task /\ locks' = locks
        /\ pc' = pc \/ pc' = [pc EXCEPT ![w] = "scan"] \/ pc' = [pc EXCEPT ![w] = "dead"]
    BY <1>7 DEF Visit
  <2> QED BY <1>2, <1>5, <2>1 DEF Busy
<1>8. ASSUME NEW w \in Workers, Commit(w) PROVE Claimed'
  <2>1. /\ pc[w] = "visit" /\ task' = task /\ locks' = locks
        /\ \E x : pc' = [pc EXCEPT ![w] = x]
    BY <1>8 DEF Commit
  <2> QED BY <1>5, <2>1 DEF Busy
<1>9. ASSUME NEW w \in Workers, Restart(w) PROVE Claimed'
  <2>1. \A v \in Workers : Busy(v)' => Busy(v)
    BY <1>9 DEF Restart, Busy, Typed, TypeOK
  <2> QED BY <1>1, <1>9, <2>1 DEF Restart
<1>10. ASSUME NEW w \in Workers, Clear(w) PROVE Claimed'
  <2>1. /\ Busy(w) /\ ~Busy(w)' /\ task' = task /\ locks \ {task[w]} \subseteq locks'
        /\ \A v \in Workers : Busy(v)' => Busy(v) /\ v # w
    BY <1>10 DEF Clear, Busy, Typed, TypeOK
  <2> QED BY <1>0, <2>1 DEF Claimed
<1>11. ASSUME NEW t \in locks, Lapse(t) PROVE Claimed'
  <2>1. /\ locks' = locks \ {t} /\ pc' = pc /\ task' = task
        /\ \A w \in Workers : Busy(w) => task[w] # t
    BY <1>11 DEF Lapse
  <2> QED BY <1>0, <2>1 DEF Claimed, Busy
<1>12. CASE UNCHANGED vars
  BY <1>2, <1>12 DEF vars
<1> QED
  BY <1>3, <1>4, <1>6, <1>7, <1>8, <1>9, <1>10, <1>11, <1>12 DEF Next, WorkerStep

(* Listed for one worker.                                                   *)
ListedBy(w) ==
  \A t, d \in Docs :
     /\ pc[w] \in {"scan", "visit"} /\ seen[w][<<t, d>>] > 0 => t \in task[w].ids
     /\ pc[w] = "visit" /\ left[w][<<t, d>>] > 0 => t \in task[w].ids

LEMMA ListedFrame ==
  ASSUME Listed, NEW v \in Workers,
         pc'[v] \in {"scan", "visit"} => pc[v] \in {"scan", "visit"},
         pc'[v] = "visit" => pc[v] = "visit",
         UNCHANGED <<task[v], seen[v], left[v]>>
  PROVE  ListedBy(v)'
BY DEF Listed, ListedBy

(* A worker lists messages of its own threads only.                         *)
LEMMA ListedStep ==
  ASSUME Typed, Listed, [Next]_vars
  PROVE  Listed'
<1>1. ASSUME \A v \in Workers : ListedBy(v)' PROVE Listed'
  BY <1>1 DEF Listed, ListedBy
<1>2. ASSUME UNCHANGED <<pc, task, seen, left>> PROVE Listed'
  BY <1>2 DEF Listed
<1>3. ASSUME NEW d \in Docs, Find(d) \/ Store(d) \/ Change(d) \/ DeleteMessage(d) \/ DeleteEntry(d)
      PROVE  Listed'
  BY <1>2, <1>3 DEF Find, Store, Change, DeleteMessage, DeleteEntry, loop
<1>4. ASSUME NEW w \in Workers, Begin(w) PROVE Listed'
  <2>1. \A v \in Workers : v # w => UNCHANGED <<pc[v], task[v], seen[v], left[v]>>
    <3>1. PICK t \in tasks : task' = [task EXCEPT ![w] = t]
      BY <1>4 DEF Begin
    <3>2. PICK zero : seen' = [seen EXCEPT ![w] = zero]
      BY <1>4 DEF Begin
    <3> QED BY <1>4, <3>1, <3>2 DEF Begin, Typed, TypeOK
  <2>2. seen'[w] = [p \in Pair |-> 0] /\ pc'[w] = "scan"
    BY <1>4 DEF Begin, Typed, TypeOK
  <2>3. \A t, d \in Docs : ~(seen'[w][<<t, d>>] > 0)
    BY <2>2 DEF Pair
  <2>4. ListedBy(w)'
    BY <2>2, <2>3 DEF ListedBy
  <2>5. ASSUME NEW v \in Workers, v # w PROVE ListedBy(v)'
    BY <2>1, <2>5, ListedFrame
  <2> QED BY <1>1, <2>4, <2>5
<1>5. ASSUME NEW w \in Workers, Scan(w) PROVE Listed'
  <2>1. /\ pc[w] = "scan" /\ task' = task /\ seen' = [seen EXCEPT ![w] = List(w)]
        /\ \E x : pc' = [pc EXCEPT ![w] = x]
        /\ \/ left' = left /\ pc' = [pc EXCEPT ![w] = "clear"]
           \/ left' = [left EXCEPT ![w] =
                [p \in Pair |-> IF p[1] = Best(List(w)) THEN 0 ELSE List(w)[p]]]
    BY <1>5, ScanSteps
  <2>2. \A v \in Workers : v # w => UNCHANGED <<pc[v], task[v], seen[v], left[v]>>
    <3>1. left' = left \/ \E x : left' = [left EXCEPT ![w] = x]
      BY <2>1
    <3> QED BY <2>1, <3>1 DEF Typed, TypeOK
  <2>3. seen'[w] = List(w)
    BY <2>1 DEF Typed, TypeOK
  <2>4. ASSUME NEW t \in Docs, NEW d \in Docs, List(w)[<<t, d>>] > 0 PROVE t \in task[w].ids
    <3>1. PICK p \in Pair : p = <<t, d>> /\ p[1] = t /\ p[2] = d
      <4>1. <<t, d>> \in Pair /\ <<t, d>>[1] = t /\ <<t, d>>[2] = d
        BY DEF Pair
      <4> QED BY <4>1, Zenon
    <3>2. seen[w][p] > 0 \/ (d \in Hits(w) /\ index[d] = t)
      BY <2>4, <3>1, ListType
    <3>3. CASE seen[w][p] > 0
      BY <2>1, <3>1, <3>3 DEF Listed
    <3> QED BY <3>2, <3>3 DEF Hits
  <2>5. ASSUME pc'[w] = "visit", NEW t \in Docs, NEW d \in Docs, left'[w][<<t, d>>] > 0
        PROVE  t \in task[w].ids
    <3>1. left'[w] = [p \in Pair |-> IF p[1] = Best(List(w)) THEN 0 ELSE List(w)[p]]
      BY <2>1, <2>5 DEF Typed, TypeOK
    <3>2. <<t, d>> \in Pair
      BY DEF Pair
    <3>3. List(w)[<<t, d>>] > 0
      BY <2>5, <3>1, <3>2
    <3> QED BY <2>4, <3>3
  <2>6. ListedBy(w)'
    BY <2>1, <2>3, <2>4, <2>5 DEF ListedBy
  <2>7. ASSUME NEW v \in Workers, v # w PROVE ListedBy(v)'
    BY <2>2, <2>7, ListedFrame
  <2> QED BY <1>1, <2>6, <2>7
<1>6. ASSUME NEW w \in Workers, Visit(w) PROVE Listed'
  <2>1. PICK t \in Docs, d \in Docs :
          /\ pc[w] = "visit" /\ UNCHANGED <<task, seen>>
          /\ left[w][<<t, d>>] \in Nat \ {0}
          /\ left' = [left EXCEPT ![w] = [left[w] EXCEPT ![<<t, d>>] = left[w][<<t, d>>] - 1]]
          /\ pc' = pc \/ pc' = [pc EXCEPT ![w] = "scan"] \/ pc' = [pc EXCEPT ![w] = "dead"]
    BY <1>6, VisitSteps
  <2>2. \A v \in Workers : v # w => UNCHANGED <<pc[v], task[v], seen[v], left[v]>>
    <3>1. \E x : left' = [left EXCEPT ![w] = x]
      BY <2>1
    <3> QED BY <2>1, <3>1 DEF Typed, TypeOK
  <2>3. ASSUME NEW u \in Docs, NEW e \in Docs, left'[w][<<u, e>>] > 0 PROVE u \in task[w].ids
    <3>1. left[w] \in [Pair -> Nat] /\ left \in [Workers -> [Pair -> Nat]]
      BY DEF Typed, TypeOK
    <3>2. left'[w] = [left[w] EXCEPT ![<<t, d>>] = left[w][<<t, d>>] - 1]
      BY <2>1, <3>1
    <3>3. <<u, e>> \in Pair
      BY DEF Pair
    <3>4. left[w][<<u, e>>] > 0
      BY <2>1, <2>3, <3>1, <3>2, <3>3
    <3> QED BY <2>1, <3>4 DEF Listed
  <2>4. ListedBy(w)'
    BY <2>1, <2>3 DEF ListedBy, Listed
  <2>5. ASSUME NEW v \in Workers, v # w PROVE ListedBy(v)'
    BY <2>2, <2>5, ListedFrame
  <2> QED BY <1>1, <2>4, <2>5
<1>7. ASSUME NEW w \in Workers, Commit(w) PROVE Listed'
  <2>1. /\ pc[w] = "visit" /\ UNCHANGED <<task, seen, left>>
        /\ \/ pc' = [pc EXCEPT ![w] = "clear"]
           \/ pc' = [pc EXCEPT ![w] = "scan"]
           \/ pc' = [pc EXCEPT ![w] = "idle"]
    BY <1>7 DEF Commit
  <2>2. \A v \in Workers : /\ pc'[v] \in {"scan", "visit"} => pc[v] \in {"scan", "visit"}
                           /\ pc'[v] = "visit" => pc[v] = "visit"
    BY <2>1 DEF Typed, TypeOK
  <2>3. \A v \in Workers : ListedBy(v)'
    BY <2>1, <2>2, ListedFrame
  <2> QED BY <1>1, <2>3
<1>8. ASSUME NEW w \in Workers, Clear(w) \/ Restart(w) PROVE Listed'
  <2>1. UNCHANGED <<task, seen, left>> /\ pc' = [pc EXCEPT ![w] = "idle"]
    BY <1>8 DEF Clear, Restart, loop
  <2>2. \A v \in Workers : /\ pc'[v] \in {"scan", "visit"} => pc[v] \in {"scan", "visit"}
                           /\ pc'[v] = "visit" => pc[v] = "visit"
    BY <2>1 DEF Typed, TypeOK
  <2>3. \A v \in Workers : ListedBy(v)'
    BY <2>1, <2>2, ListedFrame
  <2> QED BY <1>1, <2>3
<1>9. ASSUME NEW t \in locks, Lapse(t) PROVE Listed'
  BY <1>2, <1>9 DEF Lapse, loop
<1>10. CASE UNCHANGED vars
  BY <1>2, <1>10 DEF vars, loop
<1> QED BY <1>3, <1>4, <1>5, <1>6, <1>7, <1>8, <1>9, <1>10 DEF Next, WorkerStep

(* Every step keeps a history without races in order.                       *)
LEMMA QuietStep ==
  ASSUME MergeInv, [Next]_vars, ~raced'
  PROVE  Quiet'
<1>1. CASE UNCHANGED vars
  <2>1. Quiet /\ OnlyDeletes /\ UNCHANGED <<session, plan, tasks, pc, task, seen, left, reads>>
    BY <1>1 DEF MergeInv, vars, store, loop, OnlyDeletes
  <2> QED BY <2>1, QuietFrame DEF Quiet, OneTask, Busy
<1>2. ASSUME NEW d \in Docs, Change(d) \/ DeleteMessage(d) \/ DeleteEntry(d) PROVE Quiet'
  <2>1. UNCHANGED <<session, plan, tasks, pc, task, seen, left, reads, raced>>
    BY <1>2 DEF Change, DeleteMessage, DeleteEntry, loop
  <2>2. OnlyDeletes /\ Quiet
    BY <1>2, <2>1 DEF Change, DeleteMessage, DeleteEntry, MergeInv, Typed, TypeOK, OnlyDeletes
  <2> QED BY <2>1, <2>2, QuietFrame DEF Quiet, OneTask, Busy
<1>3. ASSUME NEW w \in Workers, Begin(w) PROVE Quiet'
  <2>1. PICK t \in tasks : task' = [task EXCEPT ![w] = t]
    BY <1>3 DEF Begin
  <2>2. UNCHANGED <<session, plan, thread, tasks, left, reads, raced>> /\ pc'[w] = "scan"
        /\ task'[w] = t
    BY <1>3, <2>1 DEF Begin, store, MergeInv, Typed, TypeOK
  <2>3. \A v \in Workers : v # w => pc'[v] = pc[v] /\ task'[v] = task[v] /\ seen'[v] = seen[v]
    <3>1. \E zero : seen' = [seen EXCEPT ![w] = zero]
      BY <1>3 DEF Begin
    <3> QED BY <1>3, <2>1, <3>1 DEF Begin, MergeInv, Typed, TypeOK
  <2>4. Quiet /\ OnlyDeletes
    BY <2>2 DEF MergeInv, OnlyDeletes
  <2>5. \A v \in Workers : Busy(v)' => task'[v] \in tasks
    BY <2>2, <2>3, <2>4 DEF Quiet, OneTask, Busy
  <2> QED BY <2>2, <2>3, <2>4, <2>5, QuietFrame
<1>4. ASSUME NEW w \in Workers, Commit(w), ~Unchanged(w) PROVE Quiet'
  <2>1. /\ UNCHANGED <<session, plan, thread, tasks, task, seen, left, reads, raced>>
        /\ pc[w] = "visit"
        /\ pc' = [pc EXCEPT ![w] = "scan"] \/ pc' = [pc EXCEPT ![w] = "idle"]
    BY <1>4 DEF Commit
  <2>2. Quiet /\ OnlyDeletes
    BY <2>1 DEF MergeInv, OnlyDeletes
  <2>3. \A v \in Workers : /\ Busy(v)' => Busy(v)
                           /\ pc'[v] \in {"visit", "clear"} => pc'[v] = pc[v]
    BY <2>1 DEF Busy, MergeInv, Typed, TypeOK
  <2> QED BY <2>1, <2>2, <2>3, QuietFrame DEF Quiet, OneTask
<1>5. ASSUME NEW w \in Workers, Restart(w) PROVE Quiet'
  <2>1. /\ UNCHANGED <<session, plan, thread, tasks, task, seen, left, reads, raced>>
        /\ pc' = [pc EXCEPT ![w] = "idle"]
    BY <1>5 DEF Restart, store, loop
  <2>2. Quiet /\ OnlyDeletes
    BY <2>1 DEF MergeInv, OnlyDeletes
  <2>3. \A v \in Workers : /\ Busy(v)' => Busy(v)
                           /\ pc'[v] \in {"visit", "clear"} => pc'[v] = pc[v]
    BY <2>1 DEF Busy, MergeInv, Typed, TypeOK
  <2> QED BY <2>1, <2>2, <2>3, QuietFrame DEF Quiet, OneTask
<1>6. ASSUME NEW t \in locks, Lapse(t) PROVE Quiet'
  <2>1. /\ UNCHANGED <<session, plan, thread, tasks, pc, task, seen, left, reads>>
        /\ ~raced
    BY <1>6 DEF Lapse, store, loop
  <2>2. Quiet /\ OnlyDeletes
    BY <2>1 DEF MergeInv, OnlyDeletes
  <2> QED BY <2>1, <2>2, QuietFrame DEF Quiet, OneTask, Busy
<1> QED
  BY <1>1, <1>2, <1>3, <1>4, <1>5, <1>6, FindQuiet, StoreQuiet, ScanQuiet, VisitQuiet, CommitQuiet,
     ClearQuiet DEF Next, WorkerStep

(* The invariant is inductive.                                              *)
LEMMA MergeInvStep == MergeInv /\ [Next]_vars => MergeInv'
<1> SUFFICES ASSUME MergeInv, [Next]_vars PROVE MergeInv'
  OBVIOUS
<1>1. Typed' /\ Agreement'
  BY TypedStep, AgreementStep DEF MergeInv
<1>2. Listed'
  BY ListedStep DEF MergeInv
<1>3. ~raced' => Claimed' /\ Quiet'
  BY QuietStep, ClaimedStep DEF MergeInv
<1> QED BY <1>1, <1>2, <1>3 DEF MergeInv

(* Messages that share a message id are in one thread once the merges are   *)
(* done, for any messages and any number of workers, changes, deletions,    *)
(* retries and restarts, if no lookup overlapped another one or a merge and *)
(* no lock lapsed under a merge.                                            *)
THEOREM OneThreadHolds == Spec => []OneThread
<1>1. MergeInv => OneThread
  <2> SUFFICES ASSUME MergeInv, tasks = {}, ~raced,
                      NEW d \in Docs, NEW e \in Docs, Alive(d), Alive(e), Sorted(d), Sorted(e),
                      MessageIds(d) \cap MessageIds(e) # {}
               PROVE  thread[d] = thread[e]
    BY DEF OneThread
  <2>1. Grouped /\ Shares(d, e)
    BY DEF MergeInv, Quiet, Shares
  <2> QED BY <2>1 DEF Grouped
<1> QED BY <1>1, MergeInvInit, MergeInvStep, PTL DEF Spec
=============================================================================
