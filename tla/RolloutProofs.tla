--------------------------- MODULE RolloutProofs ---------------------------
(***************************************************************************)
(* The safety of Rollout: types and positions, stops only for cause, the   *)
(* refinement of BatchGate, orders given once, and batches kept apart.     *)
(***************************************************************************)
EXTENDS Rollout, FiniteSetTheorems, NaturalsInduction, WellFoundedInduction, TLAPS

-----------------------------------------------------------------------------
(***************************************************************************)
(* Counting.                                                               *)
(***************************************************************************)
LEMMA LeastNumber ==
  ASSUME NEW T, T \subseteq Nat, T # {}
  PROVE  \E x \in T : \A y \in T : x <= y
<1>1. IsWellFoundedOn(OpToRel(<, Nat), Nat)
  BY NatLessThanWellFounded
<1>2. PICK x \in T : \A y \in T : ~(<<y, x>> \in OpToRel(<, Nat))
  BY <1>1, WFMin
<1>3. \A y \in T : ~(y < x)
  BY <1>2 DEF OpToRel
<1>4. QED
  BY <1>3

LEMMA NodeSets ==
  ASSUME NEW S \in SUBSET Nodes
  PROVE  IsFiniteSet(S) /\ Cardinality(S) \in Nat
BY NodesAssumption, FS_Subset, FS_CardinalityType

LEMMA SubsetCounts ==
  ASSUME NEW T \in SUBSET Nodes, NEW S \in SUBSET T
  PROVE  /\ Cardinality(S) \in Nat /\ Cardinality(T) \in Nat /\ Cardinality(S) <= Cardinality(T)
         /\ Cardinality(S) = Cardinality(T) => S = T
BY NodeSets, FS_Subset

LEMMA TwoParts ==
  ASSUME NEW S \in SUBSET Nodes, NEW T \in SUBSET Nodes, S \cap T = {}
  PROVE  Cardinality(S \cup T) = Cardinality(S) + Cardinality(T)
<1>1. IsFiniteSet(S) /\ IsFiniteSet(T) /\ Cardinality(S) \in Nat /\ Cardinality(T) \in Nat
  BY NodeSets
<1>2. Cardinality(S \cup T) = Cardinality(S) + Cardinality(T) - Cardinality(S \cap T)
  BY <1>1, FS_Union
<1>3. Cardinality(S \cap T) = 0
  BY FS_EmptySet
<1>4. QED
  BY <1>1, <1>2, <1>3

\* Nodes with different numbers between lo and hi are at most hi - lo + 1.
LEMMA Spread ==
  ASSUME NEW S \in SUBSET Nodes, NEW f \in [S -> Nat], NEW lo \in Nat, NEW hi \in Nat, lo <= hi + 1,
         \A m, n \in S : f[m] = f[n] => m = n,
         \A n \in S : lo <= f[n] /\ f[n] <= hi
  PROVE  Cardinality(S) <= hi - lo + 1
<1>1. IsFiniteSet(lo..hi) /\ Cardinality(lo..hi) = hi - lo + 1
  BY FS_Interval
<1>2. f \in Injection(S, lo..hi)
  <2>1. f \in [S -> lo..hi]
    OBVIOUS
  <2>2. QED
    BY <2>1 DEF Injection, IsInjective
<1>3. QED
  BY <1>1, <1>2, FS_Injection

\* Of a set in a strict order at most k members have fewer than k before them.
LEMMA FirstFew ==
  ASSUME NEW S \in SUBSET Nodes, NEW before \in [S -> SUBSET S], NEW k \in Nat,
         \A m, n \in S : m # n => m \in before[n] \/ n \in before[m],
         \A m, n \in S : m \in before[n] => m \notin before[m] /\ before[m] \subseteq before[n]
  PROVE  Cardinality({n \in S : Cardinality(before[n]) < k}) <= k
<1> DEFINE F == {n \in S : Cardinality(before[n]) < k}
           f == [n \in F |-> Cardinality(before[n])]
<1>1. \A n \in S : Cardinality(before[n]) \in Nat
  BY NodeSets
<1>2. ASSUME NEW m \in S, NEW n \in S, m \in before[n]
      PROVE  Cardinality(before[m]) # Cardinality(before[n])
  <2>1. before[m] \in SUBSET before[n] /\ before[m] # before[n] /\ before[n] \in SUBSET Nodes
    BY <1>2
  <2>2. QED
    BY <2>1, SubsetCounts
<1>3. CASE k = 0
  <2>1. F = {}
    BY <1>1, <1>3
  <2>2. QED
    BY <1>3, <2>1, FS_EmptySet
<1>4. CASE k > 0
  <2>1. f \in [F -> Nat] /\ F \in SUBSET Nodes
    BY <1>1
  <2>2. \A m, n \in F : f[m] = f[n] => m = n
    BY <1>2
  <2>3. \A n \in F : 0 <= f[n] /\ f[n] <= k - 1
    BY <1>1
  <2>4. 0 \in Nat /\ k - 1 \in Nat /\ 0 <= (k - 1) + 1
    BY <1>4
  <2> HIDE DEF f, F
  <2>5. Cardinality(F) <= (k - 1) - 0 + 1
    BY <2>1, <2>2, <2>3, <2>4, Spread
  <2>6. Cardinality(F) \in Nat
    BY <2>1, NodeSets
  <2>7. QED
    BY <2>5, <2>6 DEF F
<1>5. QED
  BY <1>3, <1>4

-----------------------------------------------------------------------------
(***************************************************************************)
(* Positions in the order of picks.                                        *)
(***************************************************************************)
Picked(prio) == {n \in Nodes : prio[n] > 0}

LEMMA PositionedFacts ==
  ASSUME NEW prio \in [Nodes -> Nat], Positioned(prio)
  PROVE  /\ \A m, n \in Picked(prio) : prio[m] = prio[n] => m = n
         /\ \A n \in Picked(prio) : prio[n] <= Cardinality(Picked(prio))
BY DEF Positioned, Picked

\* As many picks as there are positions between two.
LEMMA PicksBetween ==
  ASSUME NEW prio \in [Nodes -> Nat], Positioned(prio), NEW S \in SUBSET Picked(prio),
         NEW lo \in Nat, NEW hi \in Nat, lo <= hi + 1, \A n \in S : lo <= prio[n] /\ prio[n] <= hi
  PROVE  Cardinality(S) <= hi - lo + 1
<1> DEFINE f == [n \in S |-> prio[n]]
<1>1. S \in SUBSET Nodes /\ f \in [S -> Nat]
  BY DEF Picked
<1>2. (\A m, n \in S : f[m] = f[n] => m = n) /\ \A n \in S : lo <= f[n] /\ f[n] <= hi
  BY PositionedFacts
<1> HIDE DEF f
<1>3. QED
  BY <1>1, <1>2, Spread

\* Those that stay keep their order and close up.
LEMMA WithoutPicksFacts ==
  ASSUME NEW w \in CopyRecords, Positioned(w.cr.prio), NEW S \in SUBSET Nodes
  PROVE  /\ WithoutPicks(w, S) \in [Nodes -> Nat] /\ Positioned(WithoutPicks(w, S))
         /\ Picked(WithoutPicks(w, S)) = Picked(w.cr.prio) \ S
         /\ Picked(w.cr.prio) \cap S = {} => WithoutPicks(w, S) = w.cr.prio
<1> DEFINE prio == w.cr.prio
           picked == Picked(prio)
           gone == picked \cap S
           Below(n) == {m \in gone : prio[m] < prio[n]}
           new == WithoutPicks(w, S)
<1>0. prio \in [Nodes -> Nat] /\ Positioned(prio) /\ picked \in SUBSET Nodes /\ gone \in SUBSET picked
  BY DEF CopyRecords, StatusRecords, Picked
<1>1. new = [n \in Nodes |-> IF n \in S THEN 0 ELSE prio[n] - Cardinality(Below(n))]
  BY DEF WithoutPicks, Picks, InPrio, Picked
<1> HIDE DEF prio, new
<1>nat. \A n \in Nodes : prio[n] \in Nat
  BY <1>0
<1>2. /\ \A n \in Nodes : Cardinality(Below(n)) \in Nat
      /\ Cardinality(gone) \in Nat /\ Cardinality(picked) \in Nat
  <2>1. \A n \in Nodes : Below(n) \in SUBSET Nodes
    BY <1>0
  <2>2. QED
    BY <1>0, <2>1, NodeSets
<1>3. ASSUME NEW n \in Nodes, prio[n] = 0 PROVE Cardinality(Below(n)) = 0
  <2>1. Below(n) = {}
    BY <1>2, <1>nat, <1>3
  <2>2. QED
    BY <2>1, FS_EmptySet
<1>4. ASSUME NEW n \in picked PROVE Cardinality(Below(n)) <= prio[n] - 1
  <2>1. n \in Nodes /\ prio[n] > 0 /\ prio[n] \in Nat
    BY <1>2, <1>nat DEF Picked
  <2>2. Below(n) \in SUBSET picked /\ prio[n] - 1 \in Nat /\ 1 <= (prio[n] - 1) + 1
        /\ \A m \in Below(n) : 1 <= prio[m] /\ prio[m] <= prio[n] - 1
    BY <1>2, <1>nat, <2>1 DEF Picked
  <2> HIDE DEF Below, picked
  <2>3. Cardinality(Below(n)) <= (prio[n] - 1) - 1 + 1
    BY <1>0, <2>2, PicksBetween DEF picked
  <2>4. QED
    BY <1>2, <1>nat, <2>1, <2>3
<1>5. \A n \in Nodes : new[n] \in Nat /\ (new[n] > 0 <=> n \in picked \ S)
  <2> SUFFICES ASSUME NEW n \in Nodes PROVE new[n] \in Nat /\ (new[n] > 0 <=> n \in picked \ S)
    OBVIOUS
  <2>1. CASE n \in S
    BY <1>1, <2>1
  <2>2. CASE n \notin S /\ n \in picked
    BY <1>1, <1>2, <1>nat, <1>4, <2>2
  <2>3. CASE n \notin S /\ n \notin picked
    <3>1. prio[n] = 0
      BY <1>2, <1>nat, <2>3 DEF Picked
    <3>2. Cardinality(Below(n)) = 0
      BY <1>3, <3>1
    <3>3. new[n] = prio[n] - Cardinality(Below(n))
      BY <1>1, <2>3
    <3>4. new[n] = 0
      BY <3>1, <3>2, <3>3
    <3>5. QED
      BY <2>3, <3>4
  <2>4. QED
    BY <2>1, <2>2, <2>3
<1>6. new \in [Nodes -> Nat] /\ Picked(new) = picked \ S
  BY <1>1, <1>5 DEF Picked
<1>7. ASSUME NEW m \in picked \ S, NEW n \in picked \ S, prio[m] < prio[n] PROVE new[m] < new[n]
  <2> DEFINE mid == {o \in gone : prio[m] < prio[o] /\ prio[o] < prio[n]}
  <2>1. m \in Nodes /\ n \in Nodes /\ prio[m] \in Nat /\ prio[n] \in Nat
    BY <1>0, <1>2, <1>nat
  <2>2. mid \in SUBSET picked /\ prio[m] + 1 \in Nat /\ prio[n] - 1 \in Nat
        /\ prio[m] + 1 <= (prio[n] - 1) + 1
        /\ \A o \in mid : prio[m] + 1 <= prio[o] /\ prio[o] <= prio[n] - 1
    BY <1>0, <1>2, <1>nat, <1>7, <2>1
  <2>3. Cardinality(mid) <= (prio[n] - 1) - (prio[m] + 1) + 1 /\ Cardinality(mid) \in Nat
    <3>0. mid \in SUBSET Nodes
      BY <1>0
    <3> HIDE DEF mid, picked
    <3>1. QED
      BY <1>0, <2>2, <3>0, PicksBetween, NodeSets DEF picked
  <2>4. Below(n) = Below(m) \cup mid /\ Below(m) \cap mid = {}
    <3>1. \A o \in gone : prio[o] \in Nat /\ (prio[o] = prio[m] => o = m)
      BY <1>0, <1>2, <1>nat, PositionedFacts
    <3>2. \A o \in gone : prio[o] # prio[m]
      BY <3>1
    <3>3. QED
      BY <1>7, <2>1, <3>1, <3>2
  <2>5. Cardinality(Below(n)) = Cardinality(Below(m)) + Cardinality(mid)
    <3>1. Below(m) \in SUBSET Nodes /\ mid \in SUBSET Nodes
      BY <1>0
    <3> HIDE DEF Below, mid
    <3>2. QED
      BY <2>4, <3>1, TwoParts
  <2>6. new[m] = prio[m] - Cardinality(Below(m)) /\ new[n] = prio[n] - Cardinality(Below(n))
    BY <1>1, <1>7, <2>1
  <2> HIDE DEF Below, mid
  <2>7. QED
    BY <1>2, <1>nat, <2>1, <2>3, <2>5, <2>6
<1>8. ASSUME NEW n \in picked \ S PROVE new[n] <= Cardinality(picked \ S)
  <2> DEFINE above == {o \in gone : prio[n] < prio[o]}
             kmax == Cardinality(picked)
  <2>1. n \in Nodes /\ prio[n] \in Nat /\ prio[n] <= kmax /\ kmax \in Nat
    BY <1>0, <1>2, <1>nat, PositionedFacts
  <2>2. above \in SUBSET picked /\ prio[n] + 1 \in Nat /\ prio[n] + 1 <= kmax + 1
        /\ \A o \in above : prio[n] + 1 <= prio[o] /\ prio[o] <= kmax
    BY <1>0, <1>2, <1>nat, <2>1, PositionedFacts
  <2>3. Cardinality(above) <= kmax - (prio[n] + 1) + 1 /\ Cardinality(above) \in Nat
    <3>0. above \in SUBSET Nodes
      BY <1>0
    <3> HIDE DEF above, picked
    <3>1. QED
      BY <1>0, <2>1, <2>2, <3>0, PicksBetween, NodeSets DEF picked
  <2>4. gone = Below(n) \cup above /\ Below(n) \cap above = {}
    <3>1. \A o \in gone : prio[o] \in Nat /\ (prio[o] = prio[n] => o = n)
      BY <1>0, <1>2, <1>nat, PositionedFacts
    <3>2. \A o \in gone : prio[o] # prio[n]
      BY <3>1
    <3>3. QED
      BY <2>1, <3>1, <3>2
  <2>5. Cardinality(gone) = Cardinality(Below(n)) + Cardinality(above)
    <3>1. Below(n) \in SUBSET Nodes /\ above \in SUBSET Nodes
      BY <1>0
    <3> HIDE DEF Below, above, gone
    <3>2. QED
      BY <2>4, <3>1, TwoParts
  <2>6. Cardinality(picked \ S) = kmax - Cardinality(gone)
    BY <1>0, NodeSets, FS_Difference
  <2>7. new[n] = prio[n] - Cardinality(Below(n))
    BY <1>1, <1>8, <2>1
  <2> HIDE DEF Below, above, gone, kmax
  <2>8. QED
    BY <1>2, <1>nat, <2>1, <2>3, <2>5, <2>6, <2>7
<1>9. Positioned(new)
  <2>1. ASSUME NEW m \in Picked(new), NEW n \in Picked(new), new[m] = new[n] PROVE m = n
    <3>1. m \in picked \ S /\ n \in picked \ S /\ prio[m] \in Nat /\ prio[n] \in Nat
          /\ new[m] \in Nat /\ new[n] \in Nat
      BY <1>0, <1>2, <1>nat, <1>5, <1>6, <2>1
    <3>2. ~(prio[m] < prio[n]) /\ ~(prio[n] < prio[m])
      BY <1>7, <2>1, <3>1
    <3>3. prio[m] = prio[n]
      BY <3>1, <3>2
    <3>4. QED
      BY <1>0, <3>1, <3>3, PositionedFacts
  <2>2. QED
    BY <1>6, <1>8, <2>1 DEF Positioned, Picked
<1>10. ASSUME gone = {} PROVE new = prio
  <2>1. \A n \in Nodes : Below(n) = {}
    BY <1>10
  <2>2. \A n \in Nodes : Cardinality(Below(n)) = 0
    BY <2>1, FS_EmptySet
  <2>3. \A n \in Nodes : n \in S => prio[n] = 0
    BY <1>2, <1>nat, <1>10 DEF Picked
  <2> HIDE DEF Below
  <2>4. \A n \in Nodes : new[n] = prio[n]
    BY <1>1, <1>2, <1>nat, <2>2, <2>3
  <2>5. QED
    BY <1>0, <1>6, <2>4
<1>11. QED
  BY <1>6, <1>9, <1>10 DEF prio, new

LEMMA SameCopy ==
  ASSUME NEW v \in CopyRecords, NEW w \in CopyRecords, v.node = w.node, v.comp = w.comp,
         v.cr = w.cr, v.batch = w.batch
  PROVE  v = w
BY DEF CopyRecords

LEMMA SameStatus ==
  ASSUME NEW v \in StatusRecords, NEW w \in StatusRecords, v.status = w.status, v.prio = w.prio,
         v.offset = w.offset, v.batch = w.batch
  PROVE  v = w
BY DEF StatusRecords

LEMMA RemoveFacts ==
  ASSUME NEW w \in CopyRecords, Positioned(w.cr.prio), NEW S \in SUBSET Nodes
  PROVE  LET v == RemoveNodePriority(w, S) IN
         /\ v \in CopyRecords /\ Positioned(v.cr.prio)
         /\ v.node = w.node /\ v.comp = w.comp /\ v.batch = w.batch
         /\ v.cr.status = w.cr.status /\ v.cr.batch = w.cr.batch
         /\ Picked(v.cr.prio) = Picked(w.cr.prio) \ S
         /\ v.cr.offset = w.cr.offset + Cardinality(Picked(w.cr.prio) \cap S)
         /\ Picked(w.cr.prio) \cap S = {} => v = w
<1> DEFINE prio == WithoutPicks(w, S)
           k == Cardinality(Picked(w.cr.prio) \cap S)
           offset == w.cr.offset + k
           v == [w EXCEPT !.cr.prio = prio, !.cr.offset = offset]
<1>1. RemoveNodePriority(w, S) = v
  BY DEF RemoveNodePriority, Picks, InPrio, Picked
<1>2. prio \in [Nodes -> Nat] /\ Positioned(prio) /\ Picked(prio) = Picked(w.cr.prio) \ S
      /\ (Picked(w.cr.prio) \cap S = {} => prio = w.cr.prio)
  BY WithoutPicksFacts
<1>3. k \in Nat /\ (Picked(w.cr.prio) \cap S = {} => k = 0)
  <2>1. Picked(w.cr.prio) \cap S \in SUBSET Nodes
    BY DEF Picked
  <2>2. QED
    BY <2>1, NodeSets, FS_EmptySet
<1>4. offset \in Nat /\ (k = 0 => offset = w.cr.offset)
  <2>1. w.cr.offset \in Nat
    BY DEF CopyRecords, StatusRecords
  <2>2. QED
    BY <1>3, <2>1
<1> HIDE DEF prio, offset
<1>5. v \in CopyRecords /\ v.cr.prio = prio /\ v.cr.offset = offset
      /\ v.node = w.node /\ v.comp = w.comp /\ v.batch = w.batch
      /\ v.cr.status = w.cr.status /\ v.cr.batch = w.cr.batch
  BY <1>2, <1>4 DEF CopyRecords, StatusRecords
<1> HIDE DEF v
<1>6. ASSUME prio = w.cr.prio, offset = w.cr.offset PROVE v = w
  <2>1. v.cr \in StatusRecords /\ w.cr \in StatusRecords
    BY <1>5 DEF CopyRecords
  <2>2. v.cr = w.cr
    BY <1>5, <1>6, <2>1, SameStatus
  <2>3. QED
    BY <1>5, <2>2, SameCopy
<1>7. QED
  BY <1>1, <1>2, <1>3, <1>4, <1>5, <1>6 DEF offset

\* New picks get the positions after all others.
LEMMA UpsertFacts ==
  ASSUME NEW w \in CopyRecords, Positioned(w.cr.prio), NEW S \in SUBSET Nodes
  PROVE  LET v == UpsertPick(w, S) IN
         /\ v \in CopyRecords /\ Positioned(v.cr.prio)
         /\ v.node = w.node /\ v.comp = w.comp /\ v.batch = w.batch
         /\ v.cr.status = w.cr.status /\ v.cr.batch = w.cr.batch /\ v.cr.offset = w.cr.offset
         /\ Picked(v.cr.prio) = Picked(w.cr.prio) \cup S
<1> DEFINE prio == w.cr.prio
           picked == Picked(prio)
           new == S \ picked
           k == Cardinality(picked)
           Upto(n) == {m \in new : Rank[m] <= Rank[n]}
           to == [n \in Nodes |-> IF n \in new THEN k + Cardinality(Upto(n)) ELSE prio[n]]
           v == [w EXCEPT !.cr.prio = to]
<1>0. prio \in [Nodes -> Nat] /\ picked \in SUBSET Nodes /\ new \in SUBSET Nodes /\ k \in Nat
      /\ Cardinality(new) \in Nat
  BY NodeSets DEF CopyRecords, StatusRecords, Picked
<1>1. UpsertPick(w, S) = v
  BY DEF UpsertPick, Picks, InPrio, Picked
<1>nat. \A n \in Nodes : prio[n] \in Nat /\ Rank[n] \in Nat
  BY <1>0, NodesAssumption
<1>2. ASSUME NEW n \in new
      PROVE  Cardinality(Upto(n)) \in Nat /\ Cardinality(Upto(n)) > 0 /\ Cardinality(Upto(n)) <= Cardinality(new)
  <2>1. Upto(n) \in SUBSET new /\ n \in Upto(n) /\ new \in SUBSET Nodes /\ Upto(n) \in SUBSET Nodes
    BY <1>0, <1>nat
  <2> HIDE DEF Upto, new
  <2>2. Cardinality(Upto(n)) \in Nat /\ Cardinality(Upto(n)) <= Cardinality(new) /\ Cardinality(Upto(n)) # 0
    BY <2>1, SubsetCounts, NodeSets, FS_EmptySet
  <2>3. QED
    BY <2>2
<1>3. ASSUME NEW m \in new, NEW n \in new, Cardinality(Upto(m)) = Cardinality(Upto(n)) PROVE m = n
  <2>1. \A i, j \in new : Rank[i] <= Rank[j] => Upto(i) \subseteq Upto(j)
    BY <1>0, <1>nat
  <2>2. \A i \in new : i \in Upto(i) /\ Upto(i) \in SUBSET Nodes
    BY <1>0, <1>nat
  <2>3. ASSUME NEW i \in new, NEW j \in new, Rank[i] <= Rank[j], Cardinality(Upto(i)) = Cardinality(Upto(j))
        PROVE  i = j
    <3>1. Upto(i) = Upto(j)
      <4>1. Upto(i) \in SUBSET Upto(j) /\ Upto(j) \in SUBSET Nodes
        BY <2>1, <2>2, <2>3
      <4> HIDE DEF Upto, new
      <4>2. QED
        BY <2>3, <4>1, SubsetCounts
    <3>2. j \in Upto(i)
      BY <2>2, <3>1
    <3>3. Rank[j] <= Rank[i] /\ Rank[i] \in Nat /\ Rank[j] \in Nat /\ i \in Nodes /\ j \in Nodes
      BY <1>0, <1>nat, <3>2
    <3>4. QED
      BY <2>3, <3>3, NodesAssumption
  <2>4. Rank[m] \in Nat /\ Rank[n] \in Nat
    BY <1>0, <1>nat
  <2>5. QED
    BY <1>3, <2>3, <2>4
<1>4. \A n \in Nodes : /\ to[n] \in Nat
                       /\ n \in new => to[n] = k + Cardinality(Upto(n)) /\ to[n] > k
                       /\ n \notin new => to[n] = prio[n]
  <2> SUFFICES ASSUME NEW n \in Nodes
               PROVE  /\ to[n] \in Nat
                      /\ n \in new => to[n] = k + Cardinality(Upto(n)) /\ to[n] > k
                      /\ n \notin new => to[n] = prio[n]
    OBVIOUS
  <2>1. to[n] = IF n \in new THEN k + Cardinality(Upto(n)) ELSE prio[n]
    OBVIOUS
  <2> HIDE DEF to
  <2>2. CASE n \in new
    BY <1>0, <1>2, <2>1, <2>2
  <2>3. CASE n \notin new
    BY <1>nat, <2>1, <2>3
  <2>4. QED
    BY <2>2, <2>3
<1>5. to \in [Nodes -> Nat]
  BY <1>4
<1>6. Picked(to) = picked \cup S
  <2>1. \A n \in Nodes : to[n] > 0 <=> (n \in new \/ prio[n] > 0)
    BY <1>0, <1>nat, <1>4
  <2>2. QED
    BY <2>1 DEF Picked
<1>7. Cardinality(picked \cup S) = k + Cardinality(new)
  <2>1. picked \cup S = picked \cup new /\ picked \cap new = {}
    OBVIOUS
  <2>2. QED
    BY <1>0, <2>1, TwoParts
<1>8. \A n \in picked : prio[n] <= k /\ n \in Nodes /\ n \notin new
  BY <1>0, PositionedFacts
<1>9. Positioned(to)
  <2>1. ASSUME NEW m \in Picked(to), NEW n \in Picked(to), to[m] = to[n] PROVE m = n
    <3>1. m \in Nodes /\ n \in Nodes /\ m \in picked \cup new /\ n \in picked \cup new
      BY <1>0, <1>6, <2>1
    <3>2. CASE m \in new /\ n \in new
      <4>1. Cardinality(Upto(m)) \in Nat /\ Cardinality(Upto(n)) \in Nat
            /\ k + Cardinality(Upto(m)) = k + Cardinality(Upto(n))
        BY <1>2, <1>4, <2>1, <3>1, <3>2
      <4>2. Cardinality(Upto(m)) = Cardinality(Upto(n))
        BY <1>0, <4>1
      <4>3. QED
        BY <1>3, <3>2, <4>2
    <3>3. CASE m \in picked /\ n \in picked
      <4>1. prio[m] = prio[n]
        BY <1>4, <1>8, <2>1, <3>3
      <4>2. QED
        BY <1>0, <3>3, <4>1, PositionedFacts
    <3>4. CASE m \in picked /\ n \in new
      BY <1>0, <1>4, <1>8, <1>nat, <2>1, <3>1, <3>4
    <3>5. CASE m \in new /\ n \in picked
      BY <1>0, <1>4, <1>8, <1>nat, <2>1, <3>1, <3>5
    <3>6. QED
      BY <3>1, <3>2, <3>3, <3>4, <3>5
  <2>2. ASSUME NEW n \in Picked(to) PROVE to[n] <= Cardinality(Picked(to))
    <3>0. Cardinality(Picked(to)) = k + Cardinality(new) /\ n \in Nodes
      BY <1>6, <1>7, <2>2 DEF Picked
    <3>1. CASE n \in new
      <4>1. to[n] = k + Cardinality(Upto(n))
        BY <1>4, <3>0, <3>1
      <4>2. Cardinality(Upto(n)) \in Nat /\ Cardinality(Upto(n)) <= Cardinality(new)
        BY <1>2, <3>1
      <4> HIDE DEF to, Upto, new, k
      <4>3. QED
        BY <1>0, <3>0, <4>1, <4>2
    <3>2. CASE n \in picked
      <4>1. to[n] = prio[n] /\ prio[n] <= k
        BY <1>4, <1>8, <3>0, <3>2
      <4> HIDE DEF to, Upto, new, k, prio
      <4>2. QED
        BY <1>0, <1>nat, <3>0, <4>1
    <3>3. QED
      BY <1>6, <2>2, <3>1, <3>2
  <2>3. QED
    BY <2>1, <2>2 DEF Positioned, Picked
<1> HIDE DEF to
<1>10. /\ v \in CopyRecords /\ v.cr.prio = to /\ v.node = w.node /\ v.comp = w.comp /\ v.batch = w.batch
       /\ v.cr.status = w.cr.status /\ v.cr.batch = w.cr.batch /\ v.cr.offset = w.cr.offset
  BY <1>5 DEF CopyRecords, StatusRecords
<1> HIDE DEF v
<1>11. QED
  BY <1>1, <1>6, <1>9, <1>10

-----------------------------------------------------------------------------
(***************************************************************************)
(* What the operators of a pass return.                                    *)
(***************************************************************************)
\* What a pass reads of the cluster, and the copy it works on.
Ground ==
  /\ mode \in {"run", "pause", "disable"} /\ policy \in BOOLEAN /\ cluster \in ClusterRecords
Entry(nd) == nd.stage = 0 <=> nd.state = "none"
Sound(w) == w \in CopyRecords /\ Positioned(w.cr.prio) /\ \A n \in Nodes : Entry(w.node[n])

\* The batch states of v are those of w, or all are reset.
Kept(w, v) == v.batch = w.batch /\ v.cr.batch = w.cr.batch
Renewed(w, v) ==
  \A c \in AllCompartments : v.batch[c] = FreshBatch /\ v.cr.batch[c] \in {NoBatch, FreshBatch}

LEMMA BatchTypes == FreshBatch \in BatchRecords /\ NoBatch \in BatchRecords
BY DEF FreshBatch, NoBatch, BatchRecords

LEMMA CopyTypes ==
  ASSUME NEW w \in CopyRecords
  PROVE  /\ w.node \in [Nodes -> NodeRecords] /\ w.comp \in [Nodes -> AllCompartments \cup {"none"}]
         /\ w.cr \in StatusRecords /\ w.batch \in [AllCompartments -> BatchRecords]
         /\ w.cr.status \in Statuses /\ w.cr.prio \in [Nodes -> Nat] /\ w.cr.offset \in Nat
         /\ w.cr.batch \in [AllCompartments -> BatchRecords]
BY DEF CopyRecords, StatusRecords

LEMMA ResetFacts ==
  ASSUME NEW w \in CopyRecords
  PROVE  LET v == ResetBatches(w) IN
         /\ v \in CopyRecords /\ v.node = w.node /\ v.comp = w.comp
         /\ v.cr.status = w.cr.status /\ v.cr.prio = w.cr.prio /\ v.cr.offset = w.cr.offset
         /\ Kept(w, v) \/ Renewed(w, v)
<1> DEFINE stored == [c \in AllCompartments |-> IF w.cr.batch[c] = NoBatch THEN NoBatch ELSE FreshBatch]
           fresh == [c \in AllCompartments |-> FreshBatch]
           v == [w EXCEPT !.cr.batch = stored, !.batch = fresh]
<1>1. CASE ~ResetOnCompletion
  BY <1>1 DEF ResetBatches, Kept
<1>2. CASE ResetOnCompletion
  <2>1. ResetBatches(w) = v
    BY <1>2 DEF ResetBatches
  <2>2. stored \in [AllCompartments -> BatchRecords] /\ fresh \in [AllCompartments -> BatchRecords]
        /\ \A c \in AllCompartments : stored[c] \in {NoBatch, FreshBatch} /\ fresh[c] = FreshBatch
    BY BatchTypes
  <2> HIDE DEF stored, fresh
  <2>3. /\ v \in CopyRecords /\ v.node = w.node /\ v.comp = w.comp
        /\ v.cr.status = w.cr.status /\ v.cr.prio = w.cr.prio /\ v.cr.offset = w.cr.offset
        /\ v.batch = fresh /\ v.cr.batch = stored
    BY <2>2 DEF CopyRecords, StatusRecords
  <2> HIDE DEF v
  <2>4. QED
    BY <2>1, <2>2, <2>3 DEF Renewed
<1>3. QED
  BY <1>1, <1>2

LEMMA StatusRange ==
  ASSUME NEW w
  PROVE  NodeWrightStatus(w) \in Statuses
<1>1. CollectNodeStatus(w) \in Statuses
  BY DEF CollectNodeStatus, Statuses
<1>2. QED
  BY <1>1 DEF NodeWrightStatus, Statuses

LEMMA SetStatusFacts ==
  ASSUME NEW w \in CopyRecords, NEW s \in Statuses
  PROVE  LET v == SetStatus(w, s) IN
         /\ v \in CopyRecords /\ v.node = w.node /\ v.comp = w.comp
         /\ v.cr.status = s /\ v.cr.prio = w.cr.prio /\ v.cr.offset = w.cr.offset
         /\ Kept(w, v) \/ Renewed(w, v)
         /\ (s # "complete" \/ w.cr.status = "complete") => Kept(w, v)
<1> DEFINE u == [w EXCEPT !.cr.status = s]
<1>1. /\ u \in CopyRecords /\ u.node = w.node /\ u.comp = w.comp /\ u.cr.status = s
      /\ u.cr.prio = w.cr.prio /\ u.cr.offset = w.cr.offset /\ Kept(w, u)
  BY DEF CopyRecords, StatusRecords, Kept
<1>2. SetStatus(w, s) = IF w.cr.status # "complete" /\ s = "complete" THEN ResetBatches(u) ELSE u
  BY DEF SetStatus
<1> HIDE DEF u
<1>3. LET v == ResetBatches(u) IN
      /\ v \in CopyRecords /\ v.node = u.node /\ v.comp = u.comp
      /\ v.cr.status = u.cr.status /\ v.cr.prio = u.cr.prio /\ v.cr.offset = u.cr.offset
      /\ Kept(u, v) \/ Renewed(u, v)
  BY <1>1, ResetFacts
<1>4. \A v : Kept(u, v) => Kept(w, v)
  BY <1>1 DEF Kept
<1>5. \A v : Renewed(u, v) => Renewed(w, v)
  BY DEF Renewed
<1>6. QED
  BY <1>1, <1>2, <1>3, <1>4, <1>5

LEMMA IntrospectNodesFacts ==
  ASSUME NEW w \in CopyRecords
  PROVE  LET v == IntrospectNodes(w) IN
         /\ v \in CopyRecords /\ v.comp = w.comp /\ v.cr = w.cr /\ v.batch = w.batch
         /\ \A n \in Nodes :
              /\ v.node[n].stage = w.node[n].stage /\ v.node[n].state = w.node[n].state
              /\ v.node[n].old = w.node[n].old
              /\ n \notin cluster.members => v.node[n] = w.node[n]
              /\ n \in cluster.members => v.node[n].status = IntrospectNode(w, n)
<1> DEFINE nodes == [n \in Nodes |-> IF n \in cluster.members
                       THEN [w.node[n] EXCEPT !.status = IntrospectNode(w, n)] ELSE w.node[n]]
           v == [w EXCEPT !.node = nodes]
<1>1. IntrospectNodes(w) = v
  BY DEF IntrospectNodes
<1>2. \A n \in Nodes : IntrospectNode(w, n) \in Statuses
  BY CopyTypes DEF IntrospectNode, Statuses, NodeRecords
<1>3. \A n \in Nodes : /\ nodes[n] \in NodeRecords
                       /\ nodes[n].stage = w.node[n].stage /\ nodes[n].state = w.node[n].state
                       /\ nodes[n].old = w.node[n].old
                       /\ n \notin cluster.members => nodes[n] = w.node[n]
                       /\ n \in cluster.members => nodes[n].status = IntrospectNode(w, n)
  <2> SUFFICES ASSUME NEW n \in Nodes
               PROVE  /\ nodes[n] \in NodeRecords
                      /\ nodes[n].stage = w.node[n].stage /\ nodes[n].state = w.node[n].state
                      /\ nodes[n].old = w.node[n].old
                      /\ n \notin cluster.members => nodes[n] = w.node[n]
                      /\ n \in cluster.members => nodes[n].status = IntrospectNode(w, n)
    OBVIOUS
  <2>1. w.node[n] \in NodeRecords
    BY CopyTypes
  <2>2. QED
    BY <1>2, <2>1 DEF NodeRecords
<1>4. nodes \in [Nodes -> NodeRecords]
  BY <1>3
<1> HIDE DEF nodes
<1>5. v \in CopyRecords /\ v.comp = w.comp /\ v.cr = w.cr /\ v.batch = w.batch /\ v.node = nodes
  BY <1>4 DEF CopyRecords
<1> HIDE DEF v
<1>6. QED
  BY <1>1, <1>3, <1>5

\* A status a node gets, and what it had before.
LEMMA IntrospectNodeFacts ==
  ASSUME NEW w \in CopyRecords, NEW n \in Nodes
  PROVE  LET s == IntrospectNode(w, n) IN
         /\ s = "in_progress" => w.node[n].status = "in_progress"
         /\ s = "erroring" => w.node[n].status = "erroring"
         /\ s = "complete" => IsComplete(w.node[n])
         /\ IsComplete(w.node[n]) /\ w.cr.status \notin {"paused", "disabled"} => s = "complete"
         /\ ~IsComplete(w.node[n]) => s # "complete"
BY DEF IntrospectNode

-----------------------------------------------------------------------------
(***************************************************************************)
(* The score of a batch.                                                   *)
(***************************************************************************)
LEMMA StrategyTypesOf ==
  ASSUME Ground, NEW c \in AllCompartments
  PROVE  /\ StrategyOf(c).type \in StrategyTypes /\ StrategyOf(c).initial \in Nat
         /\ StrategyOf(c).step \in Nat /\ StrategyOf(c).threshold \in 0..100
         /\ StrategyOf(c).failures \in Nat /\ StrategyOf(c).safety \in Nat
<1>1. CASE HasPolicy
  <2>1. ValidStrategy(Strategy[c])
    BY CompartmentsAssumption
  <2>2. StrategyOf(c) = Default(Strategy[c])
    BY <1>1 DEF StrategyOf
  <2>3. QED
    BY <2>1, <2>2 DEF ValidStrategy, Default, OrDefault, StrategyTypes
<1>2. CASE ~HasPolicy
  <2> DEFINE k == Cardinality(cluster.members)
             b == IF Budget[c].kind = "unset" THEN [kind |-> "percent", n |-> 100] ELSE Budget[c]
             ceiling == CalculateCeiling(b, k)
             initial == IF b.kind = "count" THEN Maximum(1, Minimum(k, b.n)) ELSE Maximum(1, ceiling)
             s == [type |-> "fixed", step |-> 0, threshold |-> 0, failures |-> 0, safety |-> 0,
                   initial |-> initial]
  <2>1. StrategyOf(c) = Default(s)
    BY <1>2 DEF StrategyOf, CreateLegacyDefaultStrategy
  <2>2. k \in Nat
    BY NodeSets DEF Ground, ClusterRecords
  <2>3. b = Budget[c] /\ ((b.kind = "count" /\ b.n \in Nat) \/ (b.kind = "percent" /\ b.n \in 0..100))
    BY CompartmentsAssumption DEF ValidBudget
  <2> HIDE DEF k, b
  <2>4. b.kind = "percent" => ceiling \in Nat
    BY <2>2, <2>3 DEF CalculateCeiling, Maximum
  <2> HIDE DEF ceiling
  <2>5. initial \in Nat
    BY <2>2, <2>3, <2>4 DEF Maximum, Minimum
  <2> HIDE DEF initial
  <2>6. QED
    BY <2>1, <2>5 DEF Default, OrDefault, StrategyTypes
<1>3. QED
  BY <1>1, <1>2, RolloutBoundsAssumption


Completed(w, c) == Cardinality({n \in NodesOf(w, c) : IsComplete(w.node[n])})
Failed(w, c) == Cardinality(StatusIs(w, c, "erroring") \ {n \in NodesOf(w, c) : IsComplete(w.node[n])})

LEMMA CountTypes ==
  ASSUME Ground, NEW w, NEW c
  PROVE  /\ Completed(w, c) \in Nat /\ Failed(w, c) \in Nat
         /\ Cardinality(StatusIs(w, c, "in_progress")) \in Nat /\ Cardinality(NodesOf(w, c)) \in Nat
<1>1. NodesOf(w, c) \in SUBSET Nodes
  BY DEF NodesOf, Ground, ClusterRecords
<1>2. QED
  BY <1>1, NodeSets DEF Completed, Failed, StatusIs

\* The result of a batch: the checkpoint moves to the counts or stays.
LEMMA CurrentBatchFacts ==
  ASSUME NEW bs \in BatchRecords, NEW running \in Nat, NEW completed \in Nat, NEW failed \in Nat
  PROVE  LET r == EvaluateCurrentBatch(bs, running, completed, failed) IN
         /\ r.scored \in BOOLEAN /\ r.ok \in Nat /\ r.bad \in Nat /\ r.bs \in BatchRecords
         /\ r.bs.failures = bs.failures /\ r.bs.stop = bs.stop
         /\ r.bs.failed = bs.failed \/ r.bs.failed = failed
         /\ r.scored = TRUE => /\ running = 0 /\ r.ok + r.bad > 0 /\ r.bs.failed = failed
                               /\ bs.failed + r.bad = failed
<1> DEFINE ok == completed - bs.completed
           bad == failed - bs.failed
           checkpoint == [bs EXCEPT !.completed = completed, !.failed = failed]
           r == EvaluateCurrentBatch(bs, running, completed, failed)
<1>1. /\ checkpoint \in BatchRecords /\ checkpoint.failures = bs.failures
      /\ checkpoint.stop = bs.stop /\ checkpoint.failed = failed
  BY DEF BatchRecords
<1>2. bs.completed \in Nat /\ bs.failed \in Nat /\ bs.batch \in Nat /\ ok \in Int /\ bad \in Int
  BY DEF BatchRecords
<1>3. CASE running > 0
  <2>1. r = [scored |-> FALSE, ok |-> 0, bad |-> 0, bs |-> bs]
    BY <1>3 DEF EvaluateCurrentBatch
  <2>2. QED
    BY <2>1
<1>4. CASE running = 0 /\ bs.batch = 0
  <2>1. r = [scored |-> FALSE, ok |-> 0, bad |-> 0, bs |-> [bs EXCEPT !.batch = 1]]
    BY <1>4 DEF EvaluateCurrentBatch
  <2>2. QED
    BY <2>1 DEF BatchRecords
<1>5. CASE running = 0 /\ bs.batch # 0 /\ (ok < 0 \/ bad < 0)
  <2>0. ~(running > 0) /\ ~(ok >= 0 /\ bad >= 0)
    BY <1>2, <1>5
  <2>1. r = [scored |-> FALSE, ok |-> 0, bad |-> 0, bs |-> checkpoint]
    BY <1>5, <2>0, Zenon DEF EvaluateCurrentBatch
  <2> HIDE DEF checkpoint
  <2>2. QED
    BY <1>1, <2>1
<1>6. CASE running = 0 /\ bs.batch # 0 /\ ok >= 0 /\ bad >= 0
  <2>1. r = [scored |-> ok + bad > 0, ok |-> ok, bad |-> bad, bs |-> checkpoint]
    BY <1>6 DEF EvaluateCurrentBatch
  <2> HIDE DEF checkpoint, r
  <2>2. r.scored = (ok + bad > 0) /\ r.ok = ok /\ r.bad = bad /\ r.bs = checkpoint
    BY <2>1
  <2>3. r.scored \in BOOLEAN /\ (r.scored = TRUE => ok + bad > 0)
    <3> DEFINE over == ok + bad > 0
    <3>1. over \in BOOLEAN /\ r.scored = over
      BY <2>2
    <3> HIDE DEF over
    <3>2. r.scored \in BOOLEAN /\ (r.scored = TRUE => over)
      BY <3>1
    <3>3. QED
      BY <3>2 DEF over
  <2>4. ok \in Nat /\ bad \in Nat /\ bs.failed + bad = failed
    BY <1>2, <1>6
  <2> HIDE DEF ok, bad
  <2>5. QED
    BY <1>1, <1>6, <2>2, <2>3, <2>4 DEF r
<1>7. \/ running > 0 \/ (running = 0 /\ bs.batch = 0)
      \/ (running = 0 /\ bs.batch # 0 /\ (ok < 0 \/ bad < 0))
      \/ (running = 0 /\ bs.batch # 0 /\ ok >= 0 /\ bad >= 0)
  BY <1>2
<1>8. QED
  BY <1>3, <1>4, <1>5, <1>6, <1>7, Zenon

\* A batch stops only by a failure that reaches the threshold, and one that succeeds
\* forgets the failures before it.
LEMMA BatchResultFacts ==
  ASSUME NEW s, s.failures \in Nat, NEW bs \in BatchRecords, NEW ok \in Nat, NEW bad \in Nat,
         ok + bad > 0, s.threshold <= 100, s.threshold \in Nat, NEW total \in Nat
  PROVE  LET r == EvaluateBatchResult(s, bs, ok, bad, total) IN
         /\ r \in BatchRecords /\ r.failed = bs.failed
         /\ s.type = "none" => r.failures = bs.failures /\ r.stop = bs.stop
         /\ s.type # "none" => r.failures = 0 \/ (bad > 0 /\ r.failures = bs.failures + 1)
         /\ bs.stop = TRUE => r.stop = TRUE
         /\ r.stop = TRUE => \/ bs.stop = TRUE
                             \/ (r.failures >= s.failures /\ s.failures > 0 /\ s.type # "none")
<1> DEFINE size == ok + bad
           failedBatch == (ok * 100) \div size < s.threshold
           failures == IF failedBatch THEN bs.failures + 1 ELSE 0
           stop == /\ failedBatch /\ s.failures # 0
                   /\ ProgressPercent(bs, total) < s.safety
                   /\ failures >= s.failures
           r == EvaluateBatchResult(s, bs, ok, bad, total)
<1>1. size \in Nat /\ bs.failures \in Nat /\ bs.batch \in Nat /\ bs.stop \in BOOLEAN
  BY DEF BatchRecords
<1>2. failedBatch => bad > 0
  <2>1. SUFFICES ASSUME failedBatch, bad = 0 PROVE FALSE
    OBVIOUS
  <2>2. size = ok /\ ok > 0
    BY <2>1
  <2>3. (ok * 100) \div ok = 100
    BY <2>2
  <2>4. QED
    BY <2>1, <2>2, <2>3
<1>3. failures \in Nat /\ (failures = 0 \/ (failedBatch /\ failures = bs.failures + 1))
  BY <1>1
<1>4. CASE s.type = "none"
  <2> DEFINE b == bs.batch + 1
  <2>1. r = [bs EXCEPT !.batch = b, !.lastSize = size] /\ b \in Nat
    BY <1>1, <1>4 DEF EvaluateBatchResult
  <2> HIDE DEF r, size, b
  <2>2. r \in BatchRecords /\ r.failed = bs.failed /\ r.failures = bs.failures /\ r.stop = bs.stop
    BY <1>1, <2>1 DEF BatchRecords
  <2>3. QED
    BY <1>4, <2>2 DEF r
<1>5. CASE s.type # "none"
  <2>1. r = [bs EXCEPT !.batch = bs.batch + 1, !.lastSize = size, !.lastFailed = failedBatch,
                       !.failures = failures, !.stop = bs.stop \/ stop]
    BY <1>5 DEF EvaluateBatchResult
  <2>2. failedBatch \in BOOLEAN /\ (bs.stop \/ stop) \in BOOLEAN /\ bs.batch + 1 \in Nat
    BY <1>1
  <2>3. (bs.stop \/ stop) => bs.stop = TRUE \/ (failures >= s.failures /\ s.failures > 0)
    BY <1>1
  <2> HIDE DEF r, size, failedBatch, failures, stop
  <2>4. r \in BatchRecords /\ r.failed = bs.failed /\ r.failures = failures /\ r.stop = (bs.stop \/ stop)
    BY <1>1, <1>3, <2>1, <2>2 DEF BatchRecords
  <2>5. /\ r.stop = TRUE => bs.stop = TRUE \/ (failures >= s.failures /\ s.failures > 0)
        /\ bs.stop = TRUE => r.stop = TRUE
    BY <2>3, <2>4
  <2>6. r.failures = 0 \/ (bad > 0 /\ r.failures = bs.failures + 1)
    BY <1>2, <1>3, <2>4
  <2>7. QED
    BY <1>5, <2>4, <2>5, <2>6 DEF r
<1>6. QED
  BY <1>4, <1>5

\* What a pass makes of the batch of compartment c, in its copy and in the status.
Unscored(w, v, c) ==
  /\ v.cr.batch[c] = w.cr.batch[c]
  /\ v.batch[c] = w.batch[c] \/ v.batch[c] = BatchResult(w, c).bs
Judged(w, v, c) ==
  /\ BatchResult(w, c).scored = TRUE
  /\ v.cr.batch[c] = StoredBatch(c, v.batch[c])
  /\ v.batch[c] = LET r == BatchResult(w, c) IN
                  EvaluateBatchResult(StrategyOf(c), r.bs, r.ok, r.bad, Cardinality(NodesOf(w, c)))

LEMMA ResultTypes ==
  ASSUME Ground, NEW w \in CopyRecords, NEW c \in AllCompartments
  PROVE  LET r == BatchResult(w, c) bs == w.batch[c] IN
         /\ r.scored \in BOOLEAN /\ r.ok \in Nat /\ r.bad \in Nat /\ r.bs \in BatchRecords
         /\ r.bs.failures = bs.failures /\ r.bs.stop = bs.stop
         /\ r.bs.failed = bs.failed \/ r.bs.failed = Failed(w, c)
         /\ r.scored = TRUE => /\ StatusIs(w, c, "in_progress") = {} /\ r.ok + r.bad > 0
                               /\ r.bs.failed = Failed(w, c)
                               /\ bs.failed + r.bad = Failed(w, c)
<1> DEFINE running == Cardinality(StatusIs(w, c, "in_progress"))
<1>1. BatchResult(w, c) = EvaluateCurrentBatch(w.batch[c], running, Completed(w, c), Failed(w, c))
  BY DEF BatchResult, Completed, Failed
<1>2. w.batch[c] \in BatchRecords /\ running \in Nat /\ Completed(w, c) \in Nat /\ Failed(w, c) \in Nat
  BY CountTypes, CopyTypes
<1>3. running = 0 => StatusIs(w, c, "in_progress") = {}
  <2>1. StatusIs(w, c, "in_progress") \in SUBSET Nodes
    BY DEF StatusIs, NodesOf, Ground, ClusterRecords
  <2>2. QED
    BY <2>1, NodeSets, FS_EmptySet
<1> DEFINE b == w.batch[c]
           done == Completed(w, c)
           bad == Failed(w, c)
           r == EvaluateCurrentBatch(b, running, done, bad)
<1> HIDE DEF running, b, done, bad
<1>4. b \in BatchRecords /\ running \in Nat /\ done \in Nat /\ bad \in Nat
  BY <1>2 DEF b, done, bad
<1>5. /\ r.scored \in BOOLEAN /\ r.ok \in Nat /\ r.bad \in Nat /\ r.bs \in BatchRecords
      /\ r.bs.failures = b.failures /\ r.bs.stop = b.stop
      /\ r.bs.failed = b.failed \/ r.bs.failed = bad
      /\ r.scored = TRUE => /\ running = 0 /\ r.ok + r.bad > 0 /\ r.bs.failed = bad
                            /\ b.failed + r.bad = bad
  BY <1>4, CurrentBatchFacts
<1> HIDE DEF r
<1>6. r = BatchResult(w, c)
  BY <1>1 DEF r, b, done, bad
<1>7. QED
  BY <1>3, <1>5, <1>6 DEF b, bad

LEMMA EvaluateFacts ==
  ASSUME Ground, NEW w \in CopyRecords
  PROVE  LET v == EvaluateCompletedBatches(w) IN
         /\ v \in CopyRecords /\ v.node = w.node /\ v.comp = w.comp
         /\ v.cr.status = w.cr.status /\ v.cr.prio = w.cr.prio /\ v.cr.offset = w.cr.offset
         /\ \A c \in AllCompartments : Unscored(w, v, c) \/ (w.cr.status # "complete" /\ Judged(w, v, c))
         /\ Scored(w) = {} => \A c \in AllCompartments : Unscored(w, v, c)
         /\ w.cr.status # "complete" =>
              \A c \in CurrentCompartments \cap AllCompartments :
                BatchResult(w, c).scored = FALSE => v.batch[c] = BatchResult(w, c).bs
<1>1. CASE w.cr.status = "complete"
  BY <1>1 DEF EvaluateCompletedBatches, Unscored
<1>2. CASE w.cr.status # "complete"
  <2> DEFINE Score(c) == LET r == BatchResult(w, c) IN
               EvaluateBatchResult(StrategyOf(c), r.bs, r.ok, r.bad, Cardinality(NodesOf(w, c)))
             After(c) == IF BatchResult(w, c).scored THEN Score(c) ELSE BatchResult(w, c).bs
             batches == [c \in AllCompartments |-> IF c \in CurrentCompartments THEN After(c) ELSE w.batch[c]]
             stored == [c \in AllCompartments |->
                          IF c \in Scored(w) THEN StoredBatch(c, batches[c]) ELSE w.cr.batch[c]]
             v == [w EXCEPT !.batch = batches, !.cr.batch = stored]
  <2>1. EvaluateCompletedBatches(w) = v
    BY <1>2 DEF EvaluateCompletedBatches
  <2>2. ASSUME NEW c \in AllCompartments
        PROVE  /\ BatchResult(w, c).scored \in BOOLEAN /\ BatchResult(w, c).bs \in BatchRecords
               /\ BatchResult(w, c).scored = TRUE => Score(c) \in BatchRecords
    <3> DEFINE r == BatchResult(w, c)
               s == StrategyOf(c)
               total == Cardinality(NodesOf(w, c))
    <3>1. /\ r.scored \in BOOLEAN /\ r.ok \in Nat /\ r.bad \in Nat /\ r.bs \in BatchRecords
          /\ r.scored = TRUE => r.ok + r.bad > 0
      BY ResultTypes
    <3>2. s.failures \in Nat /\ s.threshold \in Nat /\ s.threshold <= 100 /\ total \in Nat
      BY StrategyTypesOf, CountTypes
    <3>3. Score(c) = EvaluateBatchResult(s, r.bs, r.ok, r.bad, total)
      OBVIOUS
    <3> HIDE DEF r, s, total, Score
    <3>4. ASSUME r.scored = TRUE PROVE Score(c) \in BatchRecords
      <4> DEFINE ok == r.ok
                 bad == r.bad
                 bs == r.bs
      <4>1. ok \in Nat /\ bad \in Nat /\ bs \in BatchRecords /\ ok + bad > 0
        BY <3>1, <3>4
      <4> HIDE DEF ok, bad, bs
      <4>2. EvaluateBatchResult(s, bs, ok, bad, total) \in BatchRecords
        BY <3>2, <4>1, BatchResultFacts
      <4>3. QED
        BY <3>3, <4>2 DEF ok, bad, bs
    <3>5. QED
      BY <3>1, <3>4 DEF r
  <2>3. \A c \in AllCompartments : batches[c] = IF c \in CurrentCompartments THEN After(c) ELSE w.batch[c]
    OBVIOUS
  <2> HIDE DEF Score
  <2>4. \A c \in AllCompartments : batches[c] \in BatchRecords
    BY <2>2, <2>3, CopyTypes
  <2>5. batches \in [AllCompartments -> BatchRecords]
    BY <2>4
  <2> HIDE DEF batches
  <2>6. \A c \in AllCompartments : stored[c] = IF c \in Scored(w) THEN StoredBatch(c, batches[c]) ELSE w.cr.batch[c]
    OBVIOUS
  <2>7. stored \in [AllCompartments -> BatchRecords]
    BY <2>4, BatchTypes, CopyTypes DEF StoredBatch
  <2> HIDE DEF stored
  <2>8. /\ v \in CopyRecords /\ v.node = w.node /\ v.comp = w.comp
        /\ v.cr.status = w.cr.status /\ v.cr.prio = w.cr.prio /\ v.cr.offset = w.cr.offset
        /\ v.batch = batches /\ v.cr.batch = stored
    BY <2>5, <2>7 DEF CopyRecords, StatusRecords
  <2> HIDE DEF v
  <2>9. \A c \in AllCompartments : c \in Scored(w) <=> c \in CurrentCompartments /\ BatchResult(w, c).scored = TRUE
    BY <1>2, <2>2 DEF Scored
  <2>10. \A c \in AllCompartments : c \in Scored(w) => Judged(w, v, c)
    BY <2>3, <2>6, <2>8, <2>9 DEF Judged, Score
  <2>11. \A c \in AllCompartments : c \notin Scored(w) => Unscored(w, v, c)
    BY <2>2, <2>3, <2>6, <2>8, <2>9 DEF Unscored
  <2>12. \A c \in CurrentCompartments \cap AllCompartments :
                BatchResult(w, c).scored = FALSE => v.batch[c] = BatchResult(w, c).bs
    BY <2>3, <2>8
  <2>13. QED
    BY <1>2, <2>1, <2>8, <2>10, <2>11, <2>12
<1>3. QED
  BY <1>1, <1>2

-----------------------------------------------------------------------------
(***************************************************************************)
(* The parts of a pass.                                                    *)
(***************************************************************************)
\* A review of a node changes its status only, and never to a working one.
Reviewed(nd, md) ==
  /\ md.stage = nd.stage /\ md.state = nd.state /\ md.old = nd.old
  /\ md.status = "in_progress" => nd.status = "in_progress"
  /\ md.status = "erroring" => nd.status = "erroring"
Done(w) == {n \in cluster.members : w.node[n].status = "complete"}

\* v, but for its batch states, is what introspection makes of w.
Surveyed(w, v) ==
  /\ Sound(v) /\ v.comp = w.comp
  /\ \A n \in Nodes : /\ Reviewed(w.node[n], v.node[n])
                      /\ n \notin cluster.members => v.node[n] = w.node[n]
  /\ \A n \in cluster.members :
       /\ v.node[n].status = "complete" => IsComplete(v.node[n])
       /\ IsComplete(v.node[n]) /\ v.cr.status \notin {"paused", "disabled"} => v.node[n].status = "complete"
  /\ v.cr.status = NodeWrightStatus(w)
  /\ Picked(v.cr.prio) = Picked(w.cr.prio) \ Done(v)
  /\ v.cr.offset = w.cr.offset + Cardinality(Picked(w.cr.prio) \cap Done(v))

LEMMA PruneFacts ==
  ASSUME Ground, NEW w, Sound(w)
  PROVE  LET v == PruneCompletedNodePriorities(w) IN
         /\ Sound(v) /\ v.node = w.node /\ v.comp = w.comp /\ v.batch = w.batch
         /\ v.cr.status = w.cr.status /\ v.cr.batch = w.cr.batch
         /\ Picked(v.cr.prio) = Picked(w.cr.prio) \ Done(w)
         /\ v.cr.offset = w.cr.offset + Cardinality(Picked(w.cr.prio) \cap Done(w))
<1>1. PruneCompletedNodePriorities(w) = RemoveNodePriority(w, Done(w))
  BY DEF PruneCompletedNodePriorities, Done
<1>2. Done(w) \in SUBSET Nodes /\ Positioned(w.cr.prio) /\ w \in CopyRecords
  BY DEF Done, Ground, ClusterRecords, Sound
<1>3. LET v == RemoveNodePriority(w, Done(w)) IN
      /\ v \in CopyRecords /\ Positioned(v.cr.prio)
      /\ v.node = w.node /\ v.comp = w.comp /\ v.batch = w.batch
      /\ v.cr.status = w.cr.status /\ v.cr.batch = w.cr.batch
      /\ Picked(v.cr.prio) = Picked(w.cr.prio) \ Done(w)
      /\ v.cr.offset = w.cr.offset + Cardinality(Picked(w.cr.prio) \cap Done(w))
  BY <1>2, RemoveFacts
<1>4. QED
  BY <1>1, <1>3 DEF Sound

LEMMA BeforeEvaluationFacts ==
  ASSUME Ground, NEW w, Sound(w)
  PROVE  LET v == BeforeEvaluation(w) IN
         /\ Surveyed(w, v)
         /\ Kept(w, v) \/ Renewed(w, v)
         /\ v.cr.status # "complete" \/ w.cr.status = "complete" => Kept(w, v)
<1> DEFINE s == NodeWrightStatus(w)
           t == SetStatus(w, s)
           u == IntrospectNodes(t)
           v == PruneCompletedNodePriorities(u)
<1>0. BeforeEvaluation(w) = v
  BY Zenon DEF BeforeEvaluation, Then
<1>1. /\ t \in CopyRecords /\ t.node = w.node /\ t.comp = w.comp
      /\ t.cr.status = s /\ t.cr.prio = w.cr.prio /\ t.cr.offset = w.cr.offset
      /\ Kept(w, t) \/ Renewed(w, t)
      /\ (s # "complete" \/ w.cr.status = "complete") => Kept(w, t)
  BY StatusRange, SetStatusFacts DEF Sound
<1> HIDE DEF t
<1>2. /\ u \in CopyRecords /\ u.comp = t.comp /\ u.cr = t.cr /\ u.batch = t.batch
      /\ \A n \in Nodes :
           /\ u.node[n].stage = t.node[n].stage /\ u.node[n].state = t.node[n].state
           /\ u.node[n].old = t.node[n].old
           /\ n \notin cluster.members => u.node[n] = t.node[n]
           /\ n \in cluster.members => u.node[n].status = IntrospectNode(t, n)
  BY <1>1, IntrospectNodesFacts
<1>3. \A n \in Nodes : LET r == IntrospectNode(t, n) IN
         /\ r = "in_progress" => t.node[n].status = "in_progress"
         /\ r = "erroring" => t.node[n].status = "erroring"
         /\ r = "complete" => IsComplete(t.node[n])
         /\ IsComplete(t.node[n]) /\ t.cr.status \notin {"paused", "disabled"} => r = "complete"
  BY <1>1, IntrospectNodeFacts
<1> HIDE DEF u
<1>5. Sound(u)
  BY <1>1, <1>2 DEF Sound, Entry
<1>6. /\ Sound(v)
      /\ v.node = u.node /\ v.comp = u.comp /\ v.batch = u.batch
      /\ v.cr.status = u.cr.status /\ v.cr.batch = u.cr.batch
      /\ Picked(v.cr.prio) = Picked(u.cr.prio) \ Done(u)
      /\ v.cr.offset = u.cr.offset + Cardinality(Picked(u.cr.prio) \cap Done(u))
  BY <1>5, PruneFacts
<1> HIDE DEF v
<1>7. cluster.members \in SUBSET Nodes
  BY DEF Ground, ClusterRecords
<1>8. Done(u) = Done(v)
  BY <1>6 DEF Done
<1>9. \A n \in Nodes : /\ Reviewed(w.node[n], v.node[n]) /\ Entry(v.node[n])
                       /\ n \notin cluster.members => v.node[n] = w.node[n]
  BY <1>1, <1>2, <1>3, <1>6 DEF Reviewed, Entry, Sound
<1>10. \A n \in cluster.members :
         /\ v.node[n].status = "complete" => IsComplete(v.node[n])
         /\ IsComplete(v.node[n]) /\ v.cr.status \notin {"paused", "disabled"} => v.node[n].status = "complete"
  BY <1>1, <1>2, <1>3, <1>6, <1>7 DEF IsComplete
<1>11. Surveyed(w, v)
  BY <1>1, <1>2, <1>6, <1>8, <1>9, <1>10 DEF Surveyed, Sound
<1>12. (Kept(w, t) => Kept(w, v)) /\ (Renewed(w, t) => Renewed(w, v))
  BY <1>2, <1>6 DEF Kept, Renewed
<1>13. QED
  BY <1>0, <1>1, <1>2, <1>6, <1>11, <1>12

LEMMA IntrospectFacts ==
  ASSUME Ground, NEW w, Sound(w)
  PROVE  LET u == BeforeEvaluation(w)
             v == Introspect(w)
         IN /\ Surveyed(w, v) /\ u \in CopyRecords /\ v.node = u.node /\ v.comp = u.comp
            /\ Kept(w, u) \/ Renewed(w, u)
            /\ v.cr.status # "complete" \/ w.cr.status = "complete" => Kept(w, u)
            /\ \A c \in AllCompartments : Unscored(u, v, c) \/ (v.cr.status # "complete" /\ Judged(u, v, c))
            /\ ~Introspected(w) => /\ v.node = w.node /\ v.cr = w.cr
                                   /\ \A c \in AllCompartments : Unscored(u, v, c)
            /\ v.cr.status # "complete" =>
                 \A c \in CurrentCompartments \cap AllCompartments :
                   BatchResult(u, c).scored = FALSE => v.batch[c] = BatchResult(u, c).bs
<1> DEFINE u == BeforeEvaluation(w)
           v == EvaluateCompletedBatches(u)
<1>0. Introspect(w) = v
  BY Zenon DEF Introspect, Then
<1>1. /\ Surveyed(w, u)
      /\ Kept(w, u) \/ Renewed(w, u)
      /\ u.cr.status # "complete" \/ w.cr.status = "complete" => Kept(w, u)
  BY BeforeEvaluationFacts
<1> HIDE DEF u
<1>2. u \in CopyRecords /\ Sound(u)
  BY <1>1 DEF Surveyed, Sound
<1>3. /\ v \in CopyRecords /\ v.node = u.node /\ v.comp = u.comp
      /\ v.cr.status = u.cr.status /\ v.cr.prio = u.cr.prio /\ v.cr.offset = u.cr.offset
      /\ \A c \in AllCompartments : Unscored(u, v, c) \/ (u.cr.status # "complete" /\ Judged(u, v, c))
      /\ Scored(u) = {} => \A c \in AllCompartments : Unscored(u, v, c)
      /\ u.cr.status # "complete" =>
              \A c \in CurrentCompartments \cap AllCompartments :
                BatchResult(u, c).scored = FALSE => v.batch[c] = BatchResult(u, c).bs
  BY <1>2, EvaluateFacts
<1> HIDE DEF v
<1>4. Done(u) = Done(v)
  BY <1>3 DEF Done
<1>5. Surveyed(w, v)
  BY <1>1, <1>2, <1>3, <1>4 DEF Surveyed, Sound
<1>6. ~Introspected(w) => v.node = w.node /\ v.cr = w.cr /\ Scored(u) = {}
  BY <1>0 DEF Introspected, u
<1>7. QED
  BY <1>0, <1>1, <1>2, <1>3, <1>5, <1>6 DEF u


-----------------------------------------------------------------------------
(***************************************************************************)
(* Compartments.                                                           *)
(***************************************************************************)
\* One of several matching compartments is the safest: the order is total.
LEMMA SafestMatchFacts ==
  ASSUME NEW M, M # {},
         \A m \in M : m.type \in StrategyTypes /\ m.capacity \in Nat /\ m.rank \in Nat,
         \A m, n \in M : m.rank = n.rank => m = n
  PROVE  SafestMatch(M) \in M
<1>1. PICK m1 \in M : \A n \in M : SafetyOrder(m1.type) <= SafetyOrder(n.type)
  <2> DEFINE T == {SafetyOrder(m.type) : m \in M}
  <2>1. T \subseteq Nat /\ T # {}
    BY DEF SafetyOrder, StrategyTypes
  <2> HIDE DEF T
  <2>2. PICK x \in T : \A y \in T : x <= y
    BY <2>1, LeastNumber
  <2>3. QED
    BY <2>2 DEF T
<1> DEFINE M1 == {m \in M : m.type = m1.type}
<1>2. PICK m2 \in M1 : \A n \in M1 : m2.capacity <= n.capacity
  <2> DEFINE T == {m.capacity : m \in M1}
  <2>1. T \subseteq Nat /\ T # {}
    OBVIOUS
  <2> HIDE DEF T
  <2>2. PICK x \in T : \A y \in T : x <= y
    BY <2>1, LeastNumber
  <2>3. QED
    BY <2>2 DEF T
<1> DEFINE M2 == {m \in M1 : m.capacity = m2.capacity}
<1>3. PICK m3 \in M2 : \A n \in M2 : m3.rank <= n.rank
  <2> DEFINE T == {m.rank : m \in M2}
  <2>1. T \subseteq Nat /\ T # {}
    OBVIOUS
  <2> HIDE DEF T
  <2>2. PICK x \in T : \A y \in T : x <= y
    BY <2>1, LeastNumber
  <2>3. QED
    BY <2>2 DEF T
<1>4. ASSUME NEW n \in M \ {m3} PROVE Precedes(m3, n)
  <2>1. m3 \in M /\ m3.type = m1.type /\ m3.capacity = m2.capacity
    BY <1>3
  <2>2. CASE n.type # m1.type
    <3>1. SafetyOrder(m1.type) <= SafetyOrder(n.type) /\ m1.type \in StrategyTypes /\ n.type \in StrategyTypes
      BY <1>1
    <3>2. SafetyOrder(m1.type) < SafetyOrder(n.type)
      BY <2>2, <3>1 DEF SafetyOrder, StrategyTypes
    <3>3. QED
      BY <2>1, <3>2 DEF Precedes, StrategyIsSafer
  <2>3. CASE n.type = m1.type /\ n.capacity # m2.capacity
    <3>1. m2.capacity <= n.capacity /\ m2.capacity \in Nat /\ n.capacity \in Nat
      BY <1>2, <2>3
    <3>2. QED
      BY <2>1, <2>3, <3>1 DEF Precedes
  <2>4. CASE n \in M2
    <3>1. m3.rank <= n.rank /\ m3.rank \in Nat /\ n.rank \in Nat /\ m3.rank # n.rank
      BY <1>3, <1>4, <2>1, <2>4
    <3>2. QED
      BY <2>1, <2>4, <3>1 DEF Precedes
  <2>5. QED
    BY <1>4, <2>2, <2>3, <2>4
<1>5. \E m \in M : \A n \in M \ {m} : Precedes(m, n)
  BY <1>3, <1>4
<1>6. QED
  BY <1>5 DEF SafestMatch

LEMMA AssignFacts ==
  ASSUME Ground, NEW n \in Nodes
  PROVE  /\ AssignNodeToCompartment(n) \in AllCompartments
         /\ \/ AssignNodeToCompartment(n) = DefaultCompartment /\ cluster.labels[n] \cap CurrentCompartments = {}
            \/ AssignNodeToCompartment(n) \in cluster.labels[n] \cap CurrentCompartments
<1> DEFINE Cap(c) == CalculateCeiling(Budget[c], Maximum(1, Cardinality(MatchedNodes(c))))
           Match(c) == [type |-> Strategy[c].type, rank |-> CompartmentRank[c], name |-> c, capacity |-> Cap(c)]
           C == cluster.labels[n] \cap CurrentCompartments
           matches == {Match(c) : c \in C}
<1>1. AssignNodeToCompartment(n) = IF matches = {} THEN DefaultCompartment ELSE SafestMatch(matches).name
  BY DEF AssignNodeToCompartment
<1>2. C \in SUBSET Compartments
  BY DEF Ground, ClusterRecords
<1>3. ASSUME NEW c \in C
      PROVE  Strategy[c].type \in StrategyTypes /\ CompartmentRank[c] \in Nat /\ Cap(c) \in Nat
  <2>1. c \in Compartments /\ c \in AllCompartments
    BY <1>2, <1>3 DEF AllCompartments
  <2>2. Strategy[c].type \in StrategyTypes
    BY <2>1, CompartmentsAssumption DEF ValidStrategy
  <2>3. Cap(c) \in Nat
    <3> DEFINE k == Cardinality(MatchedNodes(c))
               b == Budget[c]
               m == Maximum(1, k)
    <3>1. MatchedNodes(c) \in SUBSET Nodes
      BY DEF MatchedNodes, Ground, ClusterRecords
    <3>2. k \in Nat
      BY <3>1, NodeSets
    <3>3. (b.kind = "count" /\ b.n \in Nat) \/ (b.kind = "percent" /\ b.n \in 0..100)
      BY <2>1, CompartmentsAssumption DEF ValidBudget
    <3> HIDE DEF k, b
    <3>4. m \in Nat
      BY <3>2 DEF Maximum
    <3> HIDE DEF m
    <3>5. CalculateCeiling(b, m) \in Nat
      BY <3>3, <3>4 DEF CalculateCeiling, Maximum
    <3>6. QED
      BY <3>5 DEF b, m, k
  <2>4. QED
    BY <2>1, <2>2, <2>3, CompartmentsAssumption
<1> HIDE DEF Cap, C
<1>4. /\ \A m \in matches : m.type \in StrategyTypes /\ m.capacity \in Nat /\ m.rank \in Nat
      /\ \A m \in matches : m.name \in C
  BY <1>3
<1>5. \A l, m \in matches : l.rank = m.rank => l = m
  <2>1. \A c, d \in C : CompartmentRank[c] = CompartmentRank[d] => c = d
    BY <1>2, CompartmentsAssumption
  <2>2. QED
    BY <2>1
<1>6. C = {} <=> matches = {}
  OBVIOUS
<1> HIDE DEF matches
<1>7. matches # {} => SafestMatch(matches).name \in C
  BY <1>4, <1>5, SafestMatchFacts
<1>8. QED
  BY <1>1, <1>2, <1>6, <1>7 DEF C, AllCompartments

LEMMA CopySound ==
  ASSUME Ground, node \in [Nodes -> NodeRecords], cr \in StatusRecords, Positioned(cr.prio),
         \A n \in Nodes : Entry(node[n])
  PROVE  /\ Sound(Copy) /\ Copy.node = node /\ Copy.cr = cr /\ Copy.comp = Assignment
         /\ Assignment \in [Nodes -> AllCompartments \cup {"none"}]
         /\ \A c \in AllCompartments : \/ Copy.batch[c] = cr.batch[c]
                                       \/ (cr.batch[c] = NoBatch /\ Copy.batch[c] = FreshBatch)
<1>1. Assignment \in [Nodes -> AllCompartments \cup {"none"}]
  BY AssignFacts DEF Assignment
<1>2. \A c \in AllCompartments : \/ LoadedBatches(cr)[c] = cr.batch[c]
                                 \/ (cr.batch[c] = NoBatch /\ LoadedBatches(cr)[c] = FreshBatch)
  BY DEF LoadedBatches
<1>3. LoadedBatches(cr) \in [AllCompartments -> BatchRecords]
  <2>1. cr.batch \in [AllCompartments -> BatchRecords]
    BY DEF StatusRecords
  <2>2. QED
    BY <2>1, BatchTypes DEF LoadedBatches
<1>4. QED
  BY <1>1, <1>2, <1>3 DEF Copy, Sound, CopyRecords

-----------------------------------------------------------------------------
(***************************************************************************)
(* The rest of a pass.                                                     *)
(***************************************************************************)
LEMMA ReportFacts ==
  ASSUME Ground, NEW w, Sound(w)
  PROVE  LET v == ReportState(w) IN
         /\ Sound(v) /\ v.node = w.node /\ v.comp = w.comp /\ v.batch = w.batch
         /\ v.cr.status = w.cr.status
         /\ Picked(v.cr.prio) = Picked(w.cr.prio) \cap cluster.members
         /\ v.cr.offset = w.cr.offset + Cardinality(Picked(w.cr.prio) \ cluster.members)
         /\ \A c \in AllCompartments :
              v.cr.batch[c] = IF c \in CurrentCompartments THEN StoredBatch(c, w.batch[c]) ELSE NoBatch
<1> DEFINE S == Nodes \ cluster.members
           u == RemoveNodePriority(w, S)
           stored == [c \in AllCompartments |->
                        IF c \in CurrentCompartments THEN StoredBatch(c, w.batch[c]) ELSE NoBatch]
           v == [u EXCEPT !.cr.batch = stored]
<1>1. ReportState(w) = v
  BY DEF ReportState
<1>2. /\ u \in CopyRecords /\ Positioned(u.cr.prio)
      /\ u.node = w.node /\ u.comp = w.comp /\ u.batch = w.batch
      /\ u.cr.status = w.cr.status
      /\ Picked(u.cr.prio) = Picked(w.cr.prio) \ S
      /\ u.cr.offset = w.cr.offset + Cardinality(Picked(w.cr.prio) \cap S)
  <2>1. S \in SUBSET Nodes /\ w \in CopyRecords /\ Positioned(w.cr.prio)
    BY DEF Sound
  <2> HIDE DEF S
  <2>2. QED
    BY <2>1, RemoveFacts
<1>3. stored \in [AllCompartments -> BatchRecords]
  BY BatchTypes, CopyTypes DEF StoredBatch, Sound
<1>4. \A c \in AllCompartments :
         stored[c] = IF c \in CurrentCompartments THEN StoredBatch(c, w.batch[c]) ELSE NoBatch
  OBVIOUS
<1> HIDE DEF u, stored
<1>5. /\ v \in CopyRecords /\ v.node = u.node /\ v.comp = u.comp /\ v.batch = u.batch
      /\ v.cr.status = u.cr.status /\ v.cr.prio = u.cr.prio /\ v.cr.offset = u.cr.offset
      /\ v.cr.batch = stored
  BY <1>2, <1>3 DEF CopyRecords, StatusRecords
<1> HIDE DEF v
<1>6. Picked(w.cr.prio) \ S = Picked(w.cr.prio) \cap cluster.members
      /\ Picked(w.cr.prio) \cap S = Picked(w.cr.prio) \ cluster.members
  BY DEF Picked
<1>7. QED
  BY <1>1, <1>2, <1>4, <1>5, <1>6 DEF Sound

LEMMA PauseFacts ==
  ASSUME Ground, NEW w, Sound(w)
  PROVE  LET v == UpdateSkyhookPauseStatus(w) IN
         /\ Sound(v) /\ v.comp = w.comp /\ v.batch = w.batch
         /\ v.cr.status = "paused" /\ v.cr.prio = w.cr.prio /\ v.cr.offset = w.cr.offset
         /\ v.cr.batch = w.cr.batch
         /\ \A n \in Nodes : /\ Reviewed(w.node[n], v.node[n])
                             /\ n \notin cluster.members => v.node[n] = w.node[n]
<1> DEFINE nodes == [n \in Nodes |-> IF n \in cluster.members
                       THEN [w.node[n] EXCEPT !.status = "paused"] ELSE w.node[n]]
           v == [w EXCEPT !.cr.status = "paused", !.node = nodes]
<1>1. UpdateSkyhookPauseStatus(w) = v
  BY DEF UpdateSkyhookPauseStatus
<1>2. ASSUME NEW n \in Nodes
      PROVE  /\ nodes[n] \in NodeRecords /\ Reviewed(w.node[n], nodes[n]) /\ Entry(nodes[n])
             /\ n \notin cluster.members => nodes[n] = w.node[n]
  <2>1. w.node[n] \in NodeRecords /\ Entry(w.node[n])
    BY CopyTypes DEF Sound
  <2>2. QED
    BY <2>1 DEF NodeRecords, Reviewed, Entry, Statuses
<1>3. nodes \in [Nodes -> NodeRecords]
  BY <1>2
<1> HIDE DEF nodes
<1>4. /\ v \in CopyRecords /\ v.comp = w.comp /\ v.batch = w.batch /\ v.node = nodes
      /\ v.cr.status = "paused" /\ v.cr.prio = w.cr.prio /\ v.cr.offset = w.cr.offset
      /\ v.cr.batch = w.cr.batch
  <2>1. w \in CopyRecords /\ "paused" \in Statuses
    BY DEF Sound, Statuses
  <2>2. QED
    BY <1>3, <2>1 DEF CopyRecords, StatusRecords
<1> HIDE DEF v
<1>5. QED
  BY <1>1, <1>2, <1>4 DEF Sound

\* A node with an entry of an older version begins the upgrade.
Upgrades(nd, md) ==
  /\ nd.old = TRUE /\ nd.stage = 0 /\ md.old = TRUE
  /\ md.stage = 1 /\ md.state = "in_progress"

LEMMA UpgradeFacts ==
  ASSUME NEW nd \in NodeRecords, nd.old = TRUE, nd.stage = 0, NEW md,
         md = [nd EXCEPT !.status = "in_progress", !.stage = 1, !.state = "in_progress"]
  PROVE  md \in NodeRecords /\ Entry(md) /\ Upgrades(nd, md) /\ md.status = "in_progress"
<1>1. 1 \in 0..Stages /\ "in_progress" \in Statuses
  BY NodesAssumption DEF Statuses
<1>2. /\ md \in NodeRecords /\ md.status = "in_progress" /\ md.stage = 1 /\ md.state = "in_progress"
      /\ md.old = nd.old
  BY <1>1 DEF NodeRecords
<1>3. Entry(md) /\ Upgrades(nd, md)
  BY <1>2 DEF Entry, Upgrades
<1>4. QED
  BY <1>2, <1>3

LEMMA VersionFacts ==
  ASSUME Ground, NEW w, Sound(w)
  PROVE  LET v == HandleVersionChange(w) IN
         /\ Sound(v) /\ v.comp = w.comp
         /\ v.cr.status = w.cr.status /\ v.cr.prio = w.cr.prio /\ v.cr.offset = w.cr.offset
         /\ \A n \in Nodes :
              \/ v.node[n] = w.node[n]
              \/ n \in cluster.members /\ Upgrades(w.node[n], v.node[n]) /\ v.node[n].status = "in_progress"
         /\ Kept(w, v) \/ Renewed(w, v)
         /\ (\A n \in Nodes : w.node[n].old = FALSE) => v = w
<1> DEFINE outdated == {n \in cluster.members : w.node[n].old}
           nodes == [n \in Nodes |->
                  IF n \in outdated /\ w.node[n].stage = 0
                    THEN [w.node[n] EXCEPT !.status = "in_progress", !.stage = 1, !.state = "in_progress"]
                    ELSE w.node[n]]
           u == [w EXCEPT !.node = nodes]
           v == ResetBatches(u)
<1>1. HandleVersionChange(w) = IF outdated = {} THEN w ELSE v
  BY DEF HandleVersionChange
<1>2. ASSUME NEW n \in Nodes
      PROVE  /\ nodes[n] \in NodeRecords /\ Entry(nodes[n])
             /\ \/ nodes[n] = w.node[n]
                \/ n \in cluster.members /\ Upgrades(w.node[n], nodes[n]) /\ nodes[n].status = "in_progress"
  <2>1. w.node[n] \in NodeRecords /\ Entry(w.node[n]) /\ 1 \in 0..Stages
    BY CopyTypes, NodesAssumption DEF Sound
  <2>2. CASE n \in outdated /\ w.node[n].stage = 0
    <3>1. nodes[n] = [w.node[n] EXCEPT !.status = "in_progress", !.stage = 1, !.state = "in_progress"]
      BY <2>2
    <3>2. n \in cluster.members /\ w.node[n].old = TRUE
      BY <2>1, <2>2 DEF NodeRecords
    <3> DEFINE nd == w.node[n]
               md == nodes[n]
    <3>3. /\ nd \in NodeRecords /\ nd.old = TRUE /\ nd.stage = 0
          /\ md = [nd EXCEPT !.status = "in_progress", !.stage = 1, !.state = "in_progress"]
      BY <2>1, <2>2, <3>1, <3>2, Zenon
    <3> HIDE DEF nodes, nd, md
    <3>4. md \in NodeRecords /\ Entry(md) /\ Upgrades(nd, md) /\ md.status = "in_progress"
      BY <3>3, UpgradeFacts
    <3>5. QED
      BY <3>2, <3>4, Zenon DEF nd, md
  <2>3. CASE ~(n \in outdated /\ w.node[n].stage = 0)
    BY <2>1, <2>3
  <2>4. QED
    BY <2>2, <2>3
<1>3. nodes \in [Nodes -> NodeRecords]
  BY <1>2
<1>4. (\A n \in Nodes : w.node[n].old = FALSE) => outdated = {}
  BY DEF Ground, ClusterRecords
<1> HIDE DEF nodes
<1>5. u \in CopyRecords /\ u.comp = w.comp /\ u.batch = w.batch /\ u.node = nodes /\ u.cr = w.cr
  BY <1>3 DEF CopyRecords, Sound
<1> HIDE DEF u
<1>6. /\ v \in CopyRecords /\ v.node = u.node /\ v.comp = u.comp
      /\ v.cr.status = u.cr.status /\ v.cr.prio = u.cr.prio /\ v.cr.offset = u.cr.offset
      /\ Kept(u, v) \/ Renewed(u, v)
  BY <1>5, ResetFacts
<1> HIDE DEF v, outdated
<1>7. (Kept(u, v) => Kept(w, v)) /\ (Renewed(u, v) => Renewed(w, v)) /\ Kept(w, w)
  BY <1>5 DEF Kept, Renewed
<1>8. CASE outdated = {}
  BY <1>1, <1>7, <1>8
<1>9. CASE outdated # {}
  BY <1>1, <1>2, <1>4, <1>5, <1>6, <1>7, <1>9 DEF Sound
<1>10. QED
  BY <1>8, <1>9

LEMMA BlockFacts ==
  ASSUME Ground, NEW w, Sound(w)
  PROVE  LET v == BlockIneligible(w) IN
         /\ Sound(v) /\ v.comp = w.comp /\ v.batch = w.batch /\ v.cr = w.cr
         /\ \A n \in Nodes :
              /\ Reviewed(w.node[n], v.node[n])
              /\ n \notin cluster.members \/ Eligible(n) \/ IsComplete(w.node[n]) => v.node[n] = w.node[n]
<1> DEFINE Held(n) == n \in cluster.members /\ CurrentCompartments # {} /\ ~Eligible(n) /\ ~IsComplete(w.node[n])
           nodes == [n \in Nodes |-> IF Held(n) THEN [w.node[n] EXCEPT !.status = "blocked"] ELSE w.node[n]]
           v == [w EXCEPT !.node = nodes]
<1>1. BlockIneligible(w) = v
  BY DEF BlockIneligible
<1>2. ASSUME NEW n \in Nodes
      PROVE  /\ nodes[n] \in NodeRecords /\ Reviewed(w.node[n], nodes[n]) /\ Entry(nodes[n])
             /\ ~Held(n) => nodes[n] = w.node[n]
  <2>1. w.node[n] \in NodeRecords /\ Entry(w.node[n])
    BY CopyTypes DEF Sound
  <2>2. QED
    BY <2>1 DEF NodeRecords, Reviewed, Entry, Statuses
<1>3. nodes \in [Nodes -> NodeRecords]
  BY <1>2
<1> HIDE DEF nodes
<1>4. v \in CopyRecords /\ v.comp = w.comp /\ v.batch = w.batch /\ v.node = nodes /\ v.cr = w.cr
  BY <1>3 DEF CopyRecords, Sound
<1> HIDE DEF v
<1>5. QED
  BY <1>1, <1>2, <1>4 DEF Sound

LEMMA SelectFacts ==
  ASSUME Ground, NEW w
  PROVE  SelectNodes(w) \in SUBSET cluster.members
BY DEF SelectNodes, GetNodesForNextBatch, StatusIs, NodesOf, CreateNewBatch, FirstOf, Ground, ClusterRecords

\* A node on its way to the loop over the selected nodes.
Moved(nd, md) ==
  /\ md.old = nd.old /\ (md.status = "erroring" => nd.status = "erroring")
  /\ \/ /\ md.stage = nd.stage /\ md.state = nd.state
        /\ md.status = "in_progress" => nd.status = "in_progress"
     \/ Upgrades(nd, md)

\* v is what a pass that selects nodes makes of its copy w before it selects.
Readied(w, v) ==
  /\ Sound(v) /\ v.comp = w.comp
  /\ \A n \in Nodes : Moved(w.node[n], v.node[n]) /\ (n \notin cluster.members => v.node[n] = w.node[n])
  /\ Picked(v.cr.prio) = Picked(w.cr.prio) /\ v.cr.offset = w.cr.offset
  /\ \A n \in cluster.members : IsComplete(v.node[n]) => n \notin Picked(v.cr.prio)

LEMMA RunStatus ==
  ASSUME mode = "run", NEW w
  PROVE  NodeWrightStatus(w) \notin {"paused", "disabled"}
<1>1. CollectNodeStatus(w) \notin {"paused", "disabled"}
  BY DEF CollectNodeStatus
<1>2. QED
  BY <1>1 DEF NodeWrightStatus

LEMMA ReadyFacts ==
  ASSUME Ground, mode = "run", NEW w, Sound(w), ~Introspected(w)
  PROVE  Readied(w, Prepare(HandleVersionChange(Introspect(w))))
<1> DEFINE w1 == Introspect(w)
           w2 == HandleVersionChange(w1)
           w3 == HandleVersionChange(w2)
           w4 == Introspect(w3)
           w5 == PruneCompletedNodePriorities(w4)
           w6 == BlockIneligible(w5)
<1>0. Prepare(w2) = w6
  BY Zenon DEF Prepare, Then
<1>1. Surveyed(w, w1) /\ w1.node = w.node /\ w1.cr = w.cr
  BY IntrospectFacts
<1> HIDE DEF w1
<1>2. Sound(w1) /\ cluster.members \in SUBSET Nodes
  BY <1>1 DEF Surveyed, Ground, ClusterRecords
<1>3. /\ Sound(w2) /\ w2.comp = w1.comp /\ w2.cr.prio = w1.cr.prio /\ w2.cr.offset = w1.cr.offset
      /\ \A n \in Nodes :
              \/ w2.node[n] = w1.node[n]
              \/ n \in cluster.members /\ Upgrades(w1.node[n], w2.node[n]) /\ w2.node[n].status = "in_progress"
  BY <1>2, VersionFacts
<1> HIDE DEF w2
<1>4. /\ Sound(w3) /\ w3.comp = w2.comp /\ w3.cr.prio = w2.cr.prio /\ w3.cr.offset = w2.cr.offset
      /\ \A n \in Nodes :
              \/ w3.node[n] = w2.node[n]
              \/ n \in cluster.members /\ Upgrades(w2.node[n], w3.node[n]) /\ w3.node[n].status = "in_progress"
  BY <1>3, VersionFacts
<1> HIDE DEF w3
<1>5. Surveyed(w3, w4)
  BY <1>4, IntrospectFacts
<1> HIDE DEF w4
<1>6. Sound(w4)
  BY <1>5 DEF Surveyed
<1>7. /\ Sound(w5) /\ w5.node = w4.node /\ w5.comp = w4.comp
      /\ Picked(w5.cr.prio) = Picked(w4.cr.prio) \ Done(w4)
      /\ w5.cr.offset = w4.cr.offset + Cardinality(Picked(w4.cr.prio) \cap Done(w4))
  BY <1>6, PruneFacts
<1> HIDE DEF w5
<1>8. /\ Sound(w6) /\ w6.comp = w5.comp /\ w6.cr = w5.cr
      /\ \A n \in Nodes :
              /\ Reviewed(w5.node[n], w6.node[n])
              /\ n \notin cluster.members => w6.node[n] = w5.node[n]
  BY <1>7, BlockFacts
<1> HIDE DEF w6
<1>9. ASSUME NEW n \in Nodes PROVE Moved(w.node[n], w3.node[n]) /\ (n \notin cluster.members => w3.node[n] = w.node[n])
  <2>1. w2.node[n] = w.node[n] \/ (n \in cluster.members /\ Upgrades(w.node[n], w2.node[n]) /\ w2.node[n].status = "in_progress")
    BY <1>1, <1>3
  <2>2. w3.node[n] = w2.node[n] \/ (n \in cluster.members /\ Upgrades(w2.node[n], w3.node[n]) /\ w3.node[n].status = "in_progress")
    BY <1>4
  <2>3. QED
    BY <2>1, <2>2 DEF Moved, Upgrades
<1>10. ASSUME NEW n \in Nodes PROVE Moved(w.node[n], w6.node[n]) /\ (n \notin cluster.members => w6.node[n] = w.node[n])
  <2>1. Reviewed(w3.node[n], w4.node[n]) /\ (n \notin cluster.members => w4.node[n] = w3.node[n])
    BY <1>5 DEF Surveyed
  <2>2. Reviewed(w4.node[n], w6.node[n]) /\ (n \notin cluster.members => w6.node[n] = w4.node[n])
    BY <1>7, <1>8
  <2>3. QED
    BY <1>9, <2>1, <2>2 DEF Moved, Upgrades, Reviewed
<1>11. \A n \in cluster.members : IsComplete(w.node[n]) => n \notin Picked(w.cr.prio)
  <2>1. w1.cr.status \notin {"paused", "disabled"}
    BY <1>1, RunStatus DEF Surveyed
  <2>2. \A n \in cluster.members : IsComplete(w1.node[n]) => n \in Done(w1)
    BY <1>1, <2>1 DEF Surveyed, Done
  <2>3. QED
    BY <1>1, <2>2 DEF Surveyed
<1>12. ASSUME NEW n \in cluster.members, IsComplete(w4.node[n]) \/ IsComplete(w6.node[n])
       PROVE  n \notin Picked(w.cr.prio)
  <2>1. n \in Nodes
    BY <1>2
  <2>2. IsComplete(w6.node[n])
    BY <1>7, <1>8, <1>12, <2>1 DEF IsComplete, Reviewed
  <2>3. IsComplete(w.node[n])
    BY <1>10, <2>1, <2>2 DEF Moved, Upgrades, IsComplete
  <2>4. QED
    BY <1>11, <2>3
<1>13. Picked(w.cr.prio) \cap Done(w4) = {}
  BY <1>5, <1>12 DEF Surveyed, Done
<1>14. Picked(w6.cr.prio) = Picked(w.cr.prio) /\ w6.cr.offset = w.cr.offset
  <2>1. Picked(w4.cr.prio) = Picked(w.cr.prio) /\ Picked(w5.cr.prio) = Picked(w.cr.prio)
    BY <1>1, <1>3, <1>4, <1>5, <1>7, <1>13 DEF Surveyed
  <2>2. Cardinality(Picked(w3.cr.prio) \cap Done(w4)) = 0 /\ Cardinality(Picked(w4.cr.prio) \cap Done(w4)) = 0
    BY <1>1, <1>3, <1>4, <1>13, <2>1, FS_EmptySet
  <2>3. w.cr.offset \in Nat
    BY DEF Sound, CopyRecords, StatusRecords
  <2>4. w4.cr.offset = w.cr.offset + 0
    BY <1>1, <1>3, <1>4, <1>5, <2>2 DEF Surveyed
  <2>5. w5.cr.offset = w4.cr.offset + 0
    BY <1>7, <2>2
  <2>6. QED
    BY <1>8, <2>1, <2>3, <2>4, <2>5
<1>15. w6.comp = w.comp
  BY <1>1, <1>3, <1>4, <1>5, <1>7, <1>8 DEF Surveyed
<1>16. Readied(w, w6)
  BY <1>8, <1>10, <1>12, <1>14, <1>15 DEF Readied
<1>17. QED
  BY <1>0, <1>16 DEF w2, w1

-----------------------------------------------------------------------------
(***************************************************************************)
(* Types.  An entry has a state when it has a stage, everywhere it is      *)
(* kept, and the copy of a pass has its picks in order too.                *)
(***************************************************************************)
PassRecords ==
  [pc: {"idle", "run", "save"}, snap: [Nodes -> NodeRecords], todo: SUBSET Nodes, mem: CopyRecords]

TypeInv ==
  /\ TypeOK
  /\ Positioned(pass.mem.cr.prio)
  /\ \A n \in Nodes : Entry(node[n]) /\ Entry(pass.snap[n]) /\ Entry(pass.mem.node[n])
  /\ \A n \in Nodes : job[n].phase # "none" => job[n].stage > 0

LEMMA BlankTypes ==
  /\ BlankNode \in NodeRecords /\ Entry(BlankNode) /\ NoJob \in JobRecords
  /\ BlankStatus \in StatusRecords /\ Positioned(BlankStatus.prio)
  /\ IdlePass \in PassRecords /\ Positioned(IdlePass.mem.cr.prio)
  /\ \A n \in Nodes : Entry(IdlePass.snap[n]) /\ Entry(IdlePass.mem.node[n])
<1>1. BlankNode \in NodeRecords /\ Entry(BlankNode)
  BY NodesAssumption DEF BlankNode, NodeRecords, Entry, Statuses
<1>2. NoJob \in JobRecords
  BY NodesAssumption DEF NoJob, JobRecords
<1> DEFINE prio == [n \in Nodes |-> 0]
           batches == [c \in AllCompartments |-> NoBatch]
<1>3. prio \in [Nodes -> Nat] /\ \A n \in Nodes : ~(prio[n] > 0)
  OBVIOUS
<1>4. Positioned(prio)
  BY <1>3 DEF Positioned
<1>5. batches \in [AllCompartments -> BatchRecords]
  BY BatchTypes
<1>6. BlankStatus = [status |-> "unknown", prio |-> prio, offset |-> 0, batch |-> batches]
  BY DEF BlankStatus
<1> HIDE DEF prio, batches
<1>7. BlankStatus \in StatusRecords /\ BlankStatus.prio = prio
  BY <1>3, <1>5, <1>6 DEF StatusRecords, Statuses
<1> DEFINE nodes == [n \in Nodes |-> BlankNode]
           comp == [n \in Nodes |-> "none"]
           mem == [node |-> nodes, comp |-> comp, cr |-> BlankStatus, batch |-> batches]
<1>8. /\ nodes \in [Nodes -> NodeRecords] /\ comp \in [Nodes -> AllCompartments \cup {"none"}]
      /\ \A n \in Nodes : Entry(nodes[n])
  BY <1>1
<1>9. IdlePass = [pc |-> "idle", snap |-> nodes, todo |-> {}, mem |-> mem]
  BY DEF IdlePass, batches
<1> HIDE DEF nodes, comp
<1>10. mem \in CopyRecords
  BY <1>5, <1>7, <1>8 DEF CopyRecords
<1>11. mem.node = nodes /\ mem.cr = BlankStatus
  OBVIOUS
<1> HIDE DEF mem
<1>12. /\ IdlePass \in PassRecords /\ IdlePass.snap = nodes /\ IdlePass.mem = mem
  BY <1>8, <1>9, <1>10 DEF PassRecords
<1>13. QED
  BY <1>1, <1>2, <1>4, <1>7, <1>8, <1>11, <1>12

LEMMA TypeParts ==
  ASSUME TypeInv
  PROVE  /\ Ground /\ cluster.members \in SUBSET Nodes
         /\ node \in [Nodes -> NodeRecords] /\ job \in [Nodes -> JobRecords]
         /\ cr \in StatusRecords /\ Positioned(cr.prio)
         /\ pass \in PassRecords /\ Sound(pass.mem)
         /\ pass.mem \in CopyRecords /\ pass.snap \in [Nodes -> NodeRecords] /\ pass.todo \in SUBSET Nodes
         /\ orders \in SUBSET (Nodes \X Nat)
         /\ used \in [edits: Nat, failures: Nat, crashes: Nat]
         /\ Sound(Copy) /\ Copy.node = node /\ Copy.cr = cr /\ Copy.comp = Assignment
         /\ Assignment \in [Nodes -> AllCompartments \cup {"none"}]
         /\ \A c \in AllCompartments : \/ Copy.batch[c] = cr.batch[c]
                                       \/ (cr.batch[c] = NoBatch /\ Copy.batch[c] = FreshBatch)
<1>1. Ground /\ pass \in PassRecords /\ cluster.members \in SUBSET Nodes
  BY DEF TypeInv, TypeOK, Ground, PassRecords, ClusterRecords
<1>2. pass.mem \in CopyRecords /\ pass.snap \in [Nodes -> NodeRecords] /\ pass.todo \in SUBSET Nodes
  BY <1>1 DEF PassRecords
<1>3. Sound(pass.mem)
  BY <1>2 DEF TypeInv, Sound
<1>4. /\ node \in [Nodes -> NodeRecords] /\ job \in [Nodes -> JobRecords]
      /\ cr \in StatusRecords /\ Positioned(cr.prio) /\ \A n \in Nodes : Entry(node[n])
  BY DEF TypeInv, TypeOK
<1>5. /\ Sound(Copy) /\ Copy.node = node /\ Copy.cr = cr /\ Copy.comp = Assignment
      /\ Assignment \in [Nodes -> AllCompartments \cup {"none"}]
      /\ \A c \in AllCompartments : \/ Copy.batch[c] = cr.batch[c]
                                    \/ (cr.batch[c] = NoBatch /\ Copy.batch[c] = FreshBatch)
  BY <1>1, <1>4, CopySound
<1>6. QED
  BY <1>1, <1>2, <1>3, <1>4, <1>5 DEF TypeInv, TypeOK

\* What each step that ends a part of a pass leaves for the next.
LEMMA PassSteps ==
  ASSUME TypeInv
  PROVE  /\ PassReports => pass' = [pc |-> "save", snap |-> node, mem |-> ReportState(Copy), todo |-> cluster.members]
         /\ PassPauses => \/ pass' = pass
                          \/ pass' = [pc |-> "save", snap |-> node, mem |-> UpdateSkyhookPauseStatus(Copy),
                                      todo |-> cluster.members]
         /\ PassIntrospects => pass' = [pc |-> "save", snap |-> node, mem |-> Introspect(Copy), todo |-> cluster.members]
         /\ PassSelects =>
              LET w == Prepare(HandleVersionChange(Introspect(Copy))) IN
              pass' = [pc |-> "run", snap |-> node, mem |-> UpsertPick(w, SelectNodes(w)), todo |-> SelectNodes(w)]
<1>1. Then(Then(Copy, Introspect), HandleVersionChange) = HandleVersionChange(Introspect(Copy))
  BY Zenon DEF Then
<1>2. PassSelects =>
              LET w == Prepare(HandleVersionChange(Introspect(Copy))) IN
              pass' = [pc |-> "run", snap |-> node, mem |-> UpsertPick(w, SelectNodes(w)), todo |-> SelectNodes(w)]
  BY <1>1 DEF PassSelects
<1>3. QED
  BY <1>2 DEF PassReports, PassPauses, PassIntrospects, Save

LEMMA NewPassTypes ==
  ASSUME TypeInv, NEW w, Sound(w), NEW pc \in {"run", "save"}, NEW S \in SUBSET Nodes,
         pass' = [pc |-> pc, snap |-> node, mem |-> w, todo |-> S]
  PROVE  /\ pass' \in PassRecords /\ Positioned(pass'.mem.cr.prio)
         /\ \A n \in Nodes : Entry(pass'.snap[n]) /\ Entry(pass'.mem.node[n])
<1>1. w \in CopyRecords /\ node \in [Nodes -> NodeRecords] /\ \A n \in Nodes : Entry(node[n])
  BY DEF Sound, TypeInv, TypeOK
<1>2. pass' \in PassRecords /\ pass'.mem = w /\ pass'.snap = node
  BY <1>1 DEF PassRecords
<1>3. QED
  BY <1>1, <1>2 DEF Sound

\* TypeInv in the parts that actions change.
PassTyped == /\ pass \in PassRecords /\ Positioned(pass.mem.cr.prio)
             /\ \A n \in Nodes : Entry(pass.snap[n]) /\ Entry(pass.mem.node[n])
JobsTyped == job \in [Nodes -> JobRecords] /\ \A n \in Nodes : job[n].phase # "none" => job[n].stage > 0
NodesTyped == node \in [Nodes -> NodeRecords] /\ \A n \in Nodes : Entry(node[n])
StatusTyped == cr \in StatusRecords /\ Positioned(cr.prio)
RestTyped == /\ Ground /\ orders \in SUBSET (Nodes \X Nat)
             /\ used \in [edits: Nat, failures: Nat, crashes: Nat]

LEMMA TypeInvParts == TypeInv <=> PassTyped /\ JobsTyped /\ NodesTyped /\ StatusTyped /\ RestTyped
BY DEF TypeInv, TypeOK, PassTyped, JobsTyped, NodesTyped, StatusTyped, RestTyped, Ground, PassRecords

LEMMA PassTypes ==
  ASSUME TypeInv, PassReports \/ PassPauses \/ PassIntrospects \/ PassSelects
  PROVE  TypeInv'
<1>0. /\ Ground /\ Sound(Copy) /\ cluster.members \in SUBSET Nodes /\ job \in [Nodes -> JobRecords]
      /\ PassTyped /\ JobsTyped /\ NodesTyped /\ StatusTyped /\ RestTyped
  BY TypeParts, TypeInvParts
<1>1. PassTyped'
  <2>1. CASE PassReports
    <3>1. Sound(ReportState(Copy))
      BY <1>0, ReportFacts
    <3>2. QED
      BY <1>0, <2>1, <3>1, PassSteps, NewPassTypes DEF PassTyped
  <2>2. CASE PassPauses
    <3>1. Sound(UpdateSkyhookPauseStatus(Copy))
      BY <1>0, PauseFacts
    <3>2. CASE pass' = pass
      BY <1>0, <3>2 DEF PassTyped
    <3>3. QED
      BY <1>0, <2>2, <3>1, <3>2, PassSteps, NewPassTypes DEF PassTyped
  <2>3. CASE PassIntrospects
    <3>1. Sound(Introspect(Copy))
      BY <1>0, IntrospectFacts DEF Surveyed
    <3>2. QED
      BY <1>0, <2>3, <3>1, PassSteps, NewPassTypes DEF PassTyped
  <2>4. CASE PassSelects
    <3> DEFINE w == Prepare(HandleVersionChange(Introspect(Copy)))
               S == SelectNodes(w)
    <3>1. Sound(w)
      BY <1>0, <2>4, ReadyFacts DEF PassSelects, Reported, Readied
    <3>2. pass' = [pc |-> "run", snap |-> node, mem |-> UpsertPick(w, S), todo |-> S]
      BY <2>4, PassSteps
    <3> HIDE DEF w
    <3>3. S \in SUBSET Nodes
      BY <1>0, SelectFacts
    <3> HIDE DEF S
    <3>4. Sound(UpsertPick(w, S))
      BY <3>1, <3>3, UpsertFacts DEF Sound
    <3>5. QED
      BY <3>2, <3>3, <3>4, NewPassTypes DEF PassTyped
  <2>5. QED
    BY <2>1, <2>2, <2>3, <2>4
<1>2. job' \in {job, ResumedJobs} \/ job' = [n \in Nodes |-> IF job[n].phase = "active"
                                               THEN [job[n] EXCEPT !.phase = "suspended"] ELSE job[n]]
  BY DEF PassReports, PassPauses, PassIntrospects, PassSelects
<1>3. JobsTyped'
  BY <1>0, <1>2 DEF JobsTyped, ResumedJobs, JobRecords
<1>4. UNCHANGED <<mode, policy, cluster, node, cr, orders, used>>
  BY DEF PassReports, PassPauses, PassIntrospects, PassSelects
<1>5. NodesTyped' /\ StatusTyped' /\ RestTyped'
  BY <1>0, <1>4 DEF NodesTyped, StatusTyped, RestTyped, Ground
<1>6. QED
  BY <1>1, <1>3, <1>5, TypeInvParts, PTL

\* The stage a node that is not complete goes to next.
LEMMA NextStageFacts ==
  ASSUME NEW nd \in NodeRecords, Entry(nd), ~IsComplete(nd)
  PROVE  NextStage(nd) \in 0..Stages /\ NextStage(nd) > 0
BY NodesAssumption DEF NodeRecords, Entry, IsComplete, NextStage

LEMMA NodeOrderFacts ==
  ASSUME NEW w \in CopyRecords, NEW n \in Nodes
  PROVE  NodeOrder(w, n) \in Nat
<1>1. w.cr.offset \in Nat /\ w.cr.prio[n] \in Nat
  BY DEF CopyRecords, StatusRecords
<1>2. QED
  BY <1>1 DEF NodeOrder, InPrio

\* The two outcomes of RunNode: the Job of the next stage is created, or nothing is, and a
\* Job that is over may be deleted.
Creates(n) ==
  LET w == pass.mem
      v == pass'.mem
      stage == NextStage(w.node[n])
  IN /\ n \in cluster.members /\ ~IsComplete(w.node[n]) /\ job[n].phase \in {"none", "succeeded"}
     /\ job' = [job EXCEPT ![n] = [phase |-> "active", stage |-> stage]]
     /\ orders' = orders \cup {<<n, NodeOrder(w, n)>>}
     /\ \A m \in Nodes \ {n} : v.node[m] = w.node[m]
     /\ v.node[n].status = "in_progress" /\ v.node[n].stage = stage /\ v.node[n].state = "in_progress"
     /\ v.node[n].old = w.node[n].old /\ v.node[n] \in NodeRecords /\ stage > 0 /\ stage \in 0..Stages

Leaves(n) ==
  /\ pass'.mem.node = pass.mem.node
  /\ job' = job \/ (job[n].phase \in {"failed", "succeeded"} /\ job' = [job EXCEPT ![n] = NoJob])
  /\ orders' = orders

LEMMA RunFacts ==
  ASSUME TypeInv, NEW n \in Nodes, RunNode(n)
  PROVE  /\ pass.pc = "run" /\ n \in pass.todo /\ pass'.pc = "run" /\ pass'.snap = pass.snap
         /\ pass'.todo = pass.todo \ {n} /\ pass' \in PassRecords
         /\ pass'.mem.cr = pass.mem.cr /\ pass'.mem.comp = pass.mem.comp /\ pass'.mem.batch = pass.mem.batch
         /\ UNCHANGED <<mode, policy, cluster, node, cr, used>>
         /\ Creates(n) \/ Leaves(n)
<1> DEFINE w == pass.mem
           stage == NextStage(w.node[n])
           nd == [w.node[n] EXCEPT !.status = "in_progress", !.stage = stage, !.state = "in_progress"]
           Go == /\ n \in cluster.members /\ ~IsComplete(w.node[n])
                 /\ job[n].phase = "none" \/ (job[n].phase = "succeeded" /\ job[n].stage # stage)
<1>0. pass \in PassRecords /\ w \in CopyRecords /\ Sound(w)
  BY TypeParts
<1>1. w.node[n] \in NodeRecords /\ Entry(w.node[n])
  BY <1>0, CopyTypes DEF Sound
<1>2. pass.pc = "run" /\ n \in pass.todo /\ UNCHANGED <<mode, policy, cluster, node, cr, used>>
  BY DEF RunNode, NextOf
<1>3. CASE Go
  <2>1. /\ job' = [job EXCEPT ![n] = [phase |-> "active", stage |-> stage]]
        /\ orders' = orders \cup {<<n, NodeOrder(w, n)>>}
        /\ pass' = [pass EXCEPT !.todo = @ \ {n}, !.mem.node[n] = nd]
    BY <1>3 DEF RunNode
  <2>2. stage \in 0..Stages /\ stage > 0
    BY <1>1, <1>3, NextStageFacts
  <2> HIDE DEF stage
  <2>3. nd \in NodeRecords /\ nd.status = "in_progress" /\ nd.stage = stage /\ nd.state = "in_progress"
        /\ nd.old = w.node[n].old
    <3>1. "in_progress" \in Statuses
      BY DEF Statuses
    <3>2. QED
      BY <1>1, <2>2, <3>1 DEF NodeRecords
  <2> HIDE DEF nd
  <2>4. /\ pass' \in PassRecords /\ pass'.pc = pass.pc /\ pass'.snap = pass.snap /\ pass'.todo = pass.todo \ {n}
        /\ pass'.mem.cr = w.cr /\ pass'.mem.comp = w.comp /\ pass'.mem.batch = w.batch
        /\ pass'.mem.node = [w.node EXCEPT ![n] = nd]
    BY <1>0, <2>1, <2>3 DEF PassRecords, CopyRecords
  <2>5. pass'.mem.node[n] = nd /\ \A m \in Nodes \ {n} : pass'.mem.node[m] = w.node[m]
    BY <1>0, <2>4, CopyTypes
  <2>6. Creates(n)
    BY <1>3, <2>1, <2>2, <2>3, <2>5 DEF Creates, stage
  <2>7. QED
    BY <1>2, <2>4, <2>6
<1>4. CASE ~Go
  <2>1. /\ pass' = [pass EXCEPT !.todo = @ \ {n}] /\ orders' = orders
        /\ job' = job \/ (job[n].phase \in {"failed", "succeeded"} /\ job' = [job EXCEPT ![n] = NoJob])
    BY <1>4 DEF RunNode
  <2>2. /\ pass' \in PassRecords /\ pass'.pc = pass.pc /\ pass'.snap = pass.snap /\ pass'.todo = pass.todo \ {n}
        /\ pass'.mem = w
    BY <1>0, <2>1 DEF PassRecords
  <2>3. Leaves(n)
    BY <2>1, <2>2 DEF Leaves
  <2>4. QED
    BY <1>2, <2>2, <2>3
<1>5. QED
  BY <1>3, <1>4

LEMMA RunTypes ==
  ASSUME TypeInv, NEW n \in Nodes, RunNode(n)
  PROVE  TypeInv'
<1>0. /\ PassTyped /\ JobsTyped /\ NodesTyped /\ StatusTyped /\ RestTyped /\ pass.mem \in CopyRecords
  BY TypeParts, TypeInvParts
<1>1. /\ pass' \in PassRecords /\ pass'.snap = pass.snap /\ pass'.mem.cr = pass.mem.cr
      /\ UNCHANGED <<mode, policy, cluster, node, cr, used>>
      /\ Creates(n) \/ Leaves(n)
  BY RunFacts
<1>2. NodesTyped' /\ StatusTyped' /\ Ground' /\ used' \in [edits: Nat, failures: Nat, crashes: Nat]
  BY <1>0, <1>1 DEF NodesTyped, StatusTyped, RestTyped, Ground
<1>3. PassTyped'
  <2>1. \A m \in Nodes : Entry(pass'.mem.node[m])
    BY <1>0, <1>1 DEF PassTyped, Creates, Leaves, Entry
  <2>2. QED
    BY <1>0, <1>1, <2>1 DEF PassTyped
<1>4. JobsTyped'
  BY <1>0, <1>1, BlankTypes DEF JobsTyped, Creates, Leaves, JobRecords, NoJob
<1>5. RestTyped'
  <2>1. NodeOrder(pass.mem, n) \in Nat
    BY <1>0, NodeOrderFacts
  <2>2. orders' \in SUBSET (Nodes \X Nat)
    BY <1>0, <1>1, <2>1 DEF RestTyped, Creates, Leaves
  <2>3. QED
    BY <1>2, <2>2 DEF RestTyped
<1>6. QED
  BY <1>2, <1>3, <1>4, <1>5, TypeInvParts, PTL

LEMMA SavedFacts ==
  ASSUME TypeInv, NEW n \in Nodes
  PROVE  /\ SavedNode(n) \in NodeRecords /\ Entry(SavedNode(n)) /\ SavedNode(n).old = node[n].old
         /\ SavedNode(n).status = node[n].status \/ SavedNode(n).status = pass.mem.node[n].status
         /\ pass.snap[n].status = pass.mem.node[n].status => SavedNode(n).status = node[n].status
         /\ pass.snap[n].status # pass.mem.node[n].status => SavedNode(n).status = pass.mem.node[n].status
         /\ \/ SavedNode(n).stage = node[n].stage /\ SavedNode(n).state = node[n].state
            \/ /\ SavedNode(n).stage = pass.mem.node[n].stage /\ SavedNode(n).state = pass.mem.node[n].state
               /\ pass.snap[n].stage # pass.mem.node[n].stage \/ pass.snap[n].state # pass.mem.node[n].state
<1> DEFINE before == pass.snap[n]
           after == pass.mem.node[n]
           old == node[n]
           same == before.stage = after.stage /\ before.state = after.state
           status == IF before.status = after.status THEN old.status ELSE after.status
           stage == IF same THEN old.stage ELSE after.stage
           state == IF same THEN old.state ELSE after.state
           v == [old EXCEPT !.status = status, !.stage = stage, !.state = state]
<1>1. before \in NodeRecords /\ after \in NodeRecords /\ old \in NodeRecords
      /\ Entry(before) /\ Entry(after) /\ Entry(old)
  <2>1. pass.mem.node \in [Nodes -> NodeRecords] /\ pass.snap \in [Nodes -> NodeRecords]
        /\ node \in [Nodes -> NodeRecords]
    BY TypeParts, CopyTypes
  <2>2. QED
    BY <2>1 DEF TypeInv
<1>2. SavedNode(n) = v
  BY DEF SavedNode
<1> HIDE DEF before, after, old
<1>3. /\ status \in Statuses /\ stage \in 0..Stages /\ state \in {"none", "in_progress", "erroring", "complete"}
      /\ stage = 0 <=> state = "none"
  BY <1>1 DEF NodeRecords, Entry
<1>4. /\ (status = old.status /\ before.status = after.status) \/ (status = after.status /\ before.status # after.status)
      /\ \/ stage = old.stage /\ state = old.state
         \/ stage = after.stage /\ state = after.state /\ (before.stage # after.stage \/ before.state # after.state)
  OBVIOUS
<1> HIDE DEF status, stage, state, same
<1>5. v \in NodeRecords /\ v.status = status /\ v.stage = stage /\ v.state = state /\ v.old = old.old
  BY <1>1, <1>3 DEF NodeRecords
<1> HIDE DEF v
<1>6. Entry(v)
  BY <1>3, <1>5 DEF Entry
<1>7. QED
  BY <1>2, <1>4, <1>5, <1>6 DEF before, after, old

LEMMA SaveTypes ==
  ASSUME TypeInv, NEW n \in Nodes, SaveNode(n)
  PROVE  TypeInv'
<1> DEFINE changed == pass.snap[n] # pass.mem.node[n]
           after == IF changed /\ n \in cluster.members THEN SavedNode(n) ELSE node[n]
           mem == IF changed /\ IsComplete(after) THEN RemoveNodePriority(pass.mem, {n}) ELSE pass.mem
<1>0. /\ Sound(pass.mem) /\ pass \in PassRecords
      /\ PassTyped /\ JobsTyped /\ NodesTyped /\ StatusTyped /\ RestTyped
  BY TypeParts, TypeInvParts
<1>1. /\ node' = [node EXCEPT ![n] = after] /\ pass' = [pass EXCEPT !.todo = @ \ {n}, !.mem = mem]
      /\ UNCHANGED <<mode, policy, cluster, job, cr, orders, used>>
  BY DEF SaveNode
<1>2. after \in NodeRecords /\ Entry(after)
  BY <1>0, SavedFacts DEF NodesTyped
<1>3. Sound(mem)
  <2>1. {n} \in SUBSET Nodes /\ pass.mem \in CopyRecords /\ Positioned(pass.mem.cr.prio)
    BY <1>0 DEF Sound
  <2> DEFINE S == {n}
  <2> HIDE DEF S
  <2>2. Sound(RemoveNodePriority(pass.mem, S))
    BY <1>0, <2>1, RemoveFacts DEF Sound, S
  <2>3. QED
    BY <1>0, <2>2 DEF S
<1> HIDE DEF after, mem
<1>4. NodesTyped'
  BY <1>0, <1>1, <1>2 DEF NodesTyped
<1>5. PassTyped'
  <2>1. pass' \in PassRecords /\ pass'.mem = mem /\ pass'.snap = pass.snap
    BY <1>0, <1>1, <1>3 DEF PassRecords, Sound
  <2>2. QED
    BY <1>0, <1>3, <2>1 DEF PassTyped, Sound
<1>6. JobsTyped' /\ StatusTyped' /\ RestTyped'
  BY <1>0, <1>1 DEF JobsTyped, StatusTyped, RestTyped, Ground
<1>7. QED
  BY <1>4, <1>5, <1>6, TypeInvParts, PTL

LEMMA EndTypes ==
  ASSUME TypeInv, RunEnds \/ SaveStatus \/ Crash
  PROVE  TypeInv'
<1>0. /\ PassTyped /\ JobsTyped /\ NodesTyped /\ StatusTyped /\ RestTyped /\ Ground
      /\ cluster.members \in SUBSET Nodes /\ Sound(pass.mem)
  BY TypeParts, TypeInvParts
<1>1. UNCHANGED <<mode, policy, cluster, node, job, orders>>
  BY DEF RunEnds, SaveStatus, Crash
<1>2. PassTyped'
  <2>1. CASE RunEnds
    <3>1. pass' \in PassRecords /\ pass'.mem = pass.mem /\ pass'.snap = pass.snap
      BY <1>0, <2>1 DEF RunEnds, PassTyped, PassRecords
    <3>2. QED
      BY <1>0, <3>1 DEF PassTyped
  <2>2. CASE pass' = IdlePass
    BY <2>2, BlankTypes DEF PassTyped
  <2>3. QED
    BY <2>1, <2>2 DEF SaveStatus, Crash
<1>3. StatusTyped'
  <2>1. cr' = cr \/ cr' = pass.mem.cr
    BY DEF RunEnds, SaveStatus, Crash
  <2>2. pass.mem.cr \in StatusRecords /\ Positioned(pass.mem.cr.prio)
    BY <1>0, CopyTypes DEF Sound
  <2>3. QED
    BY <1>0, <2>1, <2>2 DEF StatusTyped
<1>4. RestTyped'
  <2>1. used' = used \/ used' = [used EXCEPT !.crashes = @ + 1]
    BY DEF RunEnds, SaveStatus, Crash
  <2>2. QED
    BY <1>0, <1>1, <2>1 DEF RestTyped, Ground
<1>5. JobsTyped' /\ NodesTyped'
  BY <1>0, <1>1 DEF JobsTyped, NodesTyped
<1>6. QED
  BY <1>2, <1>3, <1>4, <1>5, TypeInvParts, PTL

LEMMA JobTypes ==
  ASSUME TypeInv, NEW n \in Nodes, JobSucceeds(n) \/ AttemptFails(n) \/ JobFails(n) \/ JobExpires(n)
  PROVE  TypeInv'
<1>0. /\ PassTyped /\ JobsTyped /\ NodesTyped /\ StatusTyped /\ RestTyped /\ Ground
      /\ node[n] \in NodeRecords /\ job[n] \in JobRecords /\ Entry(node[n])
      /\ (job[n].phase # "none" => job[n].stage > 0)
  BY TypeParts, TypeInvParts DEF NodesTyped, JobsTyped
<1>1. UNCHANGED <<mode, policy, cluster, cr, pass, orders>>
  BY DEF JobSucceeds, AttemptFails, JobFails, JobExpires
<1>2. NodesTyped'
  <2>1. \/ node' = node
        \/ EntryOpen(n) /\ node' = [node EXCEPT ![n] = [@ EXCEPT !.state = "complete", !.old = FALSE]]
        \/ EntryOpen(n) /\ node' = [node EXCEPT ![n] = [@ EXCEPT !.state = "erroring", !.status = "erroring"]]
    BY DEF JobSucceeds, AttemptFails, JobFails, JobExpires, RecordErroring
  <2>2. EntryOpen(n) => node[n].stage # 0
    BY <1>0 DEF EntryOpen, Entry
  <2>3. \A nd : nd = [node[n] EXCEPT !.state = "complete", !.old = FALSE] /\ EntryOpen(n)
                => nd \in NodeRecords /\ Entry(nd)
    BY <1>0, <2>2 DEF NodeRecords, Entry
  <2>4. \A nd : nd = [node[n] EXCEPT !.state = "erroring", !.status = "erroring"] /\ EntryOpen(n)
                => nd \in NodeRecords /\ Entry(nd)
    BY <1>0, <2>2 DEF NodeRecords, Entry, Statuses
  <2>5. \/ node' = node
        \/ \E nd : nd \in NodeRecords /\ Entry(nd) /\ node' = [node EXCEPT ![n] = nd]
    BY <2>1, <2>3, <2>4
  <2>6. QED
    BY <1>0, <2>5 DEF NodesTyped
<1>3. JobsTyped'
  <2>1. \/ job' = job \/ job' = [job EXCEPT ![n] = NoJob]
        \/ \E ph \in {"succeeded", "failed"} : job[n].phase = "active" /\ job' = [job EXCEPT ![n] = [@ EXCEPT !.phase = ph]]
    BY DEF JobSucceeds, AttemptFails, JobFails, JobExpires
  <2>2. \A ph \in {"succeeded", "failed"} : job[n].phase = "active" =>
           [job[n] EXCEPT !.phase = ph] \in JobRecords /\ [job[n] EXCEPT !.phase = ph].stage > 0
    BY <1>0 DEF JobRecords
  <2>3. NoJob \in JobRecords /\ NoJob.phase = "none"
    BY BlankTypes DEF NoJob
  <2>4. QED
    BY <1>0, <2>1, <2>2, <2>3 DEF JobsTyped
<1>4. RestTyped'
  <2>1. used' = used \/ used' = [used EXCEPT !.failures = @ + 1]
    BY DEF JobSucceeds, AttemptFails, JobFails, JobExpires
  <2>2. QED
    BY <1>0, <1>1, <2>1 DEF RestTyped, Ground
<1>5. PassTyped' /\ StatusTyped'
  BY <1>0, <1>1 DEF PassTyped, StatusTyped
<1>6. QED
  BY <1>2, <1>3, <1>4, <1>5, TypeInvParts, PTL

\* What the end of an attempt or of a Job leaves.
LEMMA JobFacts ==
  ASSUME TypeInv, NEW n \in Nodes, JobSucceeds(n) \/ AttemptFails(n) \/ JobFails(n) \/ JobExpires(n)
  PROVE  /\ UNCHANGED <<mode, policy, cluster, cr, pass, orders>>
         /\ used' = used \/ used' = [used EXCEPT !.failures = @ + 1]
         /\ \A m \in Nodes \ {n} : node'[m] = node[m] /\ job'[m] = job[m]
         /\ job'[n].phase \in {"none", "active", "succeeded", "failed"}
         /\ job'[n].phase # "none" => job[n].phase = "active" /\ job'[n].stage = job[n].stage
         /\ \/ node' = node
            \/ /\ EntryOpen(n) /\ node'[n].status = node[n].status /\ node'[n].stage = node[n].stage
               /\ node'[n].state = "complete" /\ node'[n].old = FALSE
            \/ /\ EntryOpen(n) /\ node'[n].status = "erroring" /\ node'[n].stage = node[n].stage
               /\ node'[n].state = "erroring" /\ node'[n].old = node[n].old
               /\ used' = [used EXCEPT !.failures = @ + 1]
<1>0. node \in [Nodes -> NodeRecords] /\ job \in [Nodes -> JobRecords]
  BY TypeParts
<1>1. CASE JobSucceeds(n)
  <2>1. CASE EntryOpen(n)
    BY <1>0, <1>1, <2>1 DEF JobSucceeds, NodeRecords, JobRecords, NoJob
  <2>2. CASE ~EntryOpen(n)
    BY <1>0, <1>1, <2>2 DEF JobSucceeds, NodeRecords, JobRecords, NoJob
  <2>3. QED
    BY <2>1, <2>2
<1>2. CASE AttemptFails(n)
  <2>1. CASE EntryOpen(n)
    BY <1>0, <1>2, <2>1 DEF AttemptFails, RecordErroring, NodeRecords, JobRecords, NoJob
  <2>2. CASE ~EntryOpen(n)
    BY <1>0, <1>2, <2>2 DEF AttemptFails, RecordErroring, NodeRecords, JobRecords, NoJob
  <2>3. QED
    BY <2>1, <2>2
<1>3. CASE JobFails(n)
  <2>1. CASE EntryOpen(n)
    BY <1>0, <1>3, <2>1 DEF JobFails, RecordErroring, NodeRecords, JobRecords, NoJob
  <2>2. CASE ~EntryOpen(n)
    BY <1>0, <1>3, <2>2 DEF JobFails, RecordErroring, NodeRecords, JobRecords, NoJob
  <2>3. QED
    BY <2>1, <2>2
<1>4. CASE JobExpires(n)
  BY <1>0, <1>4 DEF JobExpires, NoJob
<1>5. QED
  BY <1>1, <1>2, <1>3, <1>4

LEMMA EditTypes ==
  ASSUME TypeInv, Edits
  PROVE  TypeInv'
<1>0. /\ PassTyped /\ JobsTyped /\ NodesTyped /\ StatusTyped /\ RestTyped /\ Ground
      /\ cluster \in ClusterRecords /\ node \in [Nodes -> NodeRecords]
  BY TypeParts, TypeInvParts DEF Ground
<1>1. UNCHANGED <<cr, pass>> /\ used' = [used EXCEPT !.edits = @ + 1]
  BY DEF Edits, EditVersion, EditMode, EditPolicy, EditNode, NodeLeaves, NodeJoins, Edit
<1>2. NodesTyped' /\ JobsTyped'
  <2>1. CASE EditVersion
    <3> DEFINE Older(n) == [node[n] EXCEPT !.stage = 0, !.state = "none", !.old = @ \/ node[n].stage > 0]
    <3>1. node' = [n \in Nodes |-> Older(n)] /\ job' = [n \in Nodes |-> NoJob]
      BY <2>1 DEF EditVersion
    <3>2. ASSUME NEW n \in Nodes PROVE Older(n) \in NodeRecords /\ Entry(Older(n))
      <4> DEFINE older == node[n].old \/ node[n].stage > 0
      <4>1. node[n] \in NodeRecords /\ older \in BOOLEAN /\ 0 \in 0..Stages
        BY <1>0, NodesAssumption
      <4>2. Older(n) = [node[n] EXCEPT !.stage = 0, !.state = "none", !.old = older]
        OBVIOUS
      <4> HIDE DEF older, Older
      <4>3. Older(n) \in NodeRecords /\ Older(n).stage = 0 /\ Older(n).state = "none"
        BY <4>1, <4>2 DEF NodeRecords
      <4>4. QED
        BY <4>3 DEF Entry
    <3> HIDE DEF Older
    <3>3. QED
      BY <3>1, <3>2, BlankTypes DEF NodesTyped, JobsTyped, NoJob
  <2>2. CASE \E n \in Nodes : NodeLeaves(n)
    <3>1. PICK n \in Nodes : node' = [node EXCEPT ![n] = BlankNode] /\ job' = [job EXCEPT ![n] = NoJob]
      BY <2>2 DEF NodeLeaves
    <3>2. QED
      BY <1>0, <3>1, BlankTypes DEF NodesTyped, JobsTyped, NoJob
  <2>3. CASE UNCHANGED <<node, job>>
    BY <1>0, <2>3 DEF NodesTyped, JobsTyped
  <2>4. QED
    BY <2>1, <2>2, <2>3 DEF Edits, EditMode, EditPolicy, EditNode, NodeJoins
<1>3. Ground'
  <2>1. mode' \in {"run", "pause", "disable"}
    BY <1>0 DEF Edits, EditVersion, EditMode, EditPolicy, EditNode, NodeLeaves, NodeJoins, Ground
  <2>2. policy' \in BOOLEAN
    BY <1>0 DEF Edits, EditVersion, EditMode, EditPolicy, EditNode, NodeLeaves, NodeJoins, Ground
  <2>3. cluster' \in ClusterRecords
    <3>1. ASSUME NEW n \in Nodes, EditNode(n) PROVE cluster' \in ClusterRecords
      BY <1>0, <3>1 DEF EditNode, ClusterRecords
    <3>2. ASSUME NEW n \in Nodes, NodeLeaves(n) \/ NodeJoins(n) PROVE cluster' \in ClusterRecords
      BY <1>0, <3>2 DEF NodeLeaves, NodeJoins, ClusterRecords
    <3>3. CASE UNCHANGED cluster
      BY <1>0, <3>3
    <3>4. QED
      BY <3>1, <3>2, <3>3 DEF Edits, EditVersion, EditMode, EditPolicy
  <2>4. QED
    BY <2>1, <2>2, <2>3 DEF Ground
<1>4. RestTyped'
  <2>1. orders' = orders \/ orders' = {}
    BY DEF Edits, EditVersion, EditMode, EditPolicy, EditNode, NodeLeaves, NodeJoins
  <2>2. QED
    BY <1>0, <1>1, <1>3, <2>1 DEF RestTyped
<1>5. PassTyped' /\ StatusTyped'
  BY <1>0, <1>1 DEF PassTyped, StatusTyped
<1>6. QED
  BY <1>2, <1>4, <1>5, TypeInvParts, PTL

LEMMA TypeInit == Init => TypeInv
<1> SUFFICES ASSUME Init PROVE TypeInv
  OBVIOUS
<1>1. NodesTyped /\ JobsTyped /\ StatusTyped /\ PassTyped
  BY BlankTypes DEF Init, NodesTyped, JobsTyped, StatusTyped, PassTyped, NoJob
<1>2. Ground
  <2>1. cluster \in ClusterRecords
    BY NodesAssumption, CompartmentsAssumption DEF Init, ClusterRecords
  <2>2. QED
    BY <2>1, RolloutBoundsAssumption DEF Init, Ground
<1>3. RestTyped
  BY <1>2 DEF Init, RestTyped
<1>4. QED
  BY <1>1, <1>3, TypeInvParts

LEMMA TypeStep == TypeInv /\ [Next]_vars => TypeInv'
<1> SUFFICES ASSUME TypeInv, [Next]_vars PROVE TypeInv'
  OBVIOUS
<1>1. CASE UNCHANGED vars
  BY <1>1 DEF vars, TypeInv, TypeOK
<1>2. CASE Pass
  BY <1>2, PassTypes, RunTypes, SaveTypes, EndTypes DEF Pass
<1>3. CASE Crash
  BY <1>3, EndTypes
<1>4. CASE Edits
  BY <1>4, EditTypes
<1>5. ASSUME NEW n \in Nodes, JobSucceeds(n) \/ AttemptFails(n) \/ JobFails(n) \/ JobExpires(n) PROVE TypeInv'
  BY <1>5, JobTypes
<1>6. QED
  BY <1>1, <1>2, <1>3, <1>4, <1>5 DEF Next

\* Types of every variable, of the pass's private copy too: the copy a pass saves is as
\* well-formed as the status it has read (BuildState, SaveNodesAndSkyhook).
THEOREM RolloutTypes == Spec => []TypeInv
BY TypeInit, TypeStep, PTL DEF Spec

\* Types, and the order of the picks: whatever the passes, crashes, Jobs and edits do, no
\* two nodes share a position in NodePriority and none is left out, in the status
\* (upsertPick, RemoveNodePriority, CleanupRemovedNodes).
THEOREM PicksInOrder == Spec => []TypeOK
BY RolloutTypes, PTL DEF TypeInv

-----------------------------------------------------------------------------
(***************************************************************************)
(* A compartment stops for cause.                                          *)
(*                                                                         *)
(* Every node that is erroring has failed once, and the failures counted   *)
(* against a compartment are never more than its checkpoint of failed      *)
(* nodes.  A pass may move the checkpoint down in its copy, below the      *)
(* failures counted, but then no node is left to fail the batch with.      *)
(***************************************************************************)
Threshold(c) == IF HasPolicy THEN Strategy[c].failures ELSE 0

Warranted(bs, threshold, k) == bs.stop = TRUE => threshold > 0 /\ k >= threshold
Charged(bs, threshold, k) ==
  bs.failures <= bs.failed /\ bs.failed <= k /\ Warranted(bs, threshold, k)

Erring(nodes) == {n \in Nodes : nodes[n].status = "erroring"}

\* The copy w of a pass, when k attempts have failed.
Accounted(w, k) ==
  \A c \in AllCompartments :
    /\ Failed(w, c) <= k
    /\ Charged(w.cr.batch[c], Threshold(c), k)
    /\ w.batch[c].failed <= k /\ Warranted(w.batch[c], Threshold(c), k)
    /\ w.batch[c].failures <= w.batch[c].failed \/ Failed(w, c) <= w.batch[c].failed

LEMMA ThresholdIs ==
  ASSUME NEW c \in AllCompartments
  PROVE  StrategyOf(c).failures = Threshold(c) /\ Threshold(c) \in Nat
<1>1. ValidStrategy(Strategy[c])
  BY CompartmentsAssumption
<1>2. CASE HasPolicy
  BY <1>1, <1>2 DEF StrategyOf, Threshold, Default, ValidStrategy
<1>3. CASE ~HasPolicy
  BY <1>3 DEF StrategyOf, Threshold, CreateLegacyDefaultStrategy, Default
<1>4. QED
  BY <1>2, <1>3

LEMMA BlankCharged ==
  ASSUME NEW k \in Nat, NEW t
  PROVE  Charged(FreshBatch, t, k) /\ Charged(NoBatch, t, k)
BY DEF Charged, Warranted, FreshBatch, NoBatch

LEMMA FailedLess ==
  ASSUME Ground, NEW v, NEW w, NEW c, v.comp = w.comp,
         \A n \in cluster.members : v.node[n].status = "erroring" =>
            w.node[n].status = "erroring" /\ (IsComplete(w.node[n]) => IsComplete(v.node[n]))
  PROVE  Failed(v, c) <= Failed(w, c)
<1> DEFINE V == StatusIs(v, c, "erroring") \ {n \in NodesOf(v, c) : IsComplete(v.node[n])}
           W == StatusIs(w, c, "erroring") \ {n \in NodesOf(w, c) : IsComplete(w.node[n])}
<1>1. V \in SUBSET W /\ W \in SUBSET Nodes
  BY DEF StatusIs, NodesOf, Ground, ClusterRecords
<1> HIDE DEF V, W
<1>2. Cardinality(V) <= Cardinality(W)
  BY <1>1, SubsetCounts
<1>3. QED
  BY <1>2 DEF Failed, V, W

LEMMA FailedBound ==
  ASSUME Ground, NEW w, NEW c, NEW nodes,
         \A n \in cluster.members : w.node[n].status = "erroring" => nodes[n].status = "erroring"
  PROVE  Failed(w, c) <= Cardinality(Erring(nodes))
<1> DEFINE W == StatusIs(w, c, "erroring") \ {n \in NodesOf(w, c) : IsComplete(w.node[n])}
<1>1. W \in SUBSET Erring(nodes) /\ Erring(nodes) \in SUBSET Nodes
  BY DEF StatusIs, NodesOf, Ground, ClusterRecords, Erring
<1> HIDE DEF W
<1>2. Cardinality(W) <= Cardinality(Erring(nodes))
  BY <1>1, SubsetCounts
<1>3. QED
  BY <1>2 DEF Failed, W

\* Changes that leave the batch states alone, or reset them, and make no node erroring.
LEMMA AccountCarried ==
  ASSUME Ground, NEW w \in CopyRecords, NEW v \in CopyRecords, NEW k \in Nat, Accounted(w, k),
         v.comp = w.comp, Kept(w, v) \/ Renewed(w, v),
         \A n \in cluster.members : v.node[n].status = "erroring" =>
            w.node[n].status = "erroring" /\ (IsComplete(w.node[n]) => IsComplete(v.node[n]))
  PROVE  Accounted(v, k)
<1> SUFFICES ASSUME NEW c \in AllCompartments
             PROVE  /\ Failed(v, c) <= k
                    /\ Charged(v.cr.batch[c], Threshold(c), k)
                    /\ v.batch[c].failed <= k /\ Warranted(v.batch[c], Threshold(c), k)
                    /\ v.batch[c].failures <= v.batch[c].failed \/ Failed(v, c) <= v.batch[c].failed
  BY DEF Accounted
<1>1. Failed(v, c) <= Failed(w, c) /\ Failed(v, c) \in Nat /\ Failed(w, c) \in Nat
  BY FailedLess, CountTypes
<1>2. w.batch[c] \in BatchRecords /\ w.cr.batch[c] \in BatchRecords
  BY CopyTypes
<1>3. w.batch[c].failed \in Nat /\ w.batch[c].failures \in Nat
  BY <1>2 DEF BatchRecords
<1>4. CASE Kept(w, v)
  <2>1. v.batch[c] = w.batch[c] /\ v.cr.batch[c] = w.cr.batch[c]
    BY <1>4 DEF Kept
  <2>2. QED
    BY <1>1, <1>3, <2>1 DEF Accounted
<1>5. CASE Renewed(w, v)
  <2>1. v.batch[c] = FreshBatch /\ v.cr.batch[c] \in {NoBatch, FreshBatch}
    BY <1>5 DEF Renewed
  <2>2. Charged(FreshBatch, Threshold(c), k) /\ Charged(NoBatch, Threshold(c), k)
    BY BlankCharged
  <2>3. Failed(v, c) <= k
    BY <1>1 DEF Accounted
  <2>4. QED
    BY <2>1, <2>2, <2>3 DEF Charged
<1>6. QED
  BY <1>4, <1>5

LEMMA AccountScored ==
  ASSUME Ground, NEW u \in CopyRecords, NEW v \in CopyRecords, NEW k \in Nat, Accounted(u, k),
         NEW c \in AllCompartments, v.node = u.node, v.comp = u.comp, Judged(u, v, c)
  PROVE  /\ Charged(v.cr.batch[c], Threshold(c), k)
         /\ v.batch[c].failed = Failed(u, c) /\ Warranted(v.batch[c], Threshold(c), k)
<1> DEFINE r == BatchResult(u, c)
           s == StrategyOf(c)
           total == Cardinality(NodesOf(u, c))
           ok == r.ok
           bad == r.bad
           bs == r.bs
           b == u.batch[c]
           e == EvaluateBatchResult(s, bs, ok, bad, total)
<1>1. /\ r.scored = TRUE => ok \in Nat /\ bad \in Nat /\ bs \in BatchRecords
      /\ bs.failures = b.failures /\ bs.stop = b.stop
      /\ r.scored = TRUE => ok + bad > 0 /\ bs.failed = Failed(u, c) /\ b.failed + bad = Failed(u, c)
  BY ResultTypes
<1>2. r.scored = TRUE /\ v.cr.batch[c] = StoredBatch(c, v.batch[c]) /\ v.batch[c] = e
  BY DEF Judged
<1>3. s.failures \in Nat /\ s.threshold \in Nat /\ s.threshold <= 100 /\ total \in Nat /\ s.failures = Threshold(c)
  BY StrategyTypesOf, CountTypes, ThresholdIs
<1>4. b \in BatchRecords /\ b.failures \in Nat /\ b.failed \in Nat
  BY CopyTypes DEF BatchRecords
<1>5. /\ b.failed <= k /\ Warranted(b, Threshold(c), k) /\ Failed(u, c) <= k
      /\ b.failures <= b.failed \/ Failed(u, c) <= b.failed
  BY DEF Accounted
<1>6. Failed(u, c) \in Nat
  BY CountTypes
<1> HIDE DEF r, s, total, ok, bad, bs, b
<1>7. /\ e \in BatchRecords /\ e.failed = bs.failed
      /\ s.type = "none" => e.failures = bs.failures /\ e.stop = bs.stop
      /\ s.type # "none" => e.failures = 0 \/ (bad > 0 /\ e.failures = bs.failures + 1)
      /\ bs.stop = TRUE => e.stop = TRUE
      /\ e.stop = TRUE => \/ bs.stop = TRUE
                          \/ (e.failures >= s.failures /\ s.failures > 0 /\ s.type # "none")
  <2>1. ok \in Nat /\ bad \in Nat /\ bs \in BatchRecords /\ ok + bad > 0
    BY <1>1, <1>2
  <2>2. QED
    BY <1>3, <2>1, BatchResultFacts
<1> HIDE DEF e
<1>8. s.type # "none" => e.failures <= e.failed
  <2>1. CASE bad > 0
    BY <1>1, <1>2, <1>4, <1>5, <1>6, <1>7, <2>1
  <2>2. CASE ~(bad > 0)
    BY <1>1, <1>2, <1>6, <1>7, <2>2
  <2>3. QED
    BY <2>1, <2>2
<1>9. Warranted(e, Threshold(c), k)
  <2> SUFFICES ASSUME e.stop = TRUE PROVE Threshold(c) > 0 /\ k >= Threshold(c)
    BY DEF Warranted
  <2>1. CASE bs.stop = TRUE
    BY <1>1, <1>5, <2>1 DEF Warranted
  <2>2. CASE e.failures >= s.failures /\ s.failures > 0 /\ s.type # "none"
    BY <1>1, <1>2, <1>3, <1>5, <1>6, <1>7, <1>8, <2>2 DEF BatchRecords
  <2>3. QED
    BY <1>7, <2>1, <2>2
<1>10. Charged(v.cr.batch[c], Threshold(c), k)
  <2>1. CASE s.type = "none"
    <3>1. v.cr.batch[c] = NoBatch
      BY <1>2, <2>1 DEF StoredBatch, s
    <3>2. QED
      BY <3>1, BlankCharged
  <2>2. CASE s.type # "none"
    <3>1. v.cr.batch[c] = e
      BY <1>2, <2>2 DEF StoredBatch, s
    <3>2. QED
      BY <1>1, <1>2, <1>5, <1>7, <1>8, <1>9, <2>2, <3>1 DEF Charged
  <2>3. QED
    BY <2>1, <2>2
<1>11. QED
  BY <1>1, <1>2, <1>7, <1>9, <1>10

LEMMA AccountIntrospected ==
  ASSUME Ground, NEW w, Sound(w), NEW k \in Nat, Accounted(w, k)
  PROVE  Accounted(Introspect(w), k)
<1> DEFINE u == BeforeEvaluation(w)
           v == Introspect(w)
<1>1. /\ Surveyed(w, v) /\ u \in CopyRecords /\ v.node = u.node /\ v.comp = u.comp
      /\ Kept(w, u) \/ Renewed(w, u)
      /\ \A c \in AllCompartments : Unscored(u, v, c) \/ Judged(u, v, c)
  BY IntrospectFacts
<1> HIDE DEF u, v
<1>2. v \in CopyRecords /\ w \in CopyRecords /\ cluster.members \in SUBSET Nodes
  BY <1>1 DEF Surveyed, Sound, Ground, ClusterRecords
<1>3. \A n \in cluster.members : u.node[n].status = "erroring" =>
            w.node[n].status = "erroring" /\ (IsComplete(w.node[n]) => IsComplete(u.node[n]))
  BY <1>1, <1>2 DEF Surveyed, Reviewed, IsComplete
<1>4. u.comp = w.comp
  BY <1>1 DEF Surveyed
<1>5. Accounted(u, k)
  BY <1>1, <1>2, <1>3, <1>4, AccountCarried
<1>6. ASSUME NEW c \in AllCompartments
      PROVE  /\ Failed(v, c) <= k
             /\ Charged(v.cr.batch[c], Threshold(c), k)
             /\ v.batch[c].failed <= k /\ Warranted(v.batch[c], Threshold(c), k)
             /\ v.batch[c].failures <= v.batch[c].failed \/ Failed(v, c) <= v.batch[c].failed
  <2>1. Failed(v, c) = Failed(u, c) /\ Failed(u, c) \in Nat
    <3>1. Failed(v, c) = Failed(u, c)
      BY <1>1 DEF Failed, StatusIs, NodesOf
    <3>2. QED
      BY <3>1, CountTypes
  <2>2. /\ Failed(u, c) <= k
        /\ Charged(u.cr.batch[c], Threshold(c), k)
        /\ u.batch[c].failed <= k /\ Warranted(u.batch[c], Threshold(c), k)
        /\ u.batch[c].failures <= u.batch[c].failed \/ Failed(u, c) <= u.batch[c].failed
    BY <1>5 DEF Accounted
  <2>3. CASE Unscored(u, v, c)
    <3>1. v.cr.batch[c] = u.cr.batch[c] /\ (v.batch[c] = u.batch[c] \/ v.batch[c] = BatchResult(u, c).bs)
      BY <2>3 DEF Unscored
    <3>2. LET bs == BatchResult(u, c).bs IN
          /\ bs.failures = u.batch[c].failures /\ bs.stop = u.batch[c].stop
          /\ bs.failed = u.batch[c].failed \/ bs.failed = Failed(u, c)
      BY <1>1, ResultTypes
    <3>3. QED
      BY <2>1, <2>2, <3>1, <3>2 DEF Warranted
  <2>4. CASE Judged(u, v, c)
    <3>1. /\ Charged(v.cr.batch[c], Threshold(c), k)
          /\ v.batch[c].failed = Failed(u, c) /\ Warranted(v.batch[c], Threshold(c), k)
      BY <1>1, <1>2, <1>5, <2>4, AccountScored
    <3>2. QED
      BY <2>1, <2>2, <3>1
  <2>5. QED
    BY <1>1, <2>3, <2>4
<1>7. QED
  BY <1>6 DEF Accounted, v

LEMMA AccountReady ==
  ASSUME Ground, NEW w, Sound(w), NEW k \in Nat, Accounted(w, k)
  PROVE  Accounted(Prepare(HandleVersionChange(Introspect(w))), k)
<1> DEFINE w1 == Introspect(w)
           w2 == HandleVersionChange(w1)
           w3 == HandleVersionChange(w2)
           w4 == Introspect(w3)
           w5 == PruneCompletedNodePriorities(w4)
           w6 == BlockIneligible(w5)
<1>0. Prepare(w2) = w6
  BY Zenon DEF Prepare, Then
<1>m. cluster.members \in SUBSET Nodes
  BY DEF Ground, ClusterRecords
<1>1. Sound(w1) /\ Accounted(w1, k)
  BY IntrospectFacts, AccountIntrospected DEF Surveyed
<1> HIDE DEF w1
<1>v. ASSUME NEW x, Sound(x), Accounted(x, k)
      PROVE  Sound(HandleVersionChange(x)) /\ Accounted(HandleVersionChange(x), k)
  <2> DEFINE y == HandleVersionChange(x)
  <2>1. /\ Sound(y) /\ y.comp = x.comp /\ (Kept(x, y) \/ Renewed(x, y))
        /\ \A n \in Nodes : \/ y.node[n] = x.node[n] \/ y.node[n].status = "in_progress"
    BY <1>v, VersionFacts
  <2> HIDE DEF y
  <2>2. \A n \in cluster.members : y.node[n].status = "erroring" =>
            x.node[n].status = "erroring" /\ (IsComplete(x.node[n]) => IsComplete(y.node[n]))
    BY <1>m, <2>1
  <2>3. Accounted(y, k)
    BY <1>v, <2>1, <2>2, AccountCarried DEF Sound
  <2>4. QED
    BY <2>1, <2>3 DEF y
<1>2. Sound(w2) /\ Accounted(w2, k)
  BY <1>1, <1>v
<1> HIDE DEF w2
<1>3. Sound(w3) /\ Accounted(w3, k)
  BY <1>2, <1>v
<1> HIDE DEF w3
<1>4. Sound(w4) /\ Accounted(w4, k)
  BY <1>3, IntrospectFacts, AccountIntrospected DEF Surveyed
<1> HIDE DEF w4
<1>5. Sound(w5) /\ w5.node = w4.node /\ w5.comp = w4.comp /\ Kept(w4, w5)
  BY <1>4, PruneFacts DEF Kept
<1> HIDE DEF w5
<1>6. /\ Sound(w6) /\ w6.comp = w5.comp /\ Kept(w5, w6)
      /\ \A n \in Nodes : Reviewed(w5.node[n], w6.node[n])
  BY <1>5, BlockFacts DEF Kept
<1> HIDE DEF w6
<1>7. Kept(w4, w6) /\ w6.comp = w4.comp
  BY <1>5, <1>6 DEF Kept
<1>8. \A n \in cluster.members : w6.node[n].status = "erroring" =>
            w4.node[n].status = "erroring" /\ (IsComplete(w4.node[n]) => IsComplete(w6.node[n]))
  BY <1>m, <1>5, <1>6 DEF Reviewed, IsComplete
<1>9. Accounted(w6, k)
  BY <1>4, <1>6, <1>7, <1>8, AccountCarried DEF Sound
<1>10. QED
  BY <1>0, <1>9 DEF w2, w1

\* The status, and the status the pass will save.
CauseInv ==
  /\ Cardinality(Erring(node)) <= used.failures
  /\ \A c \in AllCompartments : /\ Charged(cr.batch[c], Threshold(c), used.failures)
                                /\ Charged(pass.mem.cr.batch[c], Threshold(c), used.failures)
  /\ \A n \in Nodes : pass.mem.node[n].status = "erroring" => pass.snap[n].status = "erroring"

LEMMA CopyAccounted ==
  ASSUME TypeInv, CauseInv
  PROVE  Accounted(Copy, used.failures) /\ used.failures \in Nat
<1> DEFINE k == used.failures
<1>0. /\ Ground /\ k \in Nat /\ Copy.node = node /\ Copy.cr = cr /\ cr \in StatusRecords
      /\ \A c \in AllCompartments : Copy.batch[c] = cr.batch[c] \/ Copy.batch[c] = FreshBatch
      /\ cluster.members \in SUBSET Nodes
  BY TypeParts
<1>1. ASSUME NEW c \in AllCompartments
      PROVE  /\ Failed(Copy, c) <= k
             /\ Charged(Copy.cr.batch[c], Threshold(c), k)
             /\ Charged(Copy.batch[c], Threshold(c), k)
  <2>1. Failed(Copy, c) <= Cardinality(Erring(node))
    BY <1>0, FailedBound
  <2>2. Failed(Copy, c) \in Nat /\ Cardinality(Erring(node)) \in Nat
    <3>1. Erring(node) \in SUBSET Nodes
      BY DEF Erring
    <3>2. QED
      BY <1>0, <3>1, CountTypes, NodeSets
  <2>3. Failed(Copy, c) <= k
    BY <1>0, <2>1, <2>2 DEF CauseInv
  <2>4. Charged(cr.batch[c], Threshold(c), k) /\ Charged(FreshBatch, Threshold(c), k)
    BY <1>0, BlankCharged DEF CauseInv
  <2>5. QED
    BY <1>0, <2>3, <2>4
<1>2. QED
  BY <1>0, <1>1 DEF Accounted, Charged

LEMMA CausePass ==
  ASSUME TypeInv, CauseInv, PassReports \/ PassPauses \/ PassIntrospects \/ PassSelects
  PROVE  CauseInv'
<1> DEFINE k == used.failures
<1>0. /\ Ground /\ Sound(Copy) /\ Copy.node = node /\ Copy.cr = cr /\ cluster.members \in SUBSET Nodes
      /\ Accounted(Copy, k) /\ k \in Nat
  BY TypeParts, CopyAccounted
<1>1. UNCHANGED <<node, cr, used>>
  BY DEF PassReports, PassPauses, PassIntrospects, PassSelects
<1>2. ASSUME NEW w, NEW pc, NEW S, pass' = [pc |-> pc, snap |-> node, mem |-> w, todo |-> S],
             \A n \in Nodes : w.node[n].status = "erroring" => node[n].status = "erroring",
             \A c \in AllCompartments : Charged(w.cr.batch[c], Threshold(c), k)
      PROVE  CauseInv'
  <2>1. pass'.mem = w /\ pass'.snap = node
    BY <1>2
  <2>2. QED
    BY <1>1, <1>2, <2>1 DEF CauseInv
<1>3. \A c \in AllCompartments : Charged(cr.batch[c], Threshold(c), k)
  BY DEF CauseInv
<1>4. CASE PassReports
  <2> DEFINE w == ReportState(Copy)
  <2>1. /\ w.node = node
        /\ \A c \in AllCompartments :
              w.cr.batch[c] = IF c \in CurrentCompartments THEN StoredBatch(c, Copy.batch[c]) ELSE NoBatch
    BY <1>0, ReportFacts
  <2>2. pass' = [pc |-> "save", snap |-> node, mem |-> w, todo |-> cluster.members]
    BY <1>4, PassSteps
  <2> HIDE DEF w
  <2>3. \A c \in AllCompartments : Charged(w.cr.batch[c], Threshold(c), k)
    <3> SUFFICES ASSUME NEW c \in AllCompartments PROVE Charged(w.cr.batch[c], Threshold(c), k)
      OBVIOUS
    <3>1. Charged(NoBatch, Threshold(c), k) /\ Charged(FreshBatch, Threshold(c), k)
      BY <1>0, BlankCharged
    <3>2. Charged(Copy.batch[c], Threshold(c), k)
      BY <1>3, <3>1, TypeParts
    <3>3. QED
      BY <2>1, <3>1, <3>2 DEF StoredBatch
  <2>4. QED
    BY <1>2, <2>1, <2>2, <2>3
<1>5. CASE PassPauses
  <2> DEFINE w == UpdateSkyhookPauseStatus(Copy)
  <2>1. w.cr.batch = cr.batch /\ \A n \in Nodes : Reviewed(node[n], w.node[n])
    BY <1>0, PauseFacts
  <2>2. pass' = pass \/ pass' = [pc |-> "save", snap |-> node, mem |-> w, todo |-> cluster.members]
    BY <1>5, PassSteps
  <2> HIDE DEF w
  <2>3. CASE pass' = pass
    BY <1>1, <2>3 DEF CauseInv
  <2>4. \A n \in Nodes : w.node[n].status = "erroring" => node[n].status = "erroring"
    BY <2>1 DEF Reviewed
  <2>5. \A c \in AllCompartments : Charged(w.cr.batch[c], Threshold(c), k)
    BY <1>3, <2>1
  <2>6. QED
    BY <1>2, <2>2, <2>3, <2>4, <2>5
<1>6. CASE PassIntrospects
  <2> DEFINE w == Introspect(Copy)
  <2>1. Surveyed(Copy, w) /\ Accounted(w, k)
    BY <1>0, IntrospectFacts, AccountIntrospected
  <2>2. pass' = [pc |-> "save", snap |-> node, mem |-> w, todo |-> cluster.members]
    BY <1>6, PassSteps
  <2> HIDE DEF w
  <2>3. \A n \in Nodes : w.node[n].status = "erroring" => node[n].status = "erroring"
    BY <1>0, <2>1 DEF Surveyed, Reviewed
  <2>4. \A c \in AllCompartments : Charged(w.cr.batch[c], Threshold(c), k)
    BY <2>1 DEF Accounted
  <2>5. QED
    BY <1>2, <2>2, <2>3, <2>4
<1>7. CASE PassSelects
  <2> DEFINE w == Prepare(HandleVersionChange(Introspect(Copy)))
             S == SelectNodes(w)
             v == UpsertPick(w, S)
  <2>1. Readied(Copy, w) /\ Accounted(w, k)
    BY <1>0, <1>7, ReadyFacts, AccountReady DEF PassSelects, Reported
  <2>2. pass' = [pc |-> "run", snap |-> node, mem |-> v, todo |-> S]
    BY <1>7, PassSteps
  <2> HIDE DEF w
  <2>3. S \in SUBSET Nodes
    BY <1>0, SelectFacts
  <2> HIDE DEF S
  <2>4. v.node = w.node /\ v.cr.batch = w.cr.batch
    BY <2>1, <2>3, UpsertFacts DEF Readied, Sound
  <2> HIDE DEF v
  <2>5. \A n \in Nodes : v.node[n].status = "erroring" => node[n].status = "erroring"
    BY <1>0, <2>1, <2>4 DEF Readied, Moved
  <2>6. \A c \in AllCompartments : Charged(v.cr.batch[c], Threshold(c), k)
    BY <2>1, <2>4 DEF Accounted
  <2>7. QED
    BY <1>2, <2>2, <2>5, <2>6
<1>8. QED
  BY <1>4, <1>5, <1>6, <1>7

\* Failures only add up.
LEMMA ChargedMore ==
  ASSUME NEW bs \in BatchRecords, NEW t \in Nat, NEW j \in Nat, NEW k \in Nat, j <= k, Charged(bs, t, j)
  PROVE  Charged(bs, t, k)
BY DEF Charged, Warranted, BatchRecords

\* What a pass does to the node n of its copy, and to the node itself.
LEMMA CauseWork ==
  ASSUME TypeInv, CauseInv, NEW n \in Nodes, RunNode(n) \/ SaveNode(n)
  PROVE  CauseInv'
<1>0. /\ pass \in PassRecords /\ Sound(pass.mem) /\ pass.mem \in CopyRecords /\ node \in [Nodes -> NodeRecords]
      /\ pass.mem.node \in [Nodes -> NodeRecords]
  BY TypeParts, CopyTypes
<1>1. UNCHANGED <<cr, used>>
  BY DEF RunNode, SaveNode
<1>2. CASE RunNode(n)
  <2>1. UNCHANGED node
    BY <1>2 DEF RunNode
  <2>3. pass'.snap = pass.snap /\ pass'.mem.cr = pass.mem.cr
        /\ \A m \in Nodes : pass'.mem.node[m] = pass.mem.node[m] \/ pass'.mem.node[m].status = "in_progress"
    BY <1>2, RunFacts DEF Creates, Leaves
  <2>4. QED
    BY <1>1, <2>1, <2>3 DEF CauseInv
<1>3. CASE SaveNode(n)
  <2> DEFINE changed == pass.snap[n] # pass.mem.node[n]
             after == IF changed /\ n \in cluster.members THEN SavedNode(n) ELSE node[n]
             mem == IF changed /\ IsComplete(after) THEN RemoveNodePriority(pass.mem, {n}) ELSE pass.mem
  <2>1. /\ node' = [node EXCEPT ![n] = after] /\ pass' = [pass EXCEPT !.todo = @ \ {n}, !.mem = mem]
    BY <1>3 DEF SaveNode
  <2>2. after.status = "erroring" => node[n].status = "erroring"
    BY SavedFacts DEF CauseInv
  <2>3. mem.cr.batch = pass.mem.cr.batch /\ mem.node = pass.mem.node
    <3> DEFINE S == {n}
    <3>1. S \in SUBSET Nodes
      OBVIOUS
    <3> HIDE DEF S
    <3>2. LET v == RemoveNodePriority(pass.mem, S) IN v.cr.batch = pass.mem.cr.batch /\ v.node = pass.mem.node
      BY <1>0, <3>1, RemoveFacts DEF Sound
    <3>3. QED
      BY <3>2 DEF S
  <2> HIDE DEF after, mem
  <2>4. Erring(node') \in SUBSET Erring(node) /\ Erring(node) \in SUBSET Nodes
    BY <1>0, <2>1, <2>2 DEF Erring
  <2>5. Cardinality(Erring(node')) <= Cardinality(Erring(node))
        /\ Cardinality(Erring(node')) \in Nat /\ Cardinality(Erring(node)) \in Nat
    BY <2>4, SubsetCounts
  <2>6. Cardinality(Erring(node')) <= used.failures /\ used.failures \in Nat
    BY <2>5, TypeParts DEF CauseInv
  <2>7. pass'.snap = pass.snap /\ pass'.mem = mem
    BY <1>0, <2>1 DEF PassRecords
  <2>8. QED
    BY <1>1, <2>3, <2>6, <2>7 DEF CauseInv
<1>4. QED
  BY <1>2, <1>3

LEMMA CauseEnd ==
  ASSUME TypeInv, CauseInv, RunEnds \/ SaveStatus \/ Crash
  PROVE  CauseInv'
<1>0. pass \in PassRecords /\ used \in [edits: Nat, failures: Nat, crashes: Nat]
  BY TypeParts
<1>1. UNCHANGED node /\ used'.failures = used.failures /\ (cr' = cr \/ cr' = pass.mem.cr)
  BY <1>0 DEF RunEnds, SaveStatus, Crash
<1>2. \/ pass'.mem = pass.mem /\ pass'.snap = pass.snap
      \/ pass' = IdlePass
  BY <1>0 DEF RunEnds, SaveStatus, Crash, PassRecords
<1>3. CASE pass'.mem = pass.mem /\ pass'.snap = pass.snap
  BY <1>1, <1>3 DEF CauseInv
<1>4. CASE pass' = IdlePass
  <2>1. \A c \in AllCompartments : pass'.mem.cr.batch[c] = NoBatch
    BY <1>4 DEF IdlePass, BlankStatus
  <2>2. \A n \in Nodes : pass'.mem.node[n].status = "unknown"
    BY <1>4 DEF IdlePass, BlankNode
  <2>3. used.failures \in Nat
    BY <1>0
  <2>4. \A c \in AllCompartments : Charged(NoBatch, Threshold(c), used.failures)
    BY <2>3, BlankCharged
  <2>5. QED
    BY <1>1, <2>1, <2>2, <2>4 DEF CauseInv
<1>5. QED
  BY <1>2, <1>3, <1>4

LEMMA CauseJobs ==
  ASSUME TypeInv, CauseInv, NEW n \in Nodes, JobSucceeds(n) \/ AttemptFails(n) \/ JobFails(n) \/ JobExpires(n)
  PROVE  CauseInv'
<1>0. /\ node \in [Nodes -> NodeRecords] /\ used \in [edits: Nat, failures: Nat, crashes: Nat]
      /\ cr \in StatusRecords /\ pass.mem \in CopyRecords
  BY TypeParts
<1>1. UNCHANGED <<cr, pass>>
  BY DEF JobSucceeds, AttemptFails, JobFails, JobExpires
<1>2. Cardinality(Erring(node)) \in Nat /\ used.failures \in Nat /\ Cardinality(Erring(node)) <= used.failures
  BY <1>0, NodeSets DEF Erring, CauseInv
<1>3. \/ Erring(node') = Erring(node) /\ used' = used
      \/ Erring(node') \in SUBSET (Erring(node) \cup {n}) /\ used' = [used EXCEPT !.failures = @ + 1]
  <2>1. used' = used \/ used' = [used EXCEPT !.failures = @ + 1]
    BY JobFacts
  <2>2. CASE used' = [used EXCEPT !.failures = @ + 1]
    <3>1. \A m \in Nodes \ {n} : node'[m] = node[m]
      BY JobFacts
    <3>2. Erring(node') \in SUBSET (Erring(node) \cup {n})
      BY <3>1 DEF Erring
    <3>3. QED
      BY <2>2, <3>2
  <2>3. CASE used' = used
    <3>1. used # [used EXCEPT !.failures = @ + 1]
      BY <1>0
    <3>2. \A m \in Nodes : node'[m].status = node[m].status
      BY <2>3, <3>1, JobFacts
    <3>3. Erring(node') = Erring(node)
      BY <3>2 DEF Erring
    <3>4. QED
      BY <2>3, <3>3
  <2>4. QED
    BY <2>1, <2>2, <2>3
<1>4. Cardinality(Erring(node')) <= used'.failures /\ used'.failures \in Nat /\ used.failures <= used'.failures
  <2>1. CASE Erring(node') = Erring(node) /\ used' = used
    BY <1>2, <2>1
  <2>2. CASE Erring(node') \in SUBSET (Erring(node) \cup {n}) /\ used' = [used EXCEPT !.failures = @ + 1]
    <3>1. used'.failures = used.failures + 1
      BY <1>0, <2>2
    <3>2. Erring(node) \cup {n} \in SUBSET Nodes /\ IsFiniteSet(Erring(node))
      BY NodeSets DEF Erring
    <3>3. Cardinality(Erring(node) \cup {n}) <= Cardinality(Erring(node)) + 1
      <4> DEFINE F == Erring(node) \cup {n}
      <4>1. Cardinality(F) = Cardinality(Erring(node)) \/ Cardinality(F) = Cardinality(Erring(node)) + 1
        <5>1. n \in Erring(node) => F = Erring(node)
          OBVIOUS
        <5>2. n \notin Erring(node) => Cardinality(F) = Cardinality(Erring(node)) + 1
          BY <3>2, FS_AddElement
        <5>3. QED
          BY <5>1, <5>2, Zenon
      <4> HIDE DEF F
      <4>2. Cardinality(F) <= Cardinality(Erring(node)) + 1
        BY <1>2, <4>1
      <4>3. QED
        BY <4>2 DEF F
    <3>4. Cardinality(Erring(node')) <= Cardinality(Erring(node) \cup {n})
          /\ Cardinality(Erring(node')) \in Nat /\ Cardinality(Erring(node) \cup {n}) \in Nat
      BY <2>2, <3>2, SubsetCounts
    <3>5. QED
      BY <1>2, <3>1, <3>3, <3>4
  <2>3. QED
    BY <1>3, <2>1, <2>2
<1>5. ASSUME NEW c \in AllCompartments
      PROVE  /\ Charged(cr.batch[c], Threshold(c), used'.failures)
             /\ Charged(pass.mem.cr.batch[c], Threshold(c), used'.failures)
  <2>1. cr.batch[c] \in BatchRecords /\ pass.mem.cr.batch[c] \in BatchRecords /\ Threshold(c) \in Nat
    BY <1>0, CopyTypes, ThresholdIs DEF StatusRecords
  <2>2. QED
    BY <1>2, <1>4, <2>1, ChargedMore DEF CauseInv
<1>6. QED
  BY <1>1, <1>4, <1>5 DEF CauseInv

LEMMA CauseEdits ==
  ASSUME TypeInv, CauseInv, Edits
  PROVE  CauseInv'
<1>0. node \in [Nodes -> NodeRecords] /\ used \in [edits: Nat, failures: Nat, crashes: Nat]
  BY TypeParts
<1>1. UNCHANGED <<cr, pass>> /\ used'.failures = used.failures /\ used.failures \in Nat
  BY <1>0 DEF Edits, EditVersion, EditMode, EditPolicy, EditNode, NodeLeaves, NodeJoins, Edit
<1>2. Erring(node') \in SUBSET Erring(node) /\ Erring(node) \in SUBSET Nodes
  <2>1. CASE EditVersion
    BY <1>0, <2>1 DEF EditVersion, Erring, NodeRecords
  <2>2. CASE \E n \in Nodes : NodeLeaves(n)
    BY <1>0, <2>2 DEF NodeLeaves, Erring, BlankNode
  <2>3. CASE UNCHANGED node
    BY <2>3 DEF Erring
  <2>4. QED
    BY <2>1, <2>2, <2>3 DEF Edits, EditMode, EditPolicy, EditNode, NodeJoins
<1>3. Cardinality(Erring(node')) <= Cardinality(Erring(node))
      /\ Cardinality(Erring(node')) \in Nat /\ Cardinality(Erring(node)) \in Nat
  BY <1>2, SubsetCounts
<1>4. Cardinality(Erring(node')) <= used.failures
  BY <1>1, <1>3 DEF CauseInv
<1>5. QED
  BY <1>1, <1>4 DEF CauseInv

LEMMA CauseInit == Init => CauseInv
<1> SUFFICES ASSUME Init PROVE CauseInv
  OBVIOUS
<1>1. Erring(node) = {} /\ used.failures = 0
  BY DEF Init, Erring, BlankNode
<1>2. Cardinality(Erring(node)) <= used.failures
  BY <1>1, FS_EmptySet
<1>3. \A c \in AllCompartments : cr.batch[c] = NoBatch /\ pass.mem.cr.batch[c] = NoBatch
  BY DEF Init, IdlePass, BlankStatus
<1>4. \A c \in AllCompartments : Charged(NoBatch, Threshold(c), 0)
  BY BlankCharged
<1>5. \A n \in Nodes : pass.mem.node[n].status = "unknown"
  BY DEF Init, IdlePass, BlankNode
<1>6. QED
  BY <1>1, <1>2, <1>3, <1>4, <1>5 DEF CauseInv

LEMMA CauseStep == TypeInv /\ CauseInv /\ [Next]_vars => CauseInv'
<1> SUFFICES ASSUME TypeInv, CauseInv, [Next]_vars PROVE CauseInv'
  OBVIOUS
<1>1. CASE UNCHANGED vars
  BY <1>1 DEF vars, CauseInv
<1>2. CASE Pass
  BY <1>2, CausePass, CauseWork, CauseEnd DEF Pass
<1>3. CASE Crash
  BY <1>3, CauseEnd
<1>4. CASE Edits
  BY <1>4, CauseEdits
<1>5. ASSUME NEW n \in Nodes, JobSucceeds(n) \/ AttemptFails(n) \/ JobFails(n) \/ JobExpires(n) PROVE CauseInv'
  BY <1>5, CauseJobs
<1>6. QED
  BY <1>1, <1>2, <1>3, <1>4, <1>5 DEF Next

\* A compartment is stopped only after as many attempts failed as its failureThreshold
\* asks for, and never one without a threshold: for every number of nodes, any strategies
\* and every interleaving of passes, crashes, results, upgrades, relabels and edits
\* (EvaluateAndUpdateBatchState).
THEOREM StopsForCause == Spec => []StoppedForCause
<1>1. TypeInv /\ CauseInv => StoppedForCause
  <2> SUFFICES ASSUME TypeInv, CauseInv, NEW c \in AllCompartments, cr.batch[c].stop
               PROVE  StrategyOf(c).failures > 0 /\ used.failures >= StrategyOf(c).failures
    BY DEF StoppedForCause
  <2>1. cr.batch[c] \in BatchRecords
    BY TypeParts DEF StatusRecords
  <2>2. cr.batch[c].stop = TRUE
    BY <2>1 DEF BatchRecords
  <2>3. QED
    BY <2>2, ThresholdIs DEF CauseInv, Charged, Warranted
<1>2. QED
  BY <1>1, RolloutTypes, CauseInit, CauseStep, PTL DEF Spec

-----------------------------------------------------------------------------
(***************************************************************************)
(* The default compartment is a gate.                                      *)
(*                                                                         *)
(* What makes it one: a node with open work is picked, no more nodes are   *)
(* picked than the batch is large, and new ones only when none is.  The    *)
(* conditions are the ones under which a pick is as good as its word: with *)
(* a version edit the upgrades do not wait for a pick, a pick is lost by a *)
(* crash, and a node that is held or moves to another compartment keeps    *)
(* its work while others are picked.                                       *)
(***************************************************************************)
GateConditions ==
  /\ HasPolicy = TRUE /\ Strategy[DefaultCompartment].type = "fixed" /\ MaxCrashes = 0
  /\ EditKinds \subseteq {"pause", "disable", "leave", "join"}

Limit == Default(Strategy[DefaultCompartment]).initial
Ours == {n \in Nodes : Labels[n] = {}}
PickedOurs(st) == Picked(st.prio) \cap Ours
Stopped(st) == st.batch[DefaultCompartment].stop = TRUE

Working(n) ==
  /\ n \in cluster.members /\ n \in Ours /\ ~IsComplete(node[n])
  /\ job[n].phase # "none" \/ node[n].stage > 0 \/ node[n].status = "in_progress"
Covered(st) == Cardinality(PickedOurs(st)) <= Limit /\ \A n \in Nodes : Working(n) => n \in PickedOurs(st)

Open == {n \in cluster.members : n \in Ours /\ Touched(n)}
Pending(n) == pass.pc = "run" \/ (pass.pc = "save" /\ n \in pass.todo)
SameEntry(nd, md) == nd.stage = md.stage /\ nd.state = md.state

\* The cluster keeps to the conditions.
Settled ==
  /\ cluster.labels = Labels /\ policy = TRUE
  /\ \A n \in Nodes : cluster.held[n] = "none" /\ node[n].old = FALSE
  /\ \A n \in Nodes \ cluster.members : node[n] = BlankNode /\ job[n] = NoJob

\* What the pass has still to do.
Promised ==
  LET w == pass.mem IN
  /\ Covered(w.cr)
  /\ \A n \in Ours : Pending(n) =>
       /\ ~SameEntry(w.node[n], pass.snap[n]) => n \in PickedOurs(w.cr) /\ ~Stopped(cr)
       /\ w.node[n].status = "in_progress" /\ pass.snap[n].status # "in_progress" => n \in PickedOurs(w.cr)
  /\ Stopped(cr) /\ ~Stopped(w.cr) => Open = {}
  /\ pass.pc = "run" => \A n \in pass.todo \cap Ours : n \in PickedOurs(w.cr) /\ ~Stopped(cr)

GateInv ==
  /\ Settled
  /\ pass.pc = "idle" => Covered(cr)
  /\ pass.pc # "idle" => Promised

LEMMA OursFacts ==
  ASSUME TypeInv, Settled, GateConditions
  PROVE  /\ CurrentCompartments = AllCompartments
         /\ \A n \in Nodes : n \in cluster.members => (Assignment[n] = DefaultCompartment <=> n \in Ours)
         /\ NodesOf(Copy, DefaultCompartment) = {n \in cluster.members : n \in Ours}
         /\ DefaultCompartment \in AllCompartments
<1>0. Ground /\ cluster.members \in SUBSET Nodes /\ Copy.comp = Assignment
  BY TypeParts
<1>1. CurrentCompartments = AllCompartments /\ DefaultCompartment \in AllCompartments
  BY DEF Settled, GateConditions, CurrentCompartments, AllCompartments
<1>2. ASSUME NEW n \in Nodes, n \in cluster.members PROVE Assignment[n] = DefaultCompartment <=> n \in Ours
  <2>1. Assignment[n] = AssignNodeToCompartment(n)
    BY <1>1, <1>2 DEF Assignment
  <2>2. cluster.labels[n] = Labels[n] /\ Labels[n] \in SUBSET Compartments
    BY CompartmentsAssumption DEF Settled
  <2>3. cluster.labels[n] \cap CurrentCompartments = Labels[n]
    BY <1>1, <2>2 DEF AllCompartments
  <2>4. (AssignNodeToCompartment(n) = DefaultCompartment /\ Labels[n] = {}) \/ AssignNodeToCompartment(n) \in Labels[n]
    BY <1>0, <2>3, AssignFacts
  <2>5. DefaultCompartment \notin Labels[n]
    BY <2>2, CompartmentsAssumption
  <2>6. QED
    BY <2>1, <2>4, <2>5 DEF Ours
<1>3. NodesOf(Copy, DefaultCompartment) = {n \in cluster.members : n \in Ours}
  BY <1>0, <1>2 DEF NodesOf
<1>4. QED
  BY <1>1, <1>2, <1>3

LEMMA LimitFacts ==
  ASSUME GateConditions
  PROVE  /\ Limit \in Nat /\ Limit >= 1
         /\ StrategyOf(DefaultCompartment).type = "fixed" /\ StrategyOf(DefaultCompartment).initial = Limit
<1>1. ValidStrategy(Strategy[DefaultCompartment])
  BY CompartmentsAssumption DEF AllCompartments
<1>2. StrategyOf(DefaultCompartment) = Default(Strategy[DefaultCompartment])
  BY DEF StrategyOf, GateConditions
<1>3. QED
  BY <1>1, <1>2 DEF Limit, GateConditions, Default, OrDefault, ValidStrategy

\* A stop stays, unless the NodeWright completes.
LEMMA StopHeld ==
  ASSUME Ground, NEW w, Sound(w), NEW c \in AllCompartments, StrategyOf(c).type # "none",
         w.batch[c].stop = TRUE, w.cr.batch[c].stop = TRUE,
         NodeWrightStatus(w) # "complete" \/ w.cr.status = "complete"
  PROVE  Introspect(w).batch[c].stop = TRUE /\ Introspect(w).cr.batch[c].stop = TRUE
<1> DEFINE u == BeforeEvaluation(w)
           v == Introspect(w)
<1>1. /\ Surveyed(w, v) /\ u \in CopyRecords /\ v.node = u.node /\ v.comp = u.comp
      /\ v.cr.status # "complete" \/ w.cr.status = "complete" => Kept(w, u)
      /\ Unscored(u, v, c) \/ Judged(u, v, c)
  BY IntrospectFacts
<1> HIDE DEF u, v
<1>2. Kept(w, u)
  BY <1>1 DEF Surveyed
<1>3. u.batch[c].stop = TRUE /\ u.cr.batch[c].stop = TRUE
  BY <1>2 DEF Kept
<1> DEFINE r == BatchResult(u, c)
<1>4. /\ r.bs \in BatchRecords /\ r.bs.stop = TRUE
      /\ r.ok \in Nat /\ r.bad \in Nat /\ (r.scored = TRUE => r.ok + r.bad > 0)
  BY <1>1, <1>3, ResultTypes
<1>5. CASE Unscored(u, v, c)
  BY <1>3, <1>4, <1>5 DEF Unscored, v
<1>6. CASE Judged(u, v, c)
  <2> DEFINE s == StrategyOf(c)
             total == Cardinality(NodesOf(u, c))
             ok == r.ok
             bad == r.bad
             bs == r.bs
  <2>1. r.scored = TRUE /\ v.cr.batch[c] = StoredBatch(c, v.batch[c])
        /\ v.batch[c] = EvaluateBatchResult(s, bs, ok, bad, total)
    BY <1>6 DEF Judged
  <2>2. s.failures \in Nat /\ s.threshold \in Nat /\ s.threshold <= 100 /\ total \in Nat
    BY StrategyTypesOf, CountTypes
  <2>3. ok \in Nat /\ bad \in Nat /\ bs \in BatchRecords /\ bs.stop = TRUE /\ ok + bad > 0
    BY <1>4, <2>1
  <2> HIDE DEF s, total, ok, bad, bs
  <2>4. EvaluateBatchResult(s, bs, ok, bad, total).stop = TRUE
    BY <2>2, <2>3, BatchResultFacts
  <2>5. QED
    BY <2>1, <2>4 DEF StoredBatch, v
<1>7. QED
  BY <1>1, <1>5, <1>6 DEF v

\* The picks of a new batch are no more than its size.
LEMMA FirstOfFacts ==
  ASSUME NEW w \in CopyRecords, NEW S \in SUBSET Nodes, NEW k \in Nat
  PROVE  Cardinality(FirstOf(w, S, k)) <= k /\ FirstOf(w, S, k) \in SUBSET S
<1> DEFINE before == [n \in S |-> {m \in S : Earlier(w, m, n)}]
           Place(n) == PickOrder(w.node[n].status)
<1>1. \A n \in S : Place(n) \in Nat /\ Rank[n] \in Nat
  BY NodesAssumption DEF PickOrder
<1>2. before \in [S -> SUBSET S]
  OBVIOUS
<1>3. \A m, n \in S : m \in before[n] <=> (Place(m) < Place(n) \/ (Place(m) = Place(n) /\ Rank[m] < Rank[n]))
  BY DEF Earlier
<1>4. \A m, n \in S : Rank[m] = Rank[n] => m = n
  BY NodesAssumption
<1> HIDE DEF Place, before
<1>5. \A m, n \in S : m # n => m \in before[n] \/ n \in before[m]
  BY <1>1, <1>3, <1>4
<1>6. \A m, n \in S : m \in before[n] => m \notin before[m] /\ before[m] \subseteq before[n]
  <2> SUFFICES ASSUME NEW m \in S, NEW n \in S, m \in before[n]
               PROVE  m \notin before[m] /\ \A o \in S : o \in before[m] => o \in before[n]
    BY <1>2
  <2>1. m \notin before[m]
    BY <1>1, <1>3
  <2>2. \A o \in S : o \in before[m] => o \in before[n]
    BY <1>1, <1>3
  <2>3. QED
    BY <2>1, <2>2
<1>7. Cardinality({n \in S : Cardinality(before[n]) < k}) <= k
  BY <1>2, <1>5, <1>6, FirstFew
<1>8. FirstOf(w, S, k) = {n \in S : Cardinality(before[n]) < k}
  BY DEF FirstOf, before
<1>9. QED
  BY <1>7, <1>8

LEMMA NewBatchFacts ==
  ASSUME Ground, GateConditions, NEW w \in CopyRecords
  PROVE  /\ Cardinality(CreateNewBatch(w, DefaultCompartment)) <= Limit
         /\ CreateNewBatch(w, DefaultCompartment) \in SUBSET NodesOf(w, DefaultCompartment)
<1> DEFINE c == DefaultCompartment
           total == Cardinality(NodesOf(w, c))
           s == StrategyOf(c)
           b == w.batch[c]
           size == CalculateBatchSize(s, total, b)
           S == {n \in NodesOf(w, c) : /\ ~IsComplete(w.node[n]) /\ Eligible(n)
                                       /\ PickOrder(w.node[n].status) < 9}
<1>1. CreateNewBatch(w, c) = FirstOf(w, S, size)
  BY LimitFacts DEF CreateNewBatch
<1>2. size \in Nat /\ size <= Limit
  <2> DEFINE rest == total - (b.completed + b.failed)
  <2>1. total \in Nat /\ b \in BatchRecords
    BY CountTypes, CopyTypes DEF AllCompartments
  <2>2. rest \in Int
    BY <2>1 DEF BatchRecords
  <2>3. DesiredBatchSize(s, total, b) = Limit
    BY LimitFacts DEF DesiredBatchSize
  <2>4. size = IF rest <= 0 THEN 0 ELSE Maximum(1, Minimum(Limit, rest))
    BY <2>3 DEF CalculateBatchSize
  <2> HIDE DEF rest, size
  <2>5. QED
    BY <2>2, <2>4, LimitFacts DEF Maximum, Minimum
<1>3. S \in SUBSET Nodes /\ S \in SUBSET NodesOf(w, c)
  BY DEF NodesOf, Ground, ClusterRecords
<1> HIDE DEF size, S
<1>4. Cardinality(FirstOf(w, S, size)) <= size /\ FirstOf(w, S, size) \in SUBSET S
  BY <1>2, <1>3, FirstOfFacts
<1>5. FirstOf(w, S, size) \in SUBSET Nodes
  BY <1>3, <1>4
<1>6. Cardinality(FirstOf(w, S, size)) \in Nat
  BY <1>5, NodeSets
<1>7. QED
  BY <1>1, <1>2, <1>3, <1>4, <1>6, LimitFacts

LEMMA StatusOfNodes ==
  ASSUME NEW v, NEW w, v.node = w.node
  PROVE  NodeWrightStatus(v) = NodeWrightStatus(w)
  BY DEF NodeWrightStatus, CollectNodeStatus

LEMMA StopCopied ==
  ASSUME TypeInv, GateConditions, Settled
  PROVE  Copy.batch[DefaultCompartment].stop = cr.batch[DefaultCompartment].stop
<1>1. DefaultCompartment \in AllCompartments
  BY DEF AllCompartments
<1>2. \/ Copy.batch[DefaultCompartment] = cr.batch[DefaultCompartment]
      \/ (cr.batch[DefaultCompartment] = NoBatch /\ Copy.batch[DefaultCompartment] = FreshBatch)
  BY <1>1, TypeParts
<1>3. NoBatch.stop = FALSE /\ FreshBatch.stop = FALSE
  BY DEF NoBatch, FreshBatch
<1>4. QED
  BY <1>2, <1>3

\* A pass that only introspects ends a stop when all is complete, and not before.
LEMMA StopIntrospected ==
  ASSUME TypeInv, GateConditions, Settled, Stopped(cr),
         NodeWrightStatus(Copy) # "complete" \/ cr.status = "complete"
  PROVE  Introspect(Copy).batch[DefaultCompartment].stop = TRUE /\ Stopped(Introspect(Copy).cr)
<1> DEFINE c == DefaultCompartment
           w == Copy
<1>1. Ground /\ Sound(w) /\ w.cr = cr /\ c \in AllCompartments /\ StrategyOf(c).type # "none"
  BY TypeParts, LimitFacts DEF AllCompartments
<1>2. w.batch[c].stop = TRUE /\ w.cr.batch[c].stop = TRUE
  BY <1>1, StopCopied DEF Stopped
<1>3. NodeWrightStatus(w) # "complete" \/ w.cr.status = "complete"
  BY <1>1
<1> HIDE DEF c, w
<1>4. Introspect(w).batch[c].stop = TRUE /\ Introspect(w).cr.batch[c].stop = TRUE
  BY <1>1, <1>2, <1>3, StopHeld
<1>5. QED
  BY <1>4 DEF Stopped, c, w

Ready == Prepare(HandleVersionChange(Introspect(Copy)))

\* What a pass that selects nodes keeps of a stop.
LEMMA StopReady ==
  ASSUME TypeInv, GateConditions, Settled, Stopped(cr), ~Introspected(Copy)
  PROVE  Ready.batch[DefaultCompartment].stop = TRUE /\ Stopped(Ready.cr)
<1> DEFINE c == DefaultCompartment
           w1 == Introspect(Copy)
           w4 == Introspect(w1)
           w5 == PruneCompletedNodePriorities(w4)
           w6 == BlockIneligible(w5)
<1>1. Ground /\ Sound(Copy) /\ Copy.cr = cr /\ Copy.node = node /\ c \in AllCompartments /\ StrategyOf(c).type # "none"
  BY TypeParts, LimitFacts DEF AllCompartments
<1>2. Surveyed(Copy, w1) /\ w1.node = Copy.node /\ w1.cr = Copy.cr
  BY <1>1, IntrospectFacts
<1>3. Sound(w1) /\ w1.cr.status = NodeWrightStatus(Copy)
  BY <1>2 DEF Surveyed
<1>4. w1.batch[c].stop = TRUE /\ w1.cr.batch[c].stop = TRUE
  BY <1>1, <1>2, <1>3, StopIntrospected DEF Stopped
<1>5. Ready = w6
  <2>1. \A n \in Nodes : w1.node[n].old = FALSE
    BY <1>1, <1>2 DEF Settled
  <2>2. HandleVersionChange(w1) = w1
    <3> HIDE DEF w1
    <3>1. QED
      BY <1>1, <1>3, <2>1, VersionFacts
  <2>3. Ready = Prepare(w1)
    BY <2>2 DEF Ready
  <2> HIDE DEF w1
  <2>4. Prepare(w1) = BlockIneligible(PruneCompletedNodePriorities(Introspect(HandleVersionChange(w1))))
    BY Zenon DEF Prepare, Then
  <2>5. QED
    BY <2>2, <2>3, <2>4
<1>6. NodeWrightStatus(w1) = w1.cr.status
  BY <1>2, <1>3, StatusOfNodes
<1> HIDE DEF w1
<1>7. w4.batch[c].stop = TRUE /\ w4.cr.batch[c].stop = TRUE
  <2> HIDE DEF c
  <2>1. NodeWrightStatus(w1) # "complete" \/ w1.cr.status = "complete"
    BY <1>6
  <2>2. QED
    BY <1>1, <1>3, <1>4, <2>1, StopHeld
<1>8. Sound(w4)
  BY <1>1, <1>3, IntrospectFacts DEF Surveyed
<1> HIDE DEF w4
<1>9. w5.batch = w4.batch /\ w5.cr.batch = w4.cr.batch /\ Sound(w5)
  BY <1>1, <1>8, PruneFacts
<1> HIDE DEF w5
<1>10. w6.batch = w5.batch /\ w6.cr = w5.cr
  BY <1>1, <1>9, BlockFacts
<1>11. QED
  BY <1>5, <1>7, <1>9, <1>10 DEF Stopped

LEMMA NextBatchIn ==
  ASSUME NEW w, NEW c
  PROVE  GetNodesForNextBatch(w, c) \subseteq NodesOf(w, c)
  BY DEF GetNodesForNextBatch, CreateNewBatch, FirstOf, StatusIs, NodesOf

\* Of the default compartment, a pass selects only what its own next batch has.
LEMMA SelectsOurs ==
  ASSUME TypeInv, GateConditions, Settled, NEW w, w.comp = Assignment
  PROVE  SelectNodes(w) \cap Ours \subseteq GetNodesForNextBatch(w, DefaultCompartment)
<1> SUFFICES ASSUME NEW n \in SelectNodes(w), n \in Ours
             PROVE  n \in GetNodesForNextBatch(w, DefaultCompartment)
  OBVIOUS
<1>1. PICK d \in CurrentCompartments : n \in GetNodesForNextBatch(w, d)
  BY DEF SelectNodes
<1>2. n \in NodesOf(w, d)
  BY <1>1, NextBatchIn
<1>3. n \in cluster.members /\ Assignment[n] = d /\ n \in Nodes
  BY <1>2, TypeParts DEF NodesOf
<1>4. d = DefaultCompartment
  BY <1>3, OursFacts
<1>5. QED
  BY <1>1, <1>4

\* In a pass that selects, everything picked is of the cluster and unfinished, and so
\* one more batch of the default compartment leaves its picks within the limit.
LEMMA SelectsFew ==
  ASSUME TypeInv, GateConditions, Settled, Covered(cr), Reported, mode = "run", ~Introspected(Copy)
  PROVE  /\ Readied(Copy, Ready)
         /\ Cardinality((Picked(cr.prio) \cup SelectNodes(Ready)) \cap Ours) <= Limit
         /\ Stopped(cr) => SelectNodes(Ready) \cap Ours = {} /\ Stopped(Ready.cr)
<1> DEFINE c == DefaultCompartment
           u == Ready
           S == SelectNodes(u)
           G == GetNodesForNextBatch(u, c)
           running == {n \in StatusIs(u, c, "in_progress") : Eligible(n)}
           sticky == {n \in NodesOf(u, c) : InPrio(u, n) /\ ~IsComplete(u.node[n]) /\ Eligible(n)}
<1>0. /\ Ground /\ Sound(Copy) /\ Copy.cr = cr /\ Copy.node = node /\ Copy.comp = Assignment
      /\ cluster.members \in SUBSET Nodes /\ Ours \subseteq Nodes /\ c \in AllCompartments
      /\ Limit \in Nat
  BY TypeParts, LimitFacts DEF Ours, AllCompartments
<1>1. Readied(Copy, u)
  BY <1>0, ReadyFacts DEF Ready
<1> HIDE DEF u
<1>2. /\ Sound(u) /\ u \in CopyRecords /\ u.comp = Assignment /\ Picked(u.cr.prio) = Picked(cr.prio)
      /\ \A n \in Nodes : Moved(node[n], u.node[n])
      /\ \A n \in cluster.members : IsComplete(u.node[n]) => n \notin Picked(u.cr.prio)
  BY <1>0, <1>1 DEF Readied, Sound
<1>3. NodesOf(u, c) = {n \in cluster.members : n \in Ours}
  <2>1. NodesOf(u, c) = NodesOf(Copy, c)
    BY <1>0, <1>2 DEF NodesOf
  <2>2. QED
    BY <2>1, OursFacts
<1>4. S \cap Ours \subseteq G
  BY <1>2, SelectsOurs
<1>5. Picked(cr.prio) \subseteq cluster.members
  <2>1. ReportState(Copy).cr = cr
    BY DEF Reported
  <2>2. Picked(ReportState(Copy).cr.prio) = Picked(Copy.cr.prio) \cap cluster.members
    BY <1>0, ReportFacts
  <2>3. QED
    BY <1>0, <2>1, <2>2
<1>6. running \subseteq PickedOurs(cr)
  <2> SUFFICES ASSUME NEW n \in running PROVE n \in PickedOurs(cr)
    OBVIOUS
  <2>1. n \in cluster.members /\ n \in Ours /\ u.node[n].status = "in_progress" /\ n \in Nodes
    BY <1>0, <1>3 DEF StatusIs
  <2>2. node[n].status = "in_progress"
    BY <1>2, <2>1 DEF Moved, Upgrades, Settled
  <2>3. ~IsComplete(node[n])
    <3>1. Surveyed(Copy, Introspect(Copy)) /\ Introspect(Copy).node = node
      BY <1>0, IntrospectFacts
    <3>2. Introspect(Copy).cr.status \notin {"paused", "disabled"}
      BY <3>1, RunStatus DEF Surveyed
    <3>3. QED
      BY <2>1, <2>2, <3>1, <3>2 DEF Surveyed
  <2>4. QED
    BY <2>1, <2>2, <2>3 DEF Working, Covered
<1>7. sticky \subseteq PickedOurs(cr)
  BY <1>0, <1>2, <1>3 DEF InPrio, Picked, PickedOurs
<1>8. sticky = {} => PickedOurs(cr) = {}
  <2> SUFFICES ASSUME NEW n \in PickedOurs(cr) PROVE n \in sticky
    OBVIOUS
  <2>1. n \in Picked(u.cr.prio) /\ n \in Ours /\ n \in cluster.members /\ n \in Nodes
    BY <1>0, <1>2, <1>5 DEF PickedOurs
  <2>2. n \in NodesOf(u, c) /\ InPrio(u, n) /\ ~IsComplete(u.node[n]) /\ Eligible(n)
    BY <1>2, <1>3, <2>1 DEF InPrio, Picked, Eligible, Settled
  <2>3. QED
    BY <2>2
<1>9. Cardinality((Picked(cr.prio) \cup S) \cap Ours) <= Limit
  <2>1. (Picked(cr.prio) \cup S) \cap Ours = PickedOurs(cr) \cup (S \cap Ours)
    BY DEF PickedOurs
  <2>2. Cardinality(PickedOurs(cr)) <= Limit
    BY DEF Covered
  <2>3. CASE G \subseteq PickedOurs(cr)
    <3>1. (Picked(cr.prio) \cup S) \cap Ours = PickedOurs(cr)
      BY <1>4, <2>1, <2>3
    <3>2. QED
      BY <2>2, <3>1
  <2>4. CASE PickedOurs(cr) = {} /\ G = CreateNewBatch(u, c)
    <3>1. Cardinality(G) <= Limit /\ G \in SUBSET Nodes
      BY <1>0, <1>2, <1>3, <2>4, NewBatchFacts
    <3>2. (Picked(cr.prio) \cup S) \cap Ours \in SUBSET G
      BY <1>4, <2>1, <2>4
    <3>3. QED
      BY <1>0, <3>1, <3>2, SubsetCounts
  <2>5. G \in {{}, running, sticky} \/ (sticky = {} /\ G = CreateNewBatch(u, c))
    BY DEF GetNodesForNextBatch
  <2>6. QED
    BY <1>6, <1>7, <1>8, <2>3, <2>4, <2>5
<1>10. ASSUME Stopped(cr) PROVE S \cap Ours = {} /\ Stopped(u.cr)
  <2>1. u.batch[c].stop = TRUE /\ Stopped(u.cr)
    BY <1>10, StopReady DEF u
  <2>2. G = {}
    BY <2>1, LimitFacts DEF GetNodesForNextBatch
  <2>3. QED
    BY <1>4, <2>1, <2>2
<1>11. QED
  BY <1>1, <1>9, <1>10 DEF u

\* What a pass leaves as it was when it begins.
LEMMA PassKeeps ==
  ASSUME TypeInv, PassReports \/ PassPauses \/ PassIntrospects \/ PassSelects
  PROVE  /\ UNCHANGED <<mode, policy, cluster, node, cr, orders, used>> /\ pass.pc = "idle"
         /\ \A n \in Nodes : /\ job'[n].phase = "none" <=> job[n].phase = "none"
                             /\ job[n] = NoJob => job'[n] = NoJob
<1>1. job \in [Nodes -> JobRecords]
  BY TypeParts
<1>2. CASE PassReports
  BY <1>2 DEF PassReports
<1>3. CASE PassPauses
  BY <1>1, <1>3 DEF PassPauses, Reported, JobRecords, NoJob
<1>4. ASSUME job' = ResumedJobs
      PROVE  \A n \in Nodes : /\ job'[n].phase = "none" <=> job[n].phase = "none"
                              /\ job[n] = NoJob => job'[n] = NoJob
  BY <1>1, <1>4 DEF ResumedJobs, JobRecords, NoJob
<1>5. CASE PassIntrospects \/ PassSelects
  BY <1>4, <1>5 DEF PassIntrospects, PassSelects, Reported
<1>6. QED
  BY <1>2, <1>3, <1>5

Stop == cr.batch[DefaultCompartment].stop

\* A step of the gate, or none.
GateMoves ==
  \/ Open' = Open /\ Stop' = Stop
  \/ \E n \in Nodes : /\ n \notin Open /\ ~Stop /\ Cardinality(Open) < Limit
                      /\ Open' = Open \cup {n} /\ Stop' = Stop
  \/ \E n \in Nodes : n \in Open /\ Open' = Open \ {n} /\ Stop' = Stop
  \/ Open' = Open /\ ~Stop /\ Stop' = TRUE
  \/ Open' = Open /\ Open = {} /\ Stop /\ Stop' = FALSE

LEMMA StopTypes ==
  ASSUME TypeInv
  PROVE  Stop \in BOOLEAN /\ Open \in SUBSET Nodes /\ (Stopped(cr) <=> Stop = TRUE)
<1>1. DefaultCompartment \in AllCompartments /\ cr.batch \in [AllCompartments -> BatchRecords]
  BY TypeParts DEF AllCompartments, StatusRecords
<1>2. Stop \in BOOLEAN
  BY <1>1 DEF Stop, BatchRecords
<1>3. QED
  BY <1>2, TypeParts DEF Stop, Stopped, Open

\* A pass begins with the copy w, and the gate does not move.
LEMMA GateNewPass ==
  ASSUME TypeInv, GateInv, pass.pc = "idle", UNCHANGED <<mode, policy, cluster, node, cr>>,
         \A n \in Nodes : /\ job'[n].phase = "none" <=> job[n].phase = "none"
                          /\ job[n] = NoJob => job'[n] = NoJob,
         NEW w, NEW pc \in {"run", "save"}, NEW S \in SUBSET Nodes,
         pass' = [pc |-> pc, snap |-> node, mem |-> w, todo |-> S],
         Cardinality(PickedOurs(w.cr)) <= Limit,
         \A n \in Nodes : Working(n) => n \in PickedOurs(w.cr),
         \A n \in Ours : /\ SameEntry(w.node[n], node[n])
                         /\ w.node[n].status = "in_progress" => node[n].status = "in_progress",
         Stopped(cr) /\ ~Stopped(w.cr) => Open = {},
         pc = "run" => \A n \in S \cap Ours : n \in PickedOurs(w.cr) /\ ~Stopped(cr)
  PROVE  GateInv' /\ Open' = Open /\ Stop' = Stop
<1>1. Open' = Open /\ Stop' = Stop
  BY TypeParts DEF Open, Touched, Stop
<1>2. Settled'
  BY DEF GateInv, Settled
<1>3. pass'.pc = pc /\ pass'.snap = node /\ pass'.mem = w /\ pass'.todo = S
  OBVIOUS
<1>4. \A n \in Nodes : Working(n)' => Working(n)
  BY DEF Working
<1>5. Covered(pass.mem.cr)'
  <2>1. /\ Cardinality(PickedOurs(pass'.mem.cr)) <= Limit
        /\ \A n \in Nodes : Working(n)' => n \in PickedOurs(pass'.mem.cr)
    BY <1>3, <1>4
  <2>2. QED
    BY <2>1 DEF Covered
<1>6. \A n \in Ours : /\ SameEntry(pass'.mem.node[n], pass'.snap[n])
                      /\ pass'.mem.node[n].status = "in_progress" => pass'.snap[n].status = "in_progress"
  BY <1>3
<1>7. Stopped(cr') /\ ~Stopped(pass'.mem.cr) => Open' = {}
  BY <1>1, <1>3
<1>8. pass'.pc = "run" => \A n \in pass'.todo \cap Ours : n \in PickedOurs(pass'.mem.cr) /\ ~Stopped(cr')
  BY <1>3
<1>9. Promised'
  BY <1>5, <1>6, <1>7, <1>8 DEF Promised
<1>10. QED
  BY <1>1, <1>2, <1>3, <1>9 DEF GateInv

LEMMA GatePass ==
  ASSUME TypeInv, GateInv, GateConditions, PassReports \/ PassPauses \/ PassIntrospects \/ PassSelects
  PROVE  GateInv' /\ Open' = Open /\ Stop' = Stop
<1>0. /\ Ground /\ Sound(Copy) /\ Copy.cr = cr /\ Copy.node = node /\ Copy.comp = Assignment
      /\ cluster.members \in SUBSET Nodes /\ Ours \subseteq Nodes /\ Limit \in Nat
      /\ DefaultCompartment \in AllCompartments /\ cr.prio \in [Nodes -> Nat]
  BY TypeParts, LimitFacts DEF Ours, AllCompartments, StatusRecords
<1>1. /\ UNCHANGED <<mode, policy, cluster, node, cr>> /\ pass.pc = "idle"
      /\ \A n \in Nodes : /\ job'[n].phase = "none" <=> job[n].phase = "none"
                          /\ job[n] = NoJob => job'[n] = NoJob
  BY PassKeeps
<1>2. Settled /\ Covered(cr)
  BY <1>1 DEF GateInv
<1>3. Cardinality(PickedOurs(cr)) <= Limit /\ (\A n \in Nodes : Working(n) => n \in PickedOurs(cr))
      /\ PickedOurs(cr) \in SUBSET Nodes
  BY <1>2 DEF Covered, PickedOurs, Picked
<1>4. \A n \in Nodes : node[n].old = FALSE
  BY <1>2 DEF Settled
<1>5. CASE PassReports
  <2> DEFINE w == ReportState(Copy)
  <2>1. /\ w.node = node /\ Picked(w.cr.prio) = Picked(cr.prio) \cap cluster.members
        /\ w.cr.batch[DefaultCompartment] = StoredBatch(DefaultCompartment, Copy.batch[DefaultCompartment])
    BY <1>0, <1>2, ReportFacts, OursFacts
  <2>2. pass' = [pc |-> "save", snap |-> node, mem |-> w, todo |-> cluster.members]
    BY <1>5, PassSteps
  <2> HIDE DEF w
  <2>3. Stopped(cr) => Stopped(w.cr)
    BY <1>2, <2>1, StopCopied, LimitFacts DEF StoredBatch, Stopped
  <2>4. PickedOurs(w.cr) \in SUBSET PickedOurs(cr) /\ \A n \in Nodes : Working(n) => n \in PickedOurs(w.cr)
    BY <1>3, <2>1 DEF PickedOurs, Working
  <2>5. Cardinality(PickedOurs(w.cr)) <= Limit
    BY <1>0, <1>3, <2>4, SubsetCounts
  <2>6. \A n \in Ours : SameEntry(w.node[n], node[n]) /\ (w.node[n].status = "in_progress" => node[n].status = "in_progress")
    BY <2>1 DEF SameEntry
  <2>7. QED
    BY <1>0, <1>1, <2>2, <2>3, <2>4, <2>5, <2>6, GateNewPass
<1>6. CASE PassPauses
  <2> DEFINE w == UpdateSkyhookPauseStatus(Copy)
  <2>1. /\ w.cr.prio = cr.prio /\ w.cr.batch = cr.batch
        /\ \A n \in Nodes : Reviewed(node[n], w.node[n])
    BY <1>0, PauseFacts
  <2>2. pass' = pass \/ pass' = [pc |-> "save", snap |-> node, mem |-> w, todo |-> cluster.members]
    BY <1>6, PassSteps
  <2> HIDE DEF w
  <2>3. PickedOurs(w.cr) = PickedOurs(cr) /\ (Stopped(cr) => Stopped(w.cr))
    BY <2>1 DEF PickedOurs, Stopped
  <2>4. \A n \in Ours : SameEntry(w.node[n], node[n]) /\ (w.node[n].status = "in_progress" => node[n].status = "in_progress")
    BY <1>0, <2>1 DEF SameEntry, Reviewed
  <2>5. CASE pass' = pass
    <3>1. Open' = Open /\ Stop' = Stop
      BY <1>0, <1>1 DEF Open, Touched, Stop
    <3>2. Settled'
      BY <1>1, <1>2 DEF Settled
    <3>3. \A n \in Nodes : Working(n)' => Working(n)
      BY <1>1 DEF Working
    <3>4. Covered(cr)'
      <4>1. Cardinality(PickedOurs(cr')) <= Limit /\ (\A n \in Nodes : Working(n)' => n \in PickedOurs(cr'))
        BY <1>1, <1>3, <3>3
      <4>2. QED
        BY <4>1 DEF Covered
    <3>5. QED
      BY <1>1, <2>5, <3>1, <3>2, <3>4 DEF GateInv
  <2>6. CASE pass' = [pc |-> "save", snap |-> node, mem |-> w, todo |-> cluster.members]
    BY <1>0, <1>1, <1>3, <2>3, <2>4, <2>6, GateNewPass
  <2>7. QED
    BY <2>2, <2>5, <2>6
<1>7. CASE PassIntrospects
  <2> DEFINE w == Introspect(Copy)
  <2>1. Surveyed(Copy, w)
    BY <1>0, IntrospectFacts
  <2>2. pass' = [pc |-> "save", snap |-> node, mem |-> w, todo |-> cluster.members]
    BY <1>7, PassSteps
  <2>3. ASSUME Stopped(cr), ~Stopped(w.cr) PROVE Open = {}
    <3>1. NodeWrightStatus(Copy) = "complete"
      BY <1>2, <2>3, StopIntrospected
    <3>2. CollectNodeStatus(Copy) = "complete"
      BY <3>1 DEF NodeWrightStatus
    <3>3. \A n \in cluster.members : IsComplete(node[n])
      BY <1>0, <3>2 DEF CollectNodeStatus
    <3>4. QED
      BY <3>3 DEF Open, Touched
  <2> HIDE DEF w
  <2>4. /\ \A n \in Nodes : Reviewed(node[n], w.node[n])
        /\ \A n \in Done(w) : IsComplete(w.node[n])
        /\ Picked(w.cr.prio) = Picked(cr.prio) \ Done(w)
    BY <1>0, <2>1 DEF Surveyed, Done
  <2>5. PickedOurs(w.cr) \in SUBSET PickedOurs(cr) /\ \A n \in Nodes : Working(n) => n \in PickedOurs(w.cr)
    BY <1>3, <2>4 DEF PickedOurs, Working, Reviewed, IsComplete
  <2>6. Cardinality(PickedOurs(w.cr)) <= Limit
    BY <1>0, <1>3, <2>5, SubsetCounts
  <2>7. \A n \in Ours : SameEntry(w.node[n], node[n]) /\ (w.node[n].status = "in_progress" => node[n].status = "in_progress")
    BY <1>0, <2>4 DEF SameEntry, Reviewed
  <2>8. QED
    BY <1>0, <1>1, <2>2, <2>3, <2>5, <2>6, <2>7, GateNewPass
<1>8. CASE PassSelects
  <2> DEFINE S == SelectNodes(Ready)
             w == UpsertPick(Ready, S)
  <2>1. Reported /\ mode = "run" /\ ~Introspected(Copy)
    BY <1>8 DEF PassSelects
  <2>2. /\ Readied(Copy, Ready) /\ Cardinality((Picked(cr.prio) \cup S) \cap Ours) <= Limit
        /\ Stopped(cr) => S \cap Ours = {} /\ Stopped(Ready.cr)
    BY <1>2, <2>1, SelectsFew
  <2>3. pass' = [pc |-> "run", snap |-> node, mem |-> w, todo |-> S]
    BY <1>8, PassSteps DEF Ready
  <2>4. S \in SUBSET Nodes
    BY <1>0, SelectFacts
  <2>5. /\ w.node = Ready.node /\ w.cr.batch = Ready.cr.batch
        /\ Picked(w.cr.prio) = Picked(cr.prio) \cup S
    <3> HIDE DEF S
    <3>1. Ready \in CopyRecords /\ Positioned(Ready.cr.prio) /\ Picked(Ready.cr.prio) = Picked(cr.prio)
      BY <1>0, <2>2 DEF Readied, Sound
    <3>2. QED
      BY <2>4, <3>1, UpsertFacts
  <2> HIDE DEF S, w
  <2>6. PickedOurs(w.cr) = (Picked(cr.prio) \cup S) \cap Ours
    BY <2>5 DEF PickedOurs
  <2>7. Cardinality(PickedOurs(w.cr)) <= Limit /\ \A n \in Nodes : Working(n) => n \in PickedOurs(w.cr)
    BY <1>3, <2>2, <2>6 DEF PickedOurs
  <2>8. \A n \in Ours : SameEntry(w.node[n], node[n]) /\ (w.node[n].status = "in_progress" => node[n].status = "in_progress")
    <3>1. \A n \in Nodes : Moved(node[n], w.node[n])
      BY <1>0, <2>2, <2>5 DEF Readied
    <3>2. QED
      BY <1>0, <1>4, <3>1 DEF Moved, Upgrades, SameEntry
  <2>9. Stopped(cr) => Stopped(w.cr) /\ S \cap Ours = {}
    BY <2>2, <2>5 DEF Stopped
  <2>10. \A n \in S \cap Ours : n \in PickedOurs(w.cr) /\ ~Stopped(cr)
    BY <2>6, <2>9
  <2>11. QED
    BY <1>1, <2>3, <2>4, <2>7, <2>8, <2>9, <2>10, GateNewPass
<1>9. QED
  BY <1>5, <1>6, <1>7, <1>8

LEMMA WorkIsCovered ==
  ASSUME TypeInv, GateInv, pass.pc # "idle"
  PROVE  /\ Settled /\ Promised /\ Covered(pass.mem.cr)
         /\ Open \subseteq PickedOurs(pass.mem.cr) /\ PickedOurs(pass.mem.cr) \in SUBSET Nodes
<1>1. Settled /\ Promised /\ Covered(pass.mem.cr)
  BY DEF GateInv, Promised
<1>2. \A n \in Open : n \in Nodes /\ Working(n)
  BY TypeParts DEF Open, Touched, Working
<1>3. QED
  BY <1>1, <1>2 DEF Covered, PickedOurs, Picked

\* There is room for one more of the nodes picked.
LEMMA Room ==
  ASSUME TypeInv, GateInv, GateConditions, pass.pc # "idle", NEW n \in PickedOurs(pass.mem.cr), n \notin Open
  PROVE  Cardinality(Open) < Limit
<1> DEFINE P == PickedOurs(pass.mem.cr)
<1>1. Open \in SUBSET P /\ P \in SUBSET Nodes /\ Cardinality(P) <= Limit /\ Open # P
  BY WorkIsCovered DEF Covered
<1>2. Limit \in Nat
  BY LimitFacts
<1> HIDE DEF P
<1>3. /\ Cardinality(Open) \in Nat /\ Cardinality(P) \in Nat /\ Cardinality(Open) <= Cardinality(P)
      /\ Cardinality(Open) # Cardinality(P)
  BY <1>1, SubsetCounts
<1>4. QED
  BY <1>1, <1>2, <1>3

LEMMA GateRun ==
  ASSUME TypeInv, GateInv, GateConditions, NEW n \in Nodes, RunNode(n)
  PROVE  GateInv' /\ GateMoves
<1>1. /\ pass.pc = "run" /\ n \in pass.todo /\ pass'.pc = "run" /\ pass'.snap = pass.snap
      /\ pass'.todo = pass.todo \ {n} /\ pass'.mem.cr = pass.mem.cr
      /\ UNCHANGED <<mode, policy, cluster, node, cr, used>>
      /\ Creates(n) \/ Leaves(n)
  BY RunFacts
<1>2. /\ job \in [Nodes -> JobRecords] /\ cluster.members \in SUBSET Nodes /\ Ours \subseteq Nodes
      /\ Stop \in BOOLEAN /\ (Stopped(cr) <=> Stop = TRUE)
  BY TypeParts, StopTypes DEF Ours
<1>3. /\ Settled /\ Promised /\ Covered(pass.mem.cr)
      /\ n \in Ours => n \in PickedOurs(pass.mem.cr) /\ ~Stopped(cr)
  BY <1>1, WorkIsCovered DEF Promised
<1>4. Stop' = Stop
  BY <1>1 DEF Stop
<1>5. \A m \in Nodes \ {n} : job'[m] = job[m]
  BY <1>1, <1>2 DEF Creates, Leaves
<1>6. job'[n].phase # "none" => n \in cluster.members
  BY <1>1, <1>2, <1>3 DEF Creates, Leaves, Settled, NoJob
<1>7. \A m \in Nodes : m \notin cluster.members => job'[m] = NoJob
  <2>1. n \notin cluster.members => job'[n] = NoJob
    BY <1>1, <1>2, <1>3 DEF Creates, Leaves, Settled, NoJob
  <2>2. QED
    BY <1>3, <1>5, <2>1 DEF Settled
<1>8. Settled'
  BY <1>1, <1>3, <1>7 DEF Settled
<1>9. Open' = Open \/ (n \in Open /\ Open' = Open \ {n}) \/ (n \notin Open /\ n \in Ours /\ Open' = Open \cup {n})
  <2>1. \A m \in Nodes \ {n} : m \in Open' <=> m \in Open
    BY <1>1, <1>5 DEF Open, Touched
  <2>2. n \in Open' => n \in Ours
    BY DEF Open
  <2>3. Open \in SUBSET Nodes /\ Open' \in SUBSET Nodes
    BY <1>1, <1>2 DEF Open
  <2>4. QED
    BY <2>1, <2>2, <2>3
<1>10. GateMoves
  <2>1. CASE n \notin Open /\ n \in Ours /\ Open' = Open \cup {n}
    BY <1>1, <1>2, <1>3, <1>4, <2>1, Room DEF GateMoves
  <2>2. QED
    BY <1>4, <1>9, <2>1 DEF GateMoves
<1>11. Covered(pass.mem.cr)'
  <2>1. \A m \in Nodes : Working(m)' => m \in PickedOurs(pass.mem.cr)
    <3>1. \A m \in Nodes \ {n} : Working(m)' => Working(m)
      BY <1>1, <1>5 DEF Working
    <3>2. Working(n)' => n \in Ours
      BY DEF Working
    <3>3. QED
      BY <1>3, <3>1, <3>2 DEF Covered
  <2>2. /\ Cardinality(PickedOurs(pass'.mem.cr)) <= Limit
        /\ \A m \in Nodes : Working(m)' => m \in PickedOurs(pass'.mem.cr)
    BY <1>1, <1>3, <2>1 DEF Covered
  <2>3. QED
    BY <2>2 DEF Covered
<1>12. ASSUME NEW m \in Ours
       PROVE  /\ ~SameEntry(pass'.mem.node[m], pass'.snap[m]) => m \in PickedOurs(pass'.mem.cr) /\ ~Stopped(cr')
              /\ pass'.mem.node[m].status = "in_progress" /\ pass'.snap[m].status # "in_progress"
                   => m \in PickedOurs(pass'.mem.cr)
  <2>1. CASE m = n
    BY <1>1, <1>3, <2>1
  <2>2. CASE m # n
    <3>1. pass'.mem.node[m] = pass.mem.node[m]
      BY <1>1, <1>2, <2>2 DEF Creates, Leaves
    <3>2. Pending(m)
      BY <1>1 DEF Pending
    <3>3. QED
      BY <1>1, <1>3, <3>1, <3>2 DEF Promised
  <2>3. QED
    BY <2>1, <2>2
<1>13. Stopped(cr') /\ ~Stopped(pass'.mem.cr) => Open' = {}
  <2>1. Stopped(cr) /\ ~Stopped(pass.mem.cr) => Open = {} /\ n \notin Ours
    BY <1>3 DEF Promised
  <2>2. QED
    BY <1>1, <1>9, <2>1
<1>14. \A m \in pass'.todo \cap Ours : m \in PickedOurs(pass'.mem.cr) /\ ~Stopped(cr')
  BY <1>1, <1>3 DEF Promised
<1>15. Promised'
  BY <1>11, <1>12, <1>13, <1>14 DEF Promised
<1>16. QED
  BY <1>1, <1>8, <1>10, <1>15 DEF GateInv

LEMMA SaveFacts ==
  ASSUME TypeInv, NEW n \in Nodes, SaveNode(n)
  PROVE  /\ pass.pc = "save" /\ n \in pass.todo /\ pass'.pc = "save" /\ pass'.snap = pass.snap
         /\ pass'.todo = pass.todo \ {n}
         /\ UNCHANGED <<mode, policy, cluster, job, cr, orders, used>>
         /\ \A m \in Nodes \ {n} : node'[m] = node[m]
         /\ node'[n] = node[n] \/ (n \in cluster.members /\ node'[n] = SavedNode(n))
         /\ pass'.mem.node = pass.mem.node /\ pass'.mem.cr.batch = pass.mem.cr.batch
         /\ pass'.mem.comp = pass.mem.comp
         /\ \/ pass'.mem = pass.mem
            \/ /\ IsComplete(node'[n]) /\ Picked(pass'.mem.cr.prio) = Picked(pass.mem.cr.prio) \ {n}
               /\ pass'.mem.cr.offset = pass.mem.cr.offset + Cardinality(Picked(pass.mem.cr.prio) \cap {n})
<1> DEFINE changed == pass.snap[n] # pass.mem.node[n]
           after == IF changed /\ n \in cluster.members THEN SavedNode(n) ELSE node[n]
           mem == IF changed /\ IsComplete(after) THEN RemoveNodePriority(pass.mem, {n}) ELSE pass.mem
<1>0. /\ Sound(pass.mem) /\ pass \in PassRecords /\ node \in [Nodes -> NodeRecords]
  BY TypeParts
<1>1. /\ node' = [node EXCEPT ![n] = after] /\ pass' = [pass EXCEPT !.todo = @ \ {n}, !.mem = mem]
      /\ pass.pc = "save" /\ n \in pass.todo
      /\ UNCHANGED <<mode, policy, cluster, job, cr, orders, used>>
  BY DEF SaveNode
<1>2. /\ mem.node = pass.mem.node /\ mem.cr.batch = pass.mem.cr.batch /\ mem.comp = pass.mem.comp
      /\ \/ mem = pass.mem
         \/ /\ IsComplete(after) /\ Picked(mem.cr.prio) = Picked(pass.mem.cr.prio) \ {n}
            /\ mem.cr.offset = pass.mem.cr.offset + Cardinality(Picked(pass.mem.cr.prio) \cap {n})
  <2> DEFINE S == {n}
  <2>1. S \in SUBSET Nodes /\ pass.mem \in CopyRecords /\ Positioned(pass.mem.cr.prio)
    BY <1>0 DEF Sound
  <2> HIDE DEF S
  <2>2. LET v == RemoveNodePriority(pass.mem, S) IN
        /\ v.node = pass.mem.node /\ v.cr.batch = pass.mem.cr.batch /\ v.comp = pass.mem.comp
        /\ Picked(v.cr.prio) = Picked(pass.mem.cr.prio) \ S
        /\ v.cr.offset = pass.mem.cr.offset + Cardinality(Picked(pass.mem.cr.prio) \cap S)
    BY <2>1, RemoveFacts
  <2>3. CASE changed /\ IsComplete(after)
    BY <2>2, <2>3 DEF S
  <2>4. CASE ~(changed /\ IsComplete(after))
    BY <2>4
  <2>5. QED
    BY <2>3, <2>4
<1>3. after = node[n] \/ (n \in cluster.members /\ after = SavedNode(n))
  OBVIOUS
<1> HIDE DEF mem, after
<1>4. pass'.snap = pass.snap /\ pass'.mem = mem /\ pass'.pc = pass.pc /\ pass'.todo = pass.todo \ {n}
  BY <1>0, <1>1 DEF PassRecords
<1>5. node'[n] = after /\ \A m \in Nodes \ {n} : node'[m] = node[m]
  BY <1>0, <1>1
<1>6. QED
  BY <1>1, <1>2, <1>3, <1>4, <1>5

LEMMA GateSave ==
  ASSUME TypeInv, GateInv, GateConditions, NEW n \in Nodes, SaveNode(n)
  PROVE  GateInv' /\ GateMoves
<1> DEFINE P == PickedOurs(pass.mem.cr)
<1>1. /\ pass.pc = "save" /\ n \in pass.todo /\ pass'.pc = "save" /\ pass'.snap = pass.snap
      /\ pass'.todo = pass.todo \ {n}
      /\ UNCHANGED <<mode, policy, cluster, job, cr, orders, used>>
      /\ \A m \in Nodes \ {n} : node'[m] = node[m]
      /\ node'[n] = node[n] \/ (n \in cluster.members /\ node'[n] = SavedNode(n))
      /\ pass'.mem.node = pass.mem.node /\ pass'.mem.cr.batch = pass.mem.cr.batch
  BY SaveFacts
<1>2. /\ cluster.members \in SUBSET Nodes /\ Ours \subseteq Nodes
      /\ Stop \in BOOLEAN /\ (Stopped(cr) <=> Stop = TRUE)
  BY TypeParts, StopTypes DEF Ours
<1>3. Settled /\ Promised /\ Covered(pass.mem.cr) /\ Pending(n) /\ P \in SUBSET Nodes
  BY <1>1, WorkIsCovered DEF Pending
<1>4. /\ PickedOurs(pass'.mem.cr) \in SUBSET P
      /\ \A m \in P : m \in PickedOurs(pass'.mem.cr) \/ (m = n /\ IsComplete(node'[n]))
  <2>1. \/ pass'.mem = pass.mem
        \/ (IsComplete(node'[n]) /\ Picked(pass'.mem.cr.prio) = Picked(pass.mem.cr.prio) \ {n})
    BY SaveFacts
  <2>2. QED
    BY <2>1 DEF PickedOurs
<1>5. node'[n].old = FALSE
  BY <1>1, <1>3, SavedFacts DEF Settled
<1>6. Settled'
  BY <1>1, <1>3, <1>5 DEF Settled
<1>7. Stop' = Stop
  BY <1>1 DEF Stop
<1>8. ASSUME n \in Ours, ~SameEntry(node'[n], node[n]) PROVE n \in P /\ ~Stopped(cr)
  <2>1. ~SameEntry(pass.mem.node[n], pass.snap[n])
    BY <1>1, <1>8, SavedFacts DEF SameEntry
  <2>2. QED
    BY <1>3, <1>8, <2>1 DEF Promised
<1>9. ASSUME n \in Ours, node'[n].status = "in_progress", node[n].status # "in_progress" PROVE n \in P
  <2>1. pass.mem.node[n].status = "in_progress" /\ pass.snap[n].status # "in_progress"
    BY <1>1, <1>9, SavedFacts
  <2>2. QED
    BY <1>3, <1>9, <2>1 DEF Promised
<1>10. Open' = Open \/ (n \in Open /\ Open' = Open \ {n})
       \/ (n \notin Open /\ n \in P /\ ~Stopped(cr) /\ Open' = Open \cup {n})
  <2>1. \A m \in Nodes \ {n} : m \in Open' <=> m \in Open
    BY <1>1 DEF Open, Touched
  <2>2. n \in Open' /\ n \notin Open => n \in Ours /\ ~SameEntry(node'[n], node[n])
    BY <1>1 DEF Open, Touched, SameEntry, IsComplete
  <2>3. Open \in SUBSET Nodes /\ Open' \in SUBSET Nodes
    BY <1>1, <1>2 DEF Open
  <2>4. QED
    BY <1>8, <2>1, <2>2, <2>3
<1>11. GateMoves
  <2>1. CASE n \notin Open /\ n \in P /\ ~Stopped(cr) /\ Open' = Open \cup {n}
    BY <1>1, <1>2, <1>7, <2>1, Room DEF GateMoves
  <2>2. QED
    BY <1>7, <1>10, <2>1 DEF GateMoves
<1>12. Covered(pass.mem.cr)'
  <2>1. \A m \in Nodes \ {n} : Working(m)' => Working(m)
    BY <1>1 DEF Working
  <2>2. Working(n)' => n \in P /\ ~IsComplete(node'[n])
    <3>1. Working(n)' => Working(n) \/ (n \in Ours /\ ~SameEntry(node'[n], node[n]))
                         \/ (n \in Ours /\ node'[n].status = "in_progress" /\ node[n].status # "in_progress")
      BY <1>1 DEF Working, SameEntry, IsComplete
    <3>2. Working(n)' => ~IsComplete(node'[n])
      BY DEF Working, IsComplete
    <3>3. QED
      BY <1>3, <1>8, <1>9, <3>1, <3>2 DEF Covered
  <2>3. \A m \in Nodes : Working(m)' => m \in PickedOurs(pass'.mem.cr)
    BY <1>3, <1>4, <2>1, <2>2 DEF Covered
  <2>4. Cardinality(PickedOurs(pass'.mem.cr)) <= Limit
    <3>1. Cardinality(P) <= Limit /\ Limit \in Nat
      BY <1>3, LimitFacts DEF Covered
    <3>2. QED
      BY <1>3, <1>4, <3>1, SubsetCounts
  <2>5. QED
    BY <2>3, <2>4 DEF Covered
<1>13. ASSUME NEW m \in Ours, Pending(m)'
       PROVE  /\ ~SameEntry(pass'.mem.node[m], pass'.snap[m]) => m \in PickedOurs(pass'.mem.cr) /\ ~Stopped(cr')
              /\ pass'.mem.node[m].status = "in_progress" /\ pass'.snap[m].status # "in_progress"
                   => m \in PickedOurs(pass'.mem.cr)
  <2>1. m # n /\ Pending(m)
    BY <1>1, <1>13 DEF Pending
  <2>2. m \in P => m \in PickedOurs(pass'.mem.cr)
    BY <1>4, <2>1
  <2>3. QED
    BY <1>1, <1>3, <2>1, <2>2 DEF Promised
<1>14. Stopped(cr') /\ ~Stopped(pass'.mem.cr) => Open' = {}
  <2>1. Stopped(cr) /\ ~Stopped(pass.mem.cr) => Open = {}
    BY <1>3 DEF Promised
  <2>2. QED
    BY <1>1, <1>10, <2>1 DEF Stopped
<1>15. Promised'
  BY <1>1, <1>12, <1>13, <1>14 DEF Promised
<1>16. QED
  BY <1>1, <1>6, <1>11, <1>15 DEF GateInv

\* Steps that change neither the status nor the pass, and add no work.
LEMMA GateLess ==
  ASSUME TypeInv, GateInv, Settled', UNCHANGED <<cr, pass>>, \A m \in Nodes : Working(m)' => Working(m),
         Open' = {} \/ Open # {}
  PROVE  GateInv'
<1>1. \A st : Covered(st) => Cardinality(PickedOurs(st)) <= Limit /\ \A m \in Nodes : Working(m)' => m \in PickedOurs(st)
  BY DEF Covered
<1>2. pass.pc = "idle" => Covered(cr)'
  <2>1. pass.pc = "idle" => Cardinality(PickedOurs(cr')) <= Limit /\ \A m \in Nodes : Working(m)' => m \in PickedOurs(cr')
    BY <1>1 DEF GateInv
  <2>2. QED
    BY <2>1 DEF Covered
<1>3. pass.pc # "idle" => Promised'
  <2> SUFFICES ASSUME pass.pc # "idle" PROVE Promised'
    OBVIOUS
  <2>0. Promised
    BY DEF GateInv
  <2>1. Cardinality(PickedOurs(pass'.mem.cr)) <= Limit /\ \A m \in Nodes : Working(m)' => m \in PickedOurs(pass'.mem.cr)
    BY <1>1, <2>0 DEF Promised
  <2>2. Covered(pass.mem.cr)'
    BY <2>1 DEF Covered
  <2>3. \A m \in Ours : Pending(m)' => Pending(m)
    BY DEF Pending
  <2>4. QED
    BY <2>0, <2>2, <2>3 DEF Promised
<1>4. QED
  BY <1>2, <1>3 DEF GateInv

LEMMA GateEnd ==
  ASSUME TypeInv, GateInv, GateConditions, RunEnds \/ SaveStatus \/ Crash
  PROVE  GateInv' /\ GateMoves
<1>0. /\ Stop \in BOOLEAN /\ (Stopped(cr) <=> Stop = TRUE) /\ pass \in PassRecords
      /\ used \in [edits: Nat, failures: Nat, crashes: Nat]
  BY TypeParts, StopTypes
<1>1. CASE RunEnds
  <2>1. /\ pass.pc = "run" /\ pass'.pc = "save" /\ pass'.snap = pass.snap /\ pass'.mem = pass.mem
        /\ UNCHANGED <<mode, policy, cluster, node, job, cr, orders, used>>
    BY <1>0, <1>1 DEF RunEnds, PassRecords
  <2>2. Open' = Open /\ Stop' = Stop /\ (Settled' <=> Settled) /\ \A m \in Nodes : Working(m)' <=> Working(m)
    BY <2>1 DEF Open, Touched, Stop, Settled, Working
  <2>3. Promised /\ Settled /\ Covered(pass.mem.cr)
    BY <2>1, WorkIsCovered
  <2>4. Cardinality(PickedOurs(pass'.mem.cr)) <= Limit /\ \A m \in Nodes : Working(m)' => m \in PickedOurs(pass'.mem.cr)
    BY <2>1, <2>2, <2>3 DEF Covered
  <2>5. Covered(pass.mem.cr)'
    BY <2>4 DEF Covered
  <2>6. \A m \in Ours : Pending(m)
    BY <2>1 DEF Pending
  <2>7. Promised'
    BY <2>1, <2>2, <2>3, <2>5, <2>6 DEF Promised
  <2>8. QED
    BY <2>1, <2>2, <2>3, <2>7 DEF GateInv, GateMoves
<1>2. CASE SaveStatus
  <2>1. /\ pass.pc = "save" /\ cr' = pass.mem.cr /\ pass'.pc = "idle"
        /\ UNCHANGED <<mode, policy, cluster, node, job, orders, used>>
    BY <1>2 DEF SaveStatus, IdlePass
  <2>2. Open' = Open /\ (Settled' <=> Settled) /\ \A m \in Nodes : Working(m)' <=> Working(m)
    BY <2>1 DEF Open, Touched, Settled, Working
  <2>3. Promised /\ Settled /\ Covered(pass.mem.cr)
    BY <2>1, WorkIsCovered
  <2>4. Cardinality(PickedOurs(cr')) <= Limit /\ \A m \in Nodes : Working(m)' => m \in PickedOurs(cr')
    BY <2>1, <2>2, <2>3 DEF Covered
  <2>5. Covered(cr)'
    BY <2>4 DEF Covered
  <2>6. Stop' = pass.mem.cr.batch[DefaultCompartment].stop
    BY <2>1 DEF Stop
  <2>7. Stop' \in BOOLEAN
    <3>1. pass.mem.cr.batch \in [AllCompartments -> BatchRecords] /\ DefaultCompartment \in AllCompartments
      BY TypeParts, CopyTypes DEF AllCompartments
    <3>2. QED
      BY <2>6, <3>1 DEF BatchRecords
  <2>8. Stop = TRUE /\ Stop' = FALSE => Open = {}
    BY <1>0, <2>3, <2>6 DEF Promised, Stopped
  <2>9. GateMoves
    BY <1>0, <2>2, <2>7, <2>8 DEF GateMoves
  <2>10. QED
    BY <2>1, <2>2, <2>3, <2>5, <2>9 DEF GateInv
<1>3. CASE Crash
  BY <1>0, <1>3 DEF Crash, GateConditions
<1>4. QED
  BY <1>1, <1>2, <1>3

LEMMA GateJobs ==
  ASSUME TypeInv, GateInv, NEW n \in Nodes, JobSucceeds(n) \/ AttemptFails(n) \/ JobFails(n) \/ JobExpires(n)
  PROVE  GateInv' /\ GateMoves
<1>0. /\ Settled /\ node \in [Nodes -> NodeRecords] /\ Entry(node[n]) /\ cluster.members \in SUBSET Nodes
      /\ Open \in SUBSET Nodes
  BY TypeParts, StopTypes DEF GateInv, TypeInv
<1>1. /\ UNCHANGED <<mode, policy, cluster, cr, pass, orders>>
      /\ \A m \in Nodes \ {n} : node'[m] = node[m] /\ job'[m] = job[m]
      /\ job'[n].phase # "none" => job[n].phase = "active"
  BY JobFacts
<1>2. job[n].phase \in {"active", "failed"}
  BY DEF JobSucceeds, AttemptFails, JobFails, JobExpires
<1>3. n \in cluster.members
  BY <1>0, <1>2 DEF Settled, NoJob
<1>4. \/ node' = node
      \/ (~IsComplete(node[n]) /\ node[n].stage > 0 /\ node'[n].stage = node[n].stage /\ node'[n].old = FALSE
          /\ (node'[n].status = "in_progress" => node[n].status = "in_progress"))
  <2>1. \/ node' = node
        \/ (EntryOpen(n) /\ node'[n].status = node[n].status /\ node'[n].stage = node[n].stage /\ node'[n].old = FALSE)
        \/ (EntryOpen(n) /\ node'[n].status = "erroring" /\ node'[n].stage = node[n].stage /\ node'[n].old = node[n].old)
    BY JobFacts
  <2>2. EntryOpen(n) => ~IsComplete(node[n]) /\ node[n].stage > 0
    BY <1>0 DEF EntryOpen, IsComplete, Entry, NodeRecords
  <2>3. node[n].old = FALSE
    BY <1>0 DEF Settled
  <2>4. QED
    BY <2>1, <2>2, <2>3
<1>5. Settled'
  BY <1>0, <1>1, <1>3, <1>4 DEF Settled
<1>6. \A m \in Nodes : Working(m)' => Working(m)
  <2>1. \A m \in Nodes \ {n} : Working(m)' => Working(m)
    BY <1>1 DEF Working
  <2>2. Working(n)' => Working(n)
    BY <1>1, <1>2, <1>4 DEF Working
  <2>3. QED
    BY <2>1, <2>2
<1>7. Open' = Open \/ (n \in Open /\ Open' = Open \ {n})
  <2>1. \A m \in Nodes \ {n} : m \in Open' <=> m \in Open
    BY <1>1 DEF Open, Touched
  <2>2. n \in Open' => n \in Open
    BY <1>1, <1>2, <1>4 DEF Open, Touched
  <2>3. Open' \in SUBSET Nodes
    BY <1>0, <1>1 DEF Open
  <2>4. QED
    BY <1>0, <2>1, <2>2, <2>3
<1>8. GateMoves
  BY <1>1, <1>7 DEF GateMoves, Stop
<1>9. GateInv'
  BY <1>1, <1>5, <1>6, <1>7, GateLess
<1>10. QED
  BY <1>8, <1>9

LEMMA GateEdits ==
  ASSUME TypeInv, GateInv, GateConditions, Edits
  PROVE  GateInv' /\ GateMoves
<1>0. /\ Settled /\ cluster.members \in SUBSET Nodes /\ Open \in SUBSET Nodes /\ cluster \in ClusterRecords
      /\ node \in [Nodes -> NodeRecords] /\ job \in [Nodes -> JobRecords]
  BY TypeParts, StopTypes DEF GateInv, Ground
<1>1. EditMode \/ \E n \in Nodes : NodeLeaves(n) \/ NodeJoins(n)
  <2>1. ~EditVersion /\ ~EditPolicy /\ \A n \in Nodes : ~EditNode(n)
    BY DEF GateConditions, EditVersion, EditPolicy, EditNode, Edit
  <2>2. QED
    BY <2>1 DEF Edits
<1>2. CASE EditMode
  <2>1. UNCHANGED <<policy, cluster, node, job, cr, pass, orders>>
    BY <1>2 DEF EditMode
  <2>2. Open' = Open /\ Stop' = Stop /\ Settled' /\ \A m \in Nodes : Working(m)' => Working(m)
    BY <1>0, <2>1 DEF Open, Touched, Stop, Settled, Working
  <2>3. GateInv'
    BY <2>1, <2>2, GateLess
  <2>4. QED
    BY <2>2, <2>3 DEF GateMoves
<1>3. ASSUME NEW n \in Nodes, NodeLeaves(n) PROVE GateInv' /\ GateMoves
  <2>1. /\ n \in cluster.members /\ cluster' = [cluster EXCEPT !.members = @ \ {n}]
        /\ node' = [node EXCEPT ![n] = BlankNode] /\ job' = [job EXCEPT ![n] = NoJob]
        /\ UNCHANGED <<mode, policy, cr, pass, orders>>
    BY <1>3 DEF NodeLeaves
  <2>2. cluster'.members = cluster.members \ {n} /\ cluster'.labels = cluster.labels /\ cluster'.held = cluster.held
    BY <1>0, <2>1 DEF ClusterRecords
  <2>3. /\ node'[n] = BlankNode /\ job'[n] = NoJob /\ BlankNode.old = FALSE
        /\ \A m \in Nodes \ {n} : node'[m] = node[m] /\ job'[m] = job[m]
    BY <1>0, <2>1 DEF BlankNode
  <2>4. Settled'
    BY <1>0, <2>1, <2>2, <2>3 DEF Settled
  <2>5. \A m \in Nodes : Working(m)' => Working(m)
    BY <2>2, <2>3 DEF Working
  <2>6. Open' = Open \ {n}
    BY <1>0, <2>2, <2>3 DEF Open, Touched
  <2>7. GateInv'
    BY <2>1, <2>4, <2>5, <2>6, GateLess
  <2>8. Stop' = Stop /\ (n \notin Open => Open' = Open)
    BY <2>1, <2>6 DEF Stop
  <2>9. QED
    BY <2>6, <2>7, <2>8 DEF GateMoves
<1>4. ASSUME NEW n \in Nodes, NodeJoins(n) PROVE GateInv' /\ GateMoves
  <2>1. /\ n \notin cluster.members /\ cluster' = [cluster EXCEPT !.members = @ \cup {n}]
        /\ UNCHANGED <<mode, policy, node, job, cr, pass, orders>>
    BY <1>4 DEF NodeJoins
  <2>2. cluster'.members = cluster.members \cup {n} /\ cluster'.labels = cluster.labels /\ cluster'.held = cluster.held
    BY <1>0, <2>1 DEF ClusterRecords
  <2>3. /\ job[n].phase = "none" /\ node[n].stage = 0 /\ node[n].status # "in_progress"
    BY <1>0, <2>1 DEF Settled, BlankNode, NoJob
  <2>4. Settled'
    BY <1>0, <2>1, <2>2 DEF Settled
  <2>5. \A m \in Nodes : Working(m)' => Working(m)
    BY <2>1, <2>2, <2>3 DEF Working
  <2>6. Open' = Open
    <3>1. \A m \in Nodes : m \in Open' <=> m \in Open
      BY <2>1, <2>2, <2>3 DEF Open, Touched
    <3>2. Open' \in SUBSET Nodes
      BY <1>0, <2>2 DEF Open
    <3>3. QED
      BY <1>0, <3>1, <3>2
  <2>7. GateInv'
    BY <2>1, <2>4, <2>5, <2>6, GateLess
  <2>8. QED
    BY <2>1, <2>6, <2>7 DEF GateMoves, Stop
<1>5. QED
  BY <1>1, <1>2, <1>3, <1>4

LEMMA GateInit == ASSUME GateConditions, Init PROVE GateInv /\ Open = {} /\ Stop = FALSE
<1>1. /\ policy = TRUE /\ cluster.labels = Labels /\ cluster.members = InitialMembers /\ pass.pc = "idle"
      /\ \A n \in Nodes : node[n] = BlankNode /\ job[n] = NoJob /\ cluster.held[n] = "none" /\ cr.prio[n] = 0
  BY DEF Init, GateConditions, IdlePass, BlankStatus
<1>2. Settled
  BY <1>1 DEF Settled, BlankNode
<1>3. \A n \in Nodes : ~Working(n) /\ ~Touched(n)
  BY <1>1 DEF Working, Touched, BlankNode, NoJob
<1>4. PickedOurs(cr) = {}
  BY <1>1 DEF PickedOurs, Picked
<1>5. Covered(cr)
  BY <1>3, <1>4, LimitFacts, FS_EmptySet DEF Covered
<1>6. Stop = FALSE
  BY DEF Init, Stop, BlankStatus, NoBatch, FreshBatch, AllCompartments
<1>7. Open = {}
  BY <1>1, <1>3, NodesAssumption DEF Open
<1>8. QED
  BY <1>1, <1>2, <1>5, <1>6, <1>7 DEF GateInv

LEMMA GateStep == ASSUME GateConditions PROVE TypeInv /\ GateInv /\ [Next]_vars => GateInv' /\ GateMoves
<1> SUFFICES ASSUME TypeInv, GateInv, [Next]_vars PROVE GateInv' /\ GateMoves
  OBVIOUS
<1>1. CASE PassReports \/ PassPauses \/ PassIntrospects \/ PassSelects
  BY <1>1, GatePass DEF GateMoves
<1>2. CASE \E n \in Nodes : RunNode(n) \/ SaveNode(n)
  BY <1>2, GateRun, GateSave
<1>3. CASE RunEnds \/ SaveStatus \/ Crash
  BY <1>3, GateEnd
<1>4. CASE \E n \in Nodes : JobSucceeds(n) \/ AttemptFails(n) \/ JobFails(n) \/ JobExpires(n)
  BY <1>4, GateJobs
<1>5. CASE Edits
  BY <1>5, GateEdits
<1>6. CASE UNCHANGED vars
  <2>1. UNCHANGED <<mode, policy, cluster, node, job, cr, pass>>
    BY <1>6 DEF vars
  <2>2. Open' = Open /\ Stop' = Stop /\ (Settled' <=> Settled) /\ \A m \in Nodes : Working(m)' => Working(m)
    BY <2>1 DEF Open, Touched, Stop, Settled, Working
  <2>3. GateInv'
    BY <2>1, <2>2, GateLess DEF GateInv
  <2>4. QED
    BY <2>2, <2>3 DEF GateMoves
<1>7. QED
  BY <1>1, <1>2, <1>3, <1>4, <1>5, <1>6 DEF Next, Pass

LEMMA OpenIs ==
  ASSUME GateConditions
  PROVE  TypeInv /\ GateInv => {n \in NodesOf(Copy, DefaultCompartment) : Touched(n)} = Open
<1> SUFFICES ASSUME TypeInv, Settled PROVE {n \in NodesOf(Copy, DefaultCompartment) : Touched(n)} = Open
  BY DEF GateInv
<1>1. NodesOf(Copy, DefaultCompartment) = {n \in cluster.members : n \in Ours}
  BY OursFacts
<1>2. QED
  BY <1>1 DEF Open

\* With a policy whose default strategy is fixed, and over crashless histories of Jobs
\* that succeed, fail and expire, pauses, and nodes that leave and join, the default
\* compartment is a gate of the strategy's size: what BuildState, IntrospectSkyhook,
\* GetNodesForNextBatch, the node priorities and the partial saves of the passes do to
\* it is, step by step, what BatchGate allows.
THEOREM RolloutIsGated ==
  ASSUME GateConditions
  PROVE  Spec => DefaultIsGated
<1> DEFINE open == {n \in NodesOf(Copy, DefaultCompartment) : Touched(n)}
           stopped == cr.batch[DefaultCompartment].stop
<1>1. TypeInv /\ GateInv => open = Open /\ stopped = Stop
  BY OpenIs DEF Stop
<1>2. Init => TypeInv /\ GateInv /\ Gate!GateInit
  <2> SUFFICES ASSUME Init PROVE TypeInv /\ GateInv /\ Gate!GateInit
    OBVIOUS
  <2>1. TypeInv /\ GateInv /\ Open = {} /\ Stop = FALSE
    BY TypeInit, GateInit
  <2>2. open = {} /\ stopped = FALSE
    BY <1>1, <2>1
  <2>3. QED
    BY <2>1, <2>2 DEF Gate!GateInit
<1>3. TypeInv /\ GateInv /\ [Next]_vars => TypeInv' /\ GateInv' /\ GateMoves
  BY TypeStep, GateStep
<1>4. /\ TypeInv /\ GateInv /\ TypeInv' /\ GateInv' /\ GateMoves /\ (open = Open /\ stopped = Stop)'
      => [Gate!GateNext]_<<open, stopped>>
  <2> SUFFICES ASSUME TypeInv, GateInv, GateMoves, (open = Open /\ stopped = Stop)'
               PROVE  [Gate!GateNext]_<<open, stopped>>
    OBVIOUS
  <2>1. open = Open /\ stopped = Stop /\ open' = Open' /\ stopped' = Stop' /\ Stop \in BOOLEAN
    BY <1>1, StopTypes
  <2>2. CASE Open' = Open /\ Stop' = Stop
    BY <2>1, <2>2
  <2>3. ASSUME NEW n \in Nodes, n \notin Open, ~Stop, Cardinality(Open) < Limit, Open' = Open \cup {n}, Stop' = Stop
        PROVE  Gate!Admit(n)
    <3>1. Cardinality(open) < Default(Strategy[DefaultCompartment]).initial
      <4> HIDE DEF open
      <4>1. QED
        BY <2>1, <2>3 DEF Limit
    <3>2. n \in Nodes \ open /\ ~stopped /\ open' = open \cup {n} /\ stopped' = stopped
      BY <2>1, <2>3
    <3>3. QED
      BY ONLY <3>1, <3>2 DEF Gate!Admit, Gate!Cardinality, Cardinality
  <2>4. ASSUME NEW n \in Nodes, n \in Open, Open' = Open \ {n}, Stop' = Stop PROVE Gate!Close(n)
    BY <2>1, <2>4 DEF Gate!Close
  <2>5. CASE Open' = Open /\ ~Stop /\ Stop' = TRUE
    BY <2>1, <2>5 DEF Gate!Stop, Gate!GateNext
  <2>6. CASE Open' = Open /\ Open = {} /\ Stop /\ Stop' = FALSE
    BY <2>1, <2>6 DEF Gate!Restart, Gate!GateNext
  <2>7. QED
    BY <2>2, <2>3, <2>4, <2>5, <2>6 DEF GateMoves, Gate!GateNext
<1>5. QED
  BY <1>1, <1>2, <1>3, <1>4, PTL DEF Spec, DefaultIsGated, Gate!GateSpec

-----------------------------------------------------------------------------
(***************************************************************************)
(* Positions in a rollout, when it works on one node at a time: every      *)
(* order given out is below the offset, or the offset itself and then the  *)
(* order of the one node picked.                                           *)
(***************************************************************************)
OrderConditions == GateConditions /\ Limit = 1 /\ Compartments = {}

Placed(st) == \A o \in orders : o[2] < st.offset \/ (o[2] = st.offset /\ o[1] \in Picked(st.prio))

OrderInv ==
  /\ NodeOrdersDistinct
  /\ pass.pc = "idle" => Placed(cr)
  /\ pass.pc # "idle" => Placed(pass.mem.cr)

LEMMA OneAtATime ==
  ASSUME OrderConditions, NEW st, Covered(st)
  PROVE  /\ Cardinality(Picked(st.prio)) <= 1 /\ Picked(st.prio) = PickedOurs(st)
         /\ \A m \in Picked(st.prio) : Picked(st.prio) = {m}
<1> DEFINE P == Picked(st.prio)
<1>1. Ours = Nodes
  <2>1. \A n \in Nodes : Labels[n] = {}
    BY CompartmentsAssumption DEF OrderConditions
  <2>2. QED
    BY <2>1 DEF Ours
<1>2. P = PickedOurs(st) /\ P \in SUBSET Nodes
  BY <1>1 DEF PickedOurs, Picked
<1>3. Cardinality(P) <= 1
  BY <1>2 DEF OrderConditions, Covered
<1> HIDE DEF P
<1>4. ASSUME NEW m \in P PROVE P = {m}
  <2>1. {m} \in SUBSET P /\ Cardinality({m}) = 1
    BY FS_Singleton
  <2>2. Cardinality({m}) \in Nat /\ Cardinality(P) \in Nat /\ Cardinality({m}) <= Cardinality(P)
        /\ (Cardinality({m}) = Cardinality(P) => {m} = P)
    BY <1>2, <2>1, SubsetCounts
  <2>3. QED
    BY <1>3, <2>1, <2>2
<1>5. QED
  BY <1>2, <1>3, <1>4 DEF P

\* A node that is removed moves the offset beyond its order.
LEMMA PlacedWithout ==
  ASSUME TypeInv, OrderConditions, NEW st \in StatusRecords, NEW up \in StatusRecords, NEW S,
         Covered(st), Placed(st), Picked(up.prio) = Picked(st.prio) \ S,
         up.offset = st.offset + Cardinality(Picked(st.prio) \cap S)
  PROVE  Placed(up)
<1>1. /\ \A m \in Picked(st.prio) : Picked(st.prio) = {m}
      /\ Picked(st.prio) \in SUBSET Nodes /\ st.offset \in Nat /\ up.offset \in Nat
  BY OneAtATime DEF Picked, StatusRecords
<1> DEFINE k == Cardinality(Picked(st.prio) \cap S)
<1>2. k \in Nat
  BY <1>1, NodeSets
<1> SUFFICES ASSUME NEW o \in orders
             PROVE  o[2] < up.offset \/ (o[2] = up.offset /\ o[1] \in Picked(up.prio))
  BY DEF Placed
<1>3. o[2] \in Nat
  BY TypeParts
<1>4. CASE o[2] < st.offset
  <2> HIDE DEF k
  <2>1. up.offset = st.offset + k
    BY DEF k
  <2>2. QED
    BY <1>1, <1>2, <1>3, <1>4, <2>1
<1>5. CASE o[2] = st.offset /\ o[1] \in Picked(st.prio)
  <2>1. CASE o[1] \in S
    <3>1. Picked(st.prio) \cap S = {o[1]}
      BY <1>1, <1>5, <2>1
    <3>2. k = 1
      BY <3>1, FS_Singleton
    <3>3. up.offset = st.offset + 1
      BY <3>2
    <3>4. QED
      BY <1>1, <1>5, <3>3
  <2>2. CASE o[1] \notin S
    <3>1. Picked(st.prio) \cap S = {}
      BY <1>1, <1>5, <2>2
    <3>2. k = 0
      BY <3>1, FS_EmptySet
    <3>3. up.offset = st.offset
      BY <1>1, <3>2
    <3>4. QED
      BY <1>5, <2>2, <3>3
  <2>3. QED
    BY <2>1, <2>2
<1>6. QED
  BY <1>4, <1>5 DEF Placed

LEMMA OrderPass ==
  ASSUME TypeInv, GateInv, OrderInv, OrderConditions, PassReports \/ PassPauses \/ PassIntrospects \/ PassSelects
  PROVE  OrderInv'
<1>0. /\ Ground /\ Sound(Copy) /\ Copy.cr = cr /\ Copy.node = node
      /\ cluster.members \in SUBSET Nodes /\ cr \in StatusRecords /\ cr.offset \in Nat
  BY TypeParts DEF StatusRecords
<1>1. UNCHANGED <<cr, orders>> /\ pass.pc = "idle"
  BY PassKeeps
<1>2. Covered(cr) /\ Placed(cr) /\ Settled /\ NodeOrdersDistinct
  BY <1>1 DEF GateInv, OrderInv
<1>3. NodeOrdersDistinct'
  BY <1>1, <1>2 DEF NodeOrdersDistinct
<1>4. ASSUME NEW w, pass'.mem = w, pass'.pc # "idle", Placed(w.cr) PROVE OrderInv'
  <2>1. \A o \in orders' : o[2] < pass'.mem.cr.offset \/ (o[2] = pass'.mem.cr.offset /\ o[1] \in Picked(pass'.mem.cr.prio))
    BY <1>1, <1>4 DEF Placed
  <2>2. QED
    BY <1>3, <1>4, <2>1 DEF OrderInv, Placed
<1>5. CASE PassReports
  <2> DEFINE w == ReportState(Copy)
             S == Nodes \ cluster.members
  <2>1. pass'.mem = w /\ pass'.pc = "save"
    BY <1>5, PassSteps
  <2>2. Sound(w) /\ Picked(w.cr.prio) = Picked(cr.prio) \cap cluster.members
        /\ w.cr.offset = cr.offset + Cardinality(Picked(cr.prio) \ cluster.members)
    BY <1>0, ReportFacts
  <2>3. Picked(cr.prio) \cap cluster.members = Picked(cr.prio) \ S /\ Picked(cr.prio) \ cluster.members = Picked(cr.prio) \cap S
    BY <1>0 DEF Picked
  <2>4. w.cr \in StatusRecords
    BY <2>2, CopyTypes DEF Sound
  <2> HIDE DEF w, S
  <2>5. Picked(w.cr.prio) = Picked(cr.prio) \ S /\ w.cr.offset = cr.offset + Cardinality(Picked(cr.prio) \cap S)
    BY <2>2, <2>3
  <2>6. Placed(w.cr)
    BY <1>0, <1>2, <2>4, <2>5, PlacedWithout
  <2>7. QED
    BY <1>4, <2>1, <2>6
<1>6. CASE PassPauses
  <2> DEFINE w == UpdateSkyhookPauseStatus(Copy)
  <2>1. pass' = pass \/ (pass'.mem = w /\ pass'.pc = "save")
    BY <1>6, PassSteps
  <2>2. w.cr.prio = cr.prio /\ w.cr.offset = cr.offset
    BY <1>0, PauseFacts
  <2> HIDE DEF w
  <2>3. Placed(w.cr)
    BY <1>2, <2>2 DEF Placed
  <2>4. CASE pass' = pass
    <3>1. \A o \in orders' : o[2] < cr'.offset \/ (o[2] = cr'.offset /\ o[1] \in Picked(cr'.prio))
      BY <1>1, <1>2 DEF Placed
    <3>2. QED
      BY <1>1, <1>3, <2>4, <3>1 DEF OrderInv, Placed
  <2>5. QED
    BY <1>4, <2>1, <2>3, <2>4
<1>7. CASE PassIntrospects
  <2> DEFINE w == Introspect(Copy)
  <2>1. pass'.mem = w /\ pass'.pc = "save"
    BY <1>7, PassSteps
  <2>2. Surveyed(Copy, w)
    BY <1>0, IntrospectFacts
  <2> HIDE DEF w
  <2> DEFINE S == Done(w)
  <2>3. w.cr \in StatusRecords /\ Picked(w.cr.prio) = Picked(cr.prio) \ S
        /\ w.cr.offset = cr.offset + Cardinality(Picked(cr.prio) \cap S)
    BY <1>0, <2>2, CopyTypes DEF Surveyed, Sound
  <2> HIDE DEF S
  <2>4. Placed(w.cr)
    BY <1>0, <1>2, <2>3, PlacedWithout
  <2>5. QED
    BY <1>4, <2>1, <2>4
<1>8. CASE PassSelects
  <2> DEFINE S == SelectNodes(Ready)
             w == UpsertPick(Ready, S)
  <2>1. Reported /\ mode = "run" /\ ~Introspected(Copy)
    BY <1>8 DEF PassSelects
  <2>2. Readied(Copy, Ready)
    BY <1>0, <2>1, ReadyFacts DEF Ready
  <2>3. pass'.mem = w /\ pass'.pc = "run"
    BY <1>8, PassSteps DEF Ready
  <2>4. S \in SUBSET Nodes
    BY <1>0, SelectFacts
  <2>5. Picked(w.cr.prio) = Picked(cr.prio) \cup S /\ w.cr.offset = cr.offset
    <3> HIDE DEF S
    <3>1. Ready \in CopyRecords /\ Positioned(Ready.cr.prio) /\ Picked(Ready.cr.prio) = Picked(cr.prio)
          /\ Ready.cr.offset = cr.offset
      BY <1>0, <2>2 DEF Readied, Sound
    <3>2. QED
      BY <2>4, <3>1, UpsertFacts
  <2> HIDE DEF S, w
  <2>6. Placed(w.cr)
    BY <1>2, <2>5 DEF Placed
  <2>7. QED
    BY <1>4, <2>3, <2>6
<1>9. QED
  BY <1>5, <1>6, <1>7, <1>8

LEMMA OrderRun ==
  ASSUME TypeInv, GateInv, OrderInv, OrderConditions, NEW n \in Nodes, RunNode(n)
  PROVE  OrderInv'
<1> DEFINE w == pass.mem
<1>0. w \in CopyRecords /\ Positioned(w.cr.prio) /\ w.cr.prio \in [Nodes -> Nat] /\ w.cr.offset \in Nat
      /\ orders \in SUBSET (Nodes \X Nat)
  BY TypeParts, CopyTypes DEF Sound
<1>1. pass.pc = "run" /\ n \in pass.todo /\ pass'.pc = "run" /\ pass'.mem.cr = w.cr /\ (Creates(n) \/ Leaves(n))
  BY RunFacts
<1>2. Covered(w.cr) /\ Promised /\ Placed(w.cr) /\ NodeOrdersDistinct
  BY <1>1, WorkIsCovered DEF OrderInv
<1>3. orders' = orders \/ orders' = orders \cup {<<n, NodeOrder(w, n)>>}
  BY <1>1 DEF Creates, Leaves
<1>4. /\ Cardinality(Picked(w.cr.prio)) <= 1 /\ Picked(w.cr.prio) = PickedOurs(w.cr)
      /\ \A m \in Picked(w.cr.prio) : Picked(w.cr.prio) = {m}
  BY <1>2, OneAtATime
<1>5. n \in Picked(w.cr.prio)
  <2>1. n \in Ours
    BY CompartmentsAssumption DEF OrderConditions, Ours
  <2>2. QED
    BY <1>1, <1>2, <1>4, <2>1 DEF Promised
<1>6. NodeOrder(w, n) = w.cr.offset
  <2>1. w.cr.prio[n] \in Nat /\ w.cr.prio[n] > 0
    BY <1>0, <1>5 DEF Picked
  <2>2. w.cr.prio[n] <= Cardinality(Picked(w.cr.prio))
    BY <1>0, <1>5, PositionedFacts
  <2>3. Cardinality(Picked(w.cr.prio)) \in Nat
    BY NodeSets DEF Picked
  <2>4. w.cr.prio[n] = 1
    BY <1>4, <2>1, <2>2, <2>3
  <2>5. QED
    BY <1>0, <2>4 DEF NodeOrder, InPrio
<1>7. \A o \in orders : o[2] = w.cr.offset => o[1] = n
  BY <1>0, <1>2, <1>4, <1>5 DEF Placed
<1> HIDE DEF w
<1>8. NodeOrdersDistinct'
  <2>1. \A o, p \in orders' : o[2] = p[2] => o[1] = p[1]
    BY <1>2, <1>3, <1>6, <1>7 DEF NodeOrdersDistinct
  <2>2. QED
    BY <2>1 DEF NodeOrdersDistinct
<1>9. \A o \in orders' : o[2] < pass'.mem.cr.offset \/ (o[2] = pass'.mem.cr.offset /\ o[1] \in Picked(pass'.mem.cr.prio))
  BY <1>1, <1>2, <1>3, <1>5, <1>6 DEF Placed
<1>10. QED
  BY <1>1, <1>8, <1>9 DEF OrderInv, Placed

LEMMA OrderSave ==
  ASSUME TypeInv, GateInv, OrderInv, OrderConditions, NEW n \in Nodes, SaveNode(n)
  PROVE  OrderInv'
<1> DEFINE st == pass.mem.cr
           up == pass'.mem.cr
           S == {n}
<1>1. pass.pc = "save" /\ pass'.pc = "save" /\ UNCHANGED orders
      /\ \/ up = st
         \/ (Picked(up.prio) = Picked(st.prio) \ S /\ up.offset = st.offset + Cardinality(Picked(st.prio) \cap S))
  BY SaveFacts
<1>2. st \in StatusRecords /\ up \in StatusRecords
  <2>1. TypeInv'
    BY SaveTypes
  <2>2. pass' \in PassRecords
    BY <2>1 DEF TypeInv, TypeOK, PassRecords
  <2>3. QED
    BY <2>2, TypeParts, CopyTypes DEF PassRecords
<1>3. Covered(st) /\ Placed(st) /\ NodeOrdersDistinct
  BY <1>1, WorkIsCovered DEF OrderInv
<1> HIDE DEF S
<1>4. \A o \in orders : o[2] < up.offset \/ (o[2] = up.offset /\ o[1] \in Picked(up.prio))
  <2> HIDE DEF st
  <2>1. CASE up = st
    BY <1>3, <2>1 DEF Placed
  <2>2. CASE Picked(up.prio) = Picked(st.prio) \ S /\ up.offset = st.offset + Cardinality(Picked(st.prio) \cap S)
    <3> HIDE DEF up
    <3>1. Placed(up)
      BY <1>2, <1>3, <2>2, PlacedWithout
    <3>2. QED
      BY <3>1 DEF Placed
  <2>3. QED
    BY <1>1, <2>1, <2>2
<1>5. QED
  BY <1>1, <1>3, <1>4 DEF OrderInv, Placed, NodeOrdersDistinct

LEMMA OrderStep == ASSUME OrderConditions PROVE TypeInv /\ GateInv /\ OrderInv /\ [Next]_vars => OrderInv'
<1> SUFFICES ASSUME TypeInv, GateInv, OrderInv, [Next]_vars PROVE OrderInv'
  OBVIOUS
<1>1. CASE PassReports \/ PassPauses \/ PassIntrospects \/ PassSelects
  BY <1>1, OrderPass
<1>2. CASE \E n \in Nodes : RunNode(n) \/ SaveNode(n)
  BY <1>2, OrderRun, OrderSave
<1>3. CASE RunEnds
  <2>1. pass.pc = "run" /\ pass'.pc = "save" /\ pass'.mem = pass.mem /\ UNCHANGED orders
    BY <1>3, TypeParts DEF RunEnds, PassRecords
  <2>2. QED
    BY <2>1 DEF OrderInv, Placed, NodeOrdersDistinct
<1>4. CASE SaveStatus
  <2>1. pass.pc = "save" /\ pass'.pc = "idle" /\ cr' = pass.mem.cr /\ UNCHANGED orders
    BY <1>4 DEF SaveStatus, IdlePass
  <2>2. QED
    BY <2>1 DEF OrderInv, Placed, NodeOrdersDistinct
<1>5. CASE Crash
  <2>1. used.crashes \in Nat
    BY TypeParts
  <2>2. QED
    BY <1>5, <2>1 DEF Crash, GateConditions, OrderConditions
<1>6. ASSUME UNCHANGED <<cr, pass, orders>> PROVE OrderInv'
  BY <1>6 DEF OrderInv, Placed, NodeOrdersDistinct
<1>7. CASE \E n \in Nodes : JobSucceeds(n) \/ AttemptFails(n) \/ JobFails(n) \/ JobExpires(n)
  BY <1>6, <1>7, JobFacts
<1>8. CASE Edits
  <2>1. ~EditVersion
    BY DEF OrderConditions, GateConditions, EditVersion, Edit
  <2>2. UNCHANGED <<cr, pass, orders>>
    BY <1>8, <2>1 DEF Edits, EditMode, EditPolicy, EditNode, NodeLeaves, NodeJoins
  <2>3. QED
    BY <1>6, <2>2
<1>9. CASE UNCHANGED vars
  BY <1>6, <1>9 DEF vars
<1>10. QED
  BY <1>1, <1>2, <1>3, <1>4, <1>5, <1>7, <1>8, <1>9 DEF Next, Pass

\* A rollout that works on one node at a time never gives two nodes the same position
\* (NodeOrder), whoever leaves, joins or fails meanwhile; with larger batches it does.
THEOREM OrdersGivenOnce ==
  ASSUME OrderConditions
  PROVE  Spec => []NodeOrdersDistinct
<1>1. GateConditions
  BY DEF OrderConditions
<1>2. Init => TypeInv /\ GateInv /\ OrderInv
  <2>1. Init => OrderInv
    BY DEF Init, OrderInv, NodeOrdersDistinct, Placed
  <2>2. QED
    BY <1>1, <2>1, TypeInit, GateInit
<1>3. TypeInv /\ GateInv /\ OrderInv /\ [Next]_vars => (TypeInv /\ GateInv /\ OrderInv)'
  BY <1>1, TypeStep, GateStep, OrderStep
<1>4. OrderInv => NodeOrdersDistinct
  BY DEF OrderInv
<1>5. QED
  BY <1>2, <1>3, <1>4, PTL DEF Spec

-----------------------------------------------------------------------------
(***************************************************************************)
(* Batches do not overlap while nodes neither leave nor join, whatever     *)
(* else happens, crashes included: a node still to run is picked, or has   *)
(* begun, or all picked nodes of its compartment are complete.             *)
(***************************************************************************)
OverlapConditions == EditKinds \cap {"leave", "join"} = {}

Begun(nd) == nd.stage > 0 \/ nd.old = TRUE
Clear(n) ==
  \A m \in cluster.members : cr.prio[m] > 0 /\ Eligible(m) /\ Assignment[m] = Assignment[n] => IsComplete(node[m])

OverlapInv ==
  /\ \A n \in Nodes : node[n].status = "in_progress" => Begun(node[n])
  /\ \A n \in Nodes : Pending(n) =>
       /\ Begun(pass.snap[n]) => Begun(node[n])
       /\ pass.mem.node[n].status = "in_progress" => pass.mem.node[n].stage > 0 \/ Begun(pass.snap[n])
       /\ ~SameEntry(pass.mem.node[n], pass.snap[n]) => pass.mem.node[n].stage > 0
  /\ pass.pc = "run" => \A n \in pass.todo : cr.prio[n] > 0 \/ Begun(node[n]) \/ Clear(n)

LEMMA OverlapNewPass ==
  ASSUME TypeInv, OverlapInv, UNCHANGED <<node, cr>>, NEW w, NEW pc \in {"run", "save"}, NEW S \in SUBSET Nodes,
         pass' = [pc |-> pc, snap |-> node, mem |-> w, todo |-> S],
         \A n \in Nodes : Moved(node[n], w.node[n]),
         pc = "run" => \A n \in S : cr.prio[n] > 0 \/ Begun(node[n]) \/ Clear(n)',
         UNCHANGED <<cluster, policy>>
  PROVE  OverlapInv'
<1>1. pass'.pc = pc /\ pass'.snap = node /\ pass'.mem = w /\ pass'.todo = S
  OBVIOUS
<1>2. \A n \in Nodes : node'[n].status = "in_progress" => Begun(node'[n])
  BY DEF OverlapInv
<1>3. \A n \in Nodes : /\ Begun(pass'.snap[n]) => Begun(node'[n])
                       /\ pass'.mem.node[n].status = "in_progress" => pass'.mem.node[n].stage > 0 \/ Begun(pass'.snap[n])
                       /\ ~SameEntry(pass'.mem.node[n], pass'.snap[n]) => pass'.mem.node[n].stage > 0
  BY <1>1 DEF OverlapInv, Moved, Upgrades, SameEntry, Begun
<1>4. pass'.pc = "run" => \A n \in pass'.todo : cr'.prio[n] > 0 \/ Begun(node'[n]) \/ Clear(n)'
  BY <1>1
<1>5. QED
  BY <1>2, <1>3, <1>4 DEF OverlapInv

\* Reviewed nodes have only moved.
LEMMA ReviewedMoved ==
  ASSUME NEW nd, NEW md, Reviewed(nd, md)
  PROVE  Moved(nd, md)
  BY DEF Reviewed, Moved

LEMMA OverlapPass ==
  ASSUME TypeInv, OverlapInv, PassReports \/ PassPauses \/ PassIntrospects \/ PassSelects
  PROVE  OverlapInv'
<1>0. /\ Ground /\ Sound(Copy) /\ Copy.cr = cr /\ Copy.node = node /\ Copy.comp = Assignment
      /\ cluster.members \in SUBSET Nodes
  BY TypeParts
<1>1. UNCHANGED <<policy, cluster, node, cr>> /\ pass.pc = "idle"
  BY PassKeeps
<1>2. CASE PassReports
  <2> DEFINE w == ReportState(Copy)
  <2>1. pass' = [pc |-> "save", snap |-> node, mem |-> w, todo |-> cluster.members]
    BY <1>2, PassSteps
  <2>2. w.node = node
    BY <1>0, ReportFacts
  <2> HIDE DEF w
  <2>3. \A n \in Nodes : Moved(node[n], w.node[n])
    BY <2>2 DEF Moved
  <2>4. QED
    BY <1>0, <1>1, <2>1, <2>3, OverlapNewPass
<1>3. CASE PassPauses
  <2> DEFINE w == UpdateSkyhookPauseStatus(Copy)
  <2>1. pass' = pass \/ pass' = [pc |-> "save", snap |-> node, mem |-> w, todo |-> cluster.members]
    BY <1>3, PassSteps
  <2>2. \A n \in Nodes : Moved(node[n], w.node[n])
    BY <1>0, PauseFacts, ReviewedMoved
  <2> HIDE DEF w
  <2>3. CASE pass' = pass
    BY <1>1, <2>3 DEF OverlapInv, Pending
  <2>4. CASE pass' = [pc |-> "save", snap |-> node, mem |-> w, todo |-> cluster.members]
    BY <1>0, <1>1, <2>2, <2>4, OverlapNewPass
  <2>5. QED
    BY <2>1, <2>3, <2>4
<1>4. CASE PassIntrospects
  <2> DEFINE w == Introspect(Copy)
  <2>1. pass' = [pc |-> "save", snap |-> node, mem |-> w, todo |-> cluster.members]
    BY <1>4, PassSteps
  <2>2. Surveyed(Copy, w)
    BY <1>0, IntrospectFacts
  <2> HIDE DEF w
  <2>3. \A n \in Nodes : Moved(node[n], w.node[n])
    BY <1>0, <2>2, ReviewedMoved DEF Surveyed
  <2>4. QED
    BY <1>0, <1>1, <2>1, <2>3, OverlapNewPass
<1>5. CASE PassSelects
  <2> DEFINE u == Ready
             S == SelectNodes(u)
             w == UpsertPick(u, S)
  <2>1. Reported /\ mode = "run" /\ ~Introspected(Copy)
    BY <1>5 DEF PassSelects
  <2>2. Readied(Copy, u)
    BY <1>0, <2>1, ReadyFacts DEF Ready
  <2>3. pass' = [pc |-> "run", snap |-> node, mem |-> w, todo |-> S]
    BY <1>5, PassSteps DEF Ready
  <2> HIDE DEF u
  <2>4. S \in SUBSET Nodes /\ S \in SUBSET cluster.members
    BY <1>0, SelectFacts
  <2>5. w.node = u.node
    <3> HIDE DEF S
    <3>1. u \in CopyRecords /\ Positioned(u.cr.prio)
      BY <2>2 DEF Readied, Sound
    <3>2. QED
      BY <2>4, <3>1, UpsertFacts
  <2>6. /\ \A n \in Nodes : Moved(node[n], u.node[n])
        /\ u.comp = Assignment /\ Picked(u.cr.prio) = Picked(cr.prio)
        /\ \A n \in cluster.members : IsComplete(u.node[n]) => n \notin Picked(u.cr.prio)
    BY <1>0, <2>2 DEF Readied
  <2>7. ASSUME NEW n \in S PROVE cr.prio[n] > 0 \/ Begun(node[n]) \/ Clear(n)
    <3>1. PICK d \in CurrentCompartments : n \in GetNodesForNextBatch(u, d)
      BY <2>7 DEF SelectNodes
    <3> DEFINE running == {m \in StatusIs(u, d, "in_progress") : Eligible(m)}
               sticky == {m \in NodesOf(u, d) : InPrio(u, m) /\ ~IsComplete(u.node[m]) /\ Eligible(m)}
    <3>2. n \in NodesOf(u, d) /\ n \in Nodes /\ Assignment[n] = d
      BY <2>4, <2>6, <2>7, <3>1, NextBatchIn DEF NodesOf
    <3>3. n \in running \/ n \in sticky \/ sticky = {}
      BY <3>1 DEF GetNodesForNextBatch
    <3>4. CASE n \in running
      <4>1. u.node[n].status = "in_progress"
        BY <3>4 DEF StatusIs
      <4>2. QED
        BY <2>6, <3>2, <4>1 DEF Moved, Upgrades, Begun, OverlapInv
    <3>5. CASE n \in sticky
      BY <2>6, <3>2, <3>5 DEF InPrio, Picked
    <3>6. CASE sticky = {}
      <4> SUFFICES ASSUME NEW m \in cluster.members, cr.prio[m] > 0, Eligible(m), Assignment[m] = Assignment[n]
                   PROVE  FALSE
        BY DEF Clear
      <4>1. m \in Nodes /\ m \in NodesOf(u, d)
        BY <1>0, <2>6, <3>2 DEF NodesOf
      <4>2. m \in Picked(u.cr.prio)
        BY <2>6, <4>1 DEF Picked
      <4>3. InPrio(u, m) /\ ~IsComplete(u.node[m])
        BY <2>6, <4>2 DEF InPrio, Picked
      <4>4. m \in sticky
        BY <4>1, <4>3
      <4>5. QED
        BY <3>6, <4>4
    <3>7. QED
      BY <3>3, <3>4, <3>5, <3>6
  <2>8. \A n \in S : cr.prio[n] > 0 \/ Begun(node[n]) \/ Clear(n)'
    <3>1. Assignment' = Assignment
      BY <1>1 DEF Assignment, AssignNodeToCompartment, CurrentCompartments, MatchedNodes
    <3>2. \A n \in S : Clear(n)' <=> Clear(n)
      BY <1>1, <3>1 DEF Clear, Eligible
    <3>3. QED
      BY <2>7, <3>2
  <2>9. \A n \in Nodes : Moved(node[n], w.node[n])
    BY <2>5, <2>6
  <2> HIDE DEF w, S
  <2>10. QED
    BY <1>1, <2>3, <2>4, <2>8, <2>9, OverlapNewPass
<1>6. QED
  BY <1>2, <1>3, <1>4, <1>5

\* What is clear stays so while the cluster and the picks are the same and complete
\* nodes stay complete.
LEMMA ClearKept ==
  ASSUME UNCHANGED <<policy, cluster, cr>>, NEW n, \A m \in cluster.members : IsComplete(node[m]) => IsComplete(node'[m]),
         Clear(n)
  PROVE  Clear(n)'
<1>1. Assignment' = Assignment
  BY DEF Assignment, AssignNodeToCompartment, CurrentCompartments, MatchedNodes
<1>2. QED
  BY <1>1 DEF Clear, Eligible, IsComplete

LEMMA OverlapRun ==
  ASSUME TypeInv, OverlapInv, NEW n \in Nodes, RunNode(n)
  PROVE  OverlapInv'
<1>1. /\ pass.pc = "run" /\ n \in pass.todo /\ pass'.pc = "run" /\ pass'.snap = pass.snap
      /\ pass'.todo = pass.todo \ {n}
      /\ UNCHANGED <<mode, policy, cluster, node, cr, used>>
      /\ Creates(n) \/ Leaves(n)
  BY RunFacts
<1>2. \A m \in Nodes : \/ pass'.mem.node[m] = pass.mem.node[m]
                       \/ (pass'.mem.node[m].stage > 0 /\ pass'.mem.node[m].status = "in_progress")
  BY <1>1 DEF Creates, Leaves
<1>3. \A m \in Nodes : Pending(m)
  BY <1>1 DEF Pending
<1>4. \A m \in Nodes : /\ Begun(pass'.snap[m]) => Begun(node'[m])
                       /\ pass'.mem.node[m].status = "in_progress" => pass'.mem.node[m].stage > 0 \/ Begun(pass'.snap[m])
                       /\ ~SameEntry(pass'.mem.node[m], pass'.snap[m]) => pass'.mem.node[m].stage > 0
  BY <1>1, <1>2, <1>3 DEF OverlapInv
<1>5. \A m \in pass'.todo : cr'.prio[m] > 0 \/ Begun(node'[m]) \/ Clear(m)'
  <2>1. \A m \in pass'.todo : cr.prio[m] > 0 \/ Begun(node[m]) \/ Clear(m)
    BY <1>1 DEF OverlapInv
  <2>2. \A m \in pass'.todo : Clear(m) => Clear(m)'
    BY <1>1, ClearKept
  <2>3. QED
    BY <1>1, <2>1, <2>2
<1>6. QED
  BY <1>1, <1>4, <1>5 DEF OverlapInv

LEMMA OverlapSave ==
  ASSUME TypeInv, OverlapInv, NEW n \in Nodes, SaveNode(n)
  PROVE  OverlapInv'
<1>1. /\ pass.pc = "save" /\ n \in pass.todo /\ pass'.pc = "save" /\ pass'.snap = pass.snap
      /\ pass'.todo = pass.todo \ {n} /\ pass'.mem.node = pass.mem.node
      /\ \A m \in Nodes \ {n} : node'[m] = node[m]
      /\ node'[n] = node[n] \/ node'[n] = SavedNode(n)
  BY SaveFacts
<1>2. /\ Pending(n)
      /\ Begun(pass.snap[n]) => Begun(node[n])
      /\ pass.mem.node[n].status = "in_progress" => pass.mem.node[n].stage > 0 \/ Begun(pass.snap[n])
      /\ ~SameEntry(pass.mem.node[n], pass.snap[n]) => pass.mem.node[n].stage > 0
      /\ node[n].status = "in_progress" => Begun(node[n])
  BY <1>1 DEF OverlapInv, Pending
<1>3. /\ SavedNode(n).old = node[n].old
      /\ SavedNode(n).status = node[n].status \/ SavedNode(n).status = pass.mem.node[n].status
      /\ \/ SavedNode(n).stage = node[n].stage
         \/ (SavedNode(n).stage = pass.mem.node[n].stage /\ ~SameEntry(pass.mem.node[n], pass.snap[n]))
      /\ ~SameEntry(pass.mem.node[n], pass.snap[n]) => SavedNode(n).stage = pass.mem.node[n].stage
  <2>1. ~SameEntry(pass.mem.node[n], pass.snap[n]) => SavedNode(n).stage = pass.mem.node[n].stage
    <3>1. node[n] \in NodeRecords
      BY TypeParts
    <3>2. QED
      BY <3>1 DEF SameEntry, SavedNode, NodeRecords
  <2>2. QED
    BY <2>1, SavedFacts DEF SameEntry
<1>4. node'[n].status = "in_progress" => Begun(node'[n])
  <2>1. CASE node'[n] = node[n]
    BY <1>2, <2>1
  <2>2. CASE node'[n] = SavedNode(n)
    <3>1. CASE ~SameEntry(pass.mem.node[n], pass.snap[n])
      BY <1>2, <1>3, <2>2, <3>1 DEF Begun
    <3>2. CASE SameEntry(pass.mem.node[n], pass.snap[n])
      <4>1. node'[n].status = "in_progress" => Begun(node[n])
        BY <1>2, <1>3, <2>2, <3>2 DEF Begun, SameEntry
      <4>2. QED
        BY <1>3, <2>2, <3>2, <4>1 DEF Begun
    <3>3. QED
      BY <3>1, <3>2
  <2>3. QED
    BY <1>1, <2>1, <2>2
<1>5. \A m \in Nodes : node'[m].status = "in_progress" => Begun(node'[m])
  BY <1>1, <1>4 DEF OverlapInv
<1>6. \A m \in Nodes : Pending(m)' => Pending(m) /\ m # n
  BY <1>1 DEF Pending
<1>7. \A m \in Nodes : Pending(m)' =>
        /\ Begun(pass'.snap[m]) => Begun(node'[m])
        /\ pass'.mem.node[m].status = "in_progress" => pass'.mem.node[m].stage > 0 \/ Begun(pass'.snap[m])
        /\ ~SameEntry(pass'.mem.node[m], pass'.snap[m]) => pass'.mem.node[m].stage > 0
  BY <1>1, <1>6 DEF OverlapInv
<1>8. QED
  BY <1>1, <1>5, <1>7 DEF OverlapInv

LEMMA OverlapEnd ==
  ASSUME TypeInv, OverlapInv, RunEnds \/ SaveStatus \/ Crash
  PROVE  OverlapInv'
<1>1. CASE RunEnds
  <2>1. pass.pc = "run" /\ pass'.pc = "save" /\ pass'.snap = pass.snap /\ pass'.mem = pass.mem /\ UNCHANGED node
    BY <1>1, TypeParts DEF RunEnds, PassRecords
  <2>2. \A m \in Nodes : Pending(m)
    BY <2>1 DEF Pending
  <2>3. QED
    BY <2>1, <2>2 DEF OverlapInv
<1>2. CASE SaveStatus \/ Crash
  <2>1. pass'.pc = "idle" /\ UNCHANGED node
    BY <1>2 DEF SaveStatus, Crash, IdlePass
  <2>2. \A m \in Nodes : ~Pending(m)'
    BY <2>1 DEF Pending
  <2>3. QED
    BY <2>1, <2>2 DEF OverlapInv
<1>3. QED
  BY <1>1, <1>2

LEMMA OverlapJobs ==
  ASSUME TypeInv, OverlapInv, NEW n \in Nodes, JobSucceeds(n) \/ AttemptFails(n) \/ JobFails(n) \/ JobExpires(n)
  PROVE  OverlapInv'
<1>0. node \in [Nodes -> NodeRecords] /\ Entry(node[n]) /\ cluster.members \in SUBSET Nodes /\ pass.todo \in SUBSET Nodes
  BY TypeParts DEF TypeInv
<1>1. UNCHANGED <<mode, policy, cluster, cr, pass, orders>> /\ \A m \in Nodes \ {n} : node'[m] = node[m]
  BY JobFacts
<1>2. \/ node' = node
      \/ (~IsComplete(node[n]) /\ node'[n].stage > 0)
  <2>1. node' = node \/ (EntryOpen(n) /\ node'[n].stage = node[n].stage)
    BY JobFacts
  <2>2. EntryOpen(n) => ~IsComplete(node[n]) /\ node[n].stage > 0
    BY <1>0 DEF EntryOpen, IsComplete, Entry, NodeRecords
  <2>3. QED
    BY <2>1, <2>2
<1>3. \A m \in Nodes : /\ Begun(node[m]) => Begun(node'[m])
                       /\ IsComplete(node[m]) => IsComplete(node'[m])
                       /\ node'[m] = node[m] \/ Begun(node'[m])
  BY <1>1, <1>2 DEF Begun
<1>4. \A m \in Nodes : node'[m].status = "in_progress" => Begun(node'[m])
  BY <1>3 DEF OverlapInv
<1>5. \A m \in Nodes : Clear(m) => Clear(m)'
  BY <1>0, <1>1, <1>3, ClearKept
<1>6. \A m \in Nodes : Pending(m)' => Pending(m)
  BY <1>1 DEF Pending
<1>7. \A m \in Nodes : Pending(m)' =>
        /\ Begun(pass'.snap[m]) => Begun(node'[m])
        /\ pass'.mem.node[m].status = "in_progress" => pass'.mem.node[m].stage > 0 \/ Begun(pass'.snap[m])
        /\ ~SameEntry(pass'.mem.node[m], pass'.snap[m]) => pass'.mem.node[m].stage > 0
  BY <1>1, <1>3, <1>6 DEF OverlapInv
<1>8. pass'.pc = "run" => \A m \in pass'.todo : cr'.prio[m] > 0 \/ Begun(node'[m]) \/ Clear(m)'
  <2>1. pass.pc = "run" => \A m \in pass.todo : cr.prio[m] > 0 \/ Begun(node[m]) \/ Clear(m)
    BY DEF OverlapInv
  <2>2. QED
    BY <1>0, <1>1, <1>3, <1>5, <2>1
<1>9. QED
  BY <1>4, <1>7, <1>8 DEF OverlapInv

LEMMA OverlapEdits ==
  ASSUME TypeInv, OverlapInv, OverlapConditions, Edits
  PROVE  OverlapInv'
<1>0. node \in [Nodes -> NodeRecords] /\ cluster.members \in SUBSET Nodes
  BY TypeParts
<1>1. \A n \in Nodes : ~NodeLeaves(n) /\ ~NodeJoins(n)
  BY DEF OverlapConditions, NodeLeaves, NodeJoins, Edit
<1>2. CASE EditMode
  <2>1. UNCHANGED <<policy, cluster, node, cr, pass>>
    BY <1>2 DEF EditMode
  <2>2. \A m : Clear(m) => Clear(m)'
    BY <2>1, ClearKept
  <2>3. \A m \in Nodes : Pending(m)' => Pending(m)
    BY <2>1 DEF Pending
  <2>4. QED
    BY <2>1, <2>2, <2>3 DEF OverlapInv
<1>3. ASSUME pass'.pc = "idle", \A n \in Nodes : node'[n].status = node[n].status /\ (Begun(node[n]) => Begun(node'[n]))
      PROVE  OverlapInv'
  <2>1. \A m \in Nodes : ~Pending(m)'
    BY <1>3 DEF Pending
  <2>2. QED
    BY <1>3, <2>1 DEF OverlapInv
<1>4. CASE EditVersion
  <2>1. /\ pass' = pass /\ pass.pc = "idle"
        /\ node' = [n \in Nodes |-> [node[n] EXCEPT !.stage = 0, !.state = "none", !.old = @ \/ node[n].stage > 0]]
    BY <1>4 DEF EditVersion
  <2>2. ASSUME NEW n \in Nodes PROVE node'[n].status = node[n].status /\ (Begun(node[n]) => Begun(node'[n]))
    BY <1>0, <2>1 DEF NodeRecords, Begun
  <2>3. QED
    BY <1>3, <2>1, <2>2
<1>5. CASE EditPolicy \/ \E n \in Nodes : EditNode(n)
  <2>1. UNCHANGED <<node, pass>> /\ pass.pc = "idle"
    BY <1>5 DEF EditPolicy, EditNode
  <2>2. QED
    BY <1>3, <2>1
<1>6. QED
  BY <1>1, <1>2, <1>4, <1>5 DEF Edits

LEMMA OverlapStep == ASSUME OverlapConditions PROVE TypeInv /\ OverlapInv /\ [Next]_vars => OverlapInv'
<1> SUFFICES ASSUME TypeInv, OverlapInv, [Next]_vars PROVE OverlapInv'
  OBVIOUS
<1>1. CASE PassReports \/ PassPauses \/ PassIntrospects \/ PassSelects
  BY <1>1, OverlapPass
<1>2. CASE \E n \in Nodes : RunNode(n) \/ SaveNode(n)
  BY <1>2, OverlapRun, OverlapSave
<1>3. CASE RunEnds \/ SaveStatus \/ Crash
  BY <1>3, OverlapEnd
<1>4. CASE \E n \in Nodes : JobSucceeds(n) \/ AttemptFails(n) \/ JobFails(n) \/ JobExpires(n)
  BY <1>4, OverlapJobs
<1>5. CASE Edits
  BY <1>5, OverlapEdits
<1>6. CASE UNCHANGED vars
  <2>1. UNCHANGED <<policy, cluster, node, cr, pass>>
    BY <1>6 DEF vars
  <2>2. \A m : Clear(m) => Clear(m)'
    BY <2>1, ClearKept
  <2>3. \A m \in Nodes : Pending(m)' => Pending(m)
    BY <2>1 DEF Pending
  <2>4. QED
    BY <2>1, <2>2, <2>3 DEF OverlapInv
<1>7. QED
  BY <1>1, <1>2, <1>3, <1>4, <1>5, <1>6 DEF Next, Pass

\* A Job that becomes active was suspended or active, or the pass creates it.
LEMMA ActiveOnly ==
  ASSUME TypeInv, OverlapConditions, [Next]_vars, NEW n \in Nodes, job[n].phase \notin {"active", "suspended"},
         job'[n].phase = "active"
  PROVE  pass.pc = "run" /\ n \in pass.todo /\ n \in cluster.members
<1>0. job \in [Nodes -> JobRecords]
  BY TypeParts
<1>1. CASE PassReports \/ PassPauses \/ PassIntrospects \/ PassSelects
  <2>1. job' = job \/ job' = ResumedJobs \/ PassPauses
    BY <1>1 DEF PassReports, PassIntrospects, PassSelects
  <2>2. CASE job' = job \/ job' = ResumedJobs
    BY <1>0, <2>2 DEF ResumedJobs, JobRecords
  <2>3. CASE PassPauses
    BY <1>0, <2>3 DEF PassPauses, JobRecords
  <2>4. QED
    BY <2>1, <2>2, <2>3
<1>2. ASSUME NEW m \in Nodes, RunNode(m) PROVE pass.pc = "run" /\ n \in pass.todo /\ n \in cluster.members
  <2>1. pass.pc = "run" /\ m \in pass.todo /\ (Creates(m) \/ Leaves(m))
    BY <1>2, RunFacts
  <2>2. m = n /\ m \in cluster.members
    BY <1>0, <2>1 DEF Creates, Leaves, NoJob
  <2>3. QED
    BY <2>1, <2>2
<1>3. CASE RunEnds \/ SaveStatus \/ Crash \/ (\E m \in Nodes : SaveNode(m)) \/ UNCHANGED vars
  BY <1>3 DEF RunEnds, SaveStatus, Crash, SaveNode, vars
<1>4. ASSUME NEW m \in Nodes, JobSucceeds(m) \/ AttemptFails(m) \/ JobFails(m) \/ JobExpires(m) PROVE FALSE
  <2>1. /\ \A o \in Nodes \ {m} : job'[o] = job[o]
        /\ job'[m].phase # "none" => job[m].phase = "active"
    BY <1>4, JobFacts
  <2>2. QED
    BY <2>1
<1>5. CASE Edits
  <2>1. job' = job \/ job' = [m \in Nodes |-> NoJob] \/ \E m \in Nodes : NodeLeaves(m)
    BY <1>5 DEF Edits, EditVersion, EditMode, EditPolicy, EditNode, NodeJoins
  <2>2. \A m \in Nodes : ~NodeLeaves(m)
    BY DEF OverlapConditions, NodeLeaves, Edit
  <2>3. QED
    BY <2>1, <2>2 DEF NoJob
<1>6. QED
  BY <1>1, <1>2, <1>3, <1>4, <1>5 DEF Next, Pass

\* While nodes neither leave nor join, a pass creates the first Job of a node not picked
\* before only when the picked nodes of its compartment are complete or held, whatever
\* crashes, upgrades, relabelled and held nodes, policy edits and failures come between
\* (GetNodesForNextBatch, NodePriority): any strategy, any number of compartments.
THEOREM BatchesKeptApart ==
  ASSUME OverlapConditions
  PROVE  Spec => BatchesDoNotOverlap
<1> DEFINE A == \A m, n \in Nodes : Starts(n) /\ cr.prio[m] > 0 =>
                   \/ m \notin cluster.members \/ ~Eligible(m) \/ IsComplete(node[m])
                   \/ AssignNodeToCompartment(m) # AssignNodeToCompartment(n)
<1>1. Init => TypeInv /\ OverlapInv
  <2>1. ASSUME Init PROVE OverlapInv
    <3>1. pass.pc = "idle" /\ \A n \in Nodes : node[n].status = "unknown"
      BY <2>1 DEF Init, IdlePass, BlankNode
    <3>2. QED
      BY <3>1 DEF OverlapInv, Pending
  <2>2. QED
    BY <2>1, TypeInit
<1>2. TypeInv /\ OverlapInv /\ [Next]_vars => (TypeInv /\ OverlapInv)'
  BY TypeStep, OverlapStep
<1>3. TypeInv /\ OverlapInv /\ [Next]_vars => A
  <2> SUFFICES ASSUME TypeInv, OverlapInv, [Next]_vars, NEW m \in Nodes, NEW n \in Nodes, Starts(n), cr.prio[m] > 0,
                      m \in cluster.members, Eligible(m), AssignNodeToCompartment(m) = AssignNodeToCompartment(n)
               PROVE  IsComplete(node[m])
    OBVIOUS
  <2>0. node \in [Nodes -> NodeRecords] /\ cr.prio \in [Nodes -> Nat]
    BY TypeParts DEF StatusRecords
  <2>1. /\ node[n].stage = 0 /\ ~node[n].old /\ cr.prio[n] = 0
        /\ job[n].phase \notin {"active", "suspended"} /\ job'[n].phase = "active"
    BY DEF Starts
  <2>2. pass.pc = "run" /\ n \in pass.todo /\ n \in cluster.members
    BY <2>1, ActiveOnly
  <2>3. Clear(n)
    BY <2>0, <2>1, <2>2 DEF OverlapInv, Begun
  <2>4. Assignment[m] = Assignment[n]
    BY <2>2 DEF Assignment
  <2>5. QED
    BY <2>3, <2>4 DEF Clear
<1>4. QED
  BY <1>1, <1>2, <1>3, PTL DEF Spec, BatchesDoNotOverlap
=====================
