----------------------------- MODULE SproutProofs -----------------------------
(***************************************************************************)
(* That what the proof frontier starts is sound and the fastest choice,    *)
(* for any nodes, offers and settings (Sprout).                            *)
(*                                                                         *)
(* The frontier looks only at candidates no other one dominates.  Nothing  *)
(* is lost by that because scheduling is monotone: a node in the place of  *)
(* one that costs as much or more does not make a wave slower, so each     *)
(* cover has one with undominated nodes in their place.  Among those       *)
(* the key of a cover has a first, which is not slower than the others.    *)
(***************************************************************************)
EXTENDS Sprout, FiniteSetTheorems, WellFoundedInduction, TLAPS

-----------------------------------------------------------------------------
(* Numbers.                                                                *)

\* A set of numbers has a least one.
LEMMA LeastExists ==
  ASSUME NEW T, T \subseteq Nat, T # {}
  PROVE  \E x \in T : \A y \in T : x <= y
<1> DEFINE Less == OpToRel(<, Nat)
<1>1. IsWellFoundedOn(Less, Nat)
  BY NatLessThanWellFounded
<1>2. \A x, y \in Nat : x < y => <<x, y>> \in Less
  BY DEF OpToRel
<1> HIDE DEF Less
<1>3. PICK x \in T : \A y \in T : ~(<<y, x>> \in Less)
  BY <1>1, WFMin
<1>4. \A y \in T : x <= y
  <2> SUFFICES ASSUME NEW y \in T PROVE x <= y
    OBVIOUS
  <2>1. x \in Nat /\ y \in Nat /\ ~(y < x)
    BY <1>2, <1>3
  <2> QED
    BY <2>1
<1> QED
  BY <1>4

\* Of a set one has the least number.
LEMMA LeastOf ==
  ASSUME NEW S, S # {}, NEW f, \A c \in S : f[c] \in Nat
  PROVE  \E c \in S : \A d \in S : f[c] <= f[d]
<1> DEFINE T == {f[c] : c \in S}
<1>1. T \subseteq Nat /\ T # {}
  OBVIOUS
<1>2. PICK x \in T : \A y \in T : x <= y
  <2> HIDE DEF T
  <2> QED
    BY <1>1, LeastExists
<1>3. PICK c \in S : x = f[c]
  OBVIOUS
<1> QED
  BY <1>2, <1>3

\* Of a finite set one has the greatest number.
LEMMA GreatestExists ==
  ASSUME NEW S, IsFiniteSet(S), S # {}, NEW f, \A c \in S : f[c] \in Nat
  PROVE  \E c \in S : \A d \in S : f[d] <= f[c]
<1> DEFINE Over(c) == {d \in S : f[d] > f[c]}
           Counts  == {Cardinality(Over(c)) : c \in S}
<1>1. \A c \in S : IsFiniteSet(Over(c)) /\ Cardinality(Over(c)) \in Nat
  BY FS_Subset, FS_CardinalityType
<1>2. Counts \subseteq Nat /\ Counts # {}
  BY <1>1
<1>3. PICK k \in Counts : \A m \in Counts : k <= m
  BY <1>2, LeastExists
<1>4. PICK c \in S : k = Cardinality(Over(c))
  OBVIOUS
<1>5. ASSUME NEW d \in S, f[d] > f[c] PROVE FALSE
  <2>1. Over(d) \subseteq Over(c) /\ d \in Over(c) /\ d \notin Over(d)
    BY <1>5
  <2>2. Cardinality(Over(d)) < Cardinality(Over(c))
    <3>1. Over(d) # Over(c)
      BY <2>1
    <3> HIDE DEF Over
    <3> QED
      BY <1>1, <2>1, <3>1, FS_Subset
  <2>3. k <= Cardinality(Over(d))
    BY <1>3
  <2>4. Cardinality(Over(c)) \in Nat /\ Cardinality(Over(d)) \in Nat
    BY <1>1
  <2> HIDE DEF Over
  <2> QED
    BY <1>4, <2>2, <2>3, <2>4
<1>6. \A d \in S : f[d] <= f[c]
  BY <1>5
<1> QED
  BY <1>6

-----------------------------------------------------------------------------
(* The proof frontier, for any nodes, any offers and any settings.         *)
(*                                                                         *)
(* Latencies and costs are folded over a set of nodes.  What is said of a  *)
(* fold is the set of the subsets it holds for: a subset that is not in it *)
(* and has the fewest members has all its smaller ones in it.              *)

\* A property that a set has when it has it without any one member is had by
\* every subset of a finite set.
LEMMA SubsetInduction ==
  ASSUME NEW S, IsFiniteSet(S), NEW P, {} \in P,
         \A U \in SUBSET S : U # {} /\ (\A x \in U : U \ {x} \in P) => U \in P
  PROVE  SUBSET S \subseteq P
<1> DEFINE Bad   == (SUBSET S) \ P
           Sizes == {Cardinality(U) : U \in Bad}
<1>1. \A U \in SUBSET S : IsFiniteSet(U) /\ Cardinality(U) \in Nat
  BY FS_Subset, FS_CardinalityType
<1>2. SUFFICES ASSUME Bad # {} PROVE FALSE
  OBVIOUS
<1>3. Sizes \subseteq Nat /\ Sizes # {}
  BY <1>1, <1>2
<1>4. PICK k \in Sizes : \A m \in Sizes : k <= m
  <2> HIDE DEF Sizes
  <2> QED BY <1>3, LeastExists
<1>5. PICK U \in Bad : k = Cardinality(U)
  OBVIOUS
<1>6. ASSUME NEW x \in U PROVE U \ {x} \in P
  <2>1. U \in SUBSET S /\ Cardinality(U \ {x}) = Cardinality(U) - 1
    BY <1>1, FS_RemoveElement
  <2>2. Cardinality(U \ {x}) \in Nat /\ Cardinality(U) \in Nat /\ U \ {x} \in SUBSET S
    BY <1>1, <2>1
  <2>3. CASE U \ {x} \in Bad
    <3>1. Cardinality(U \ {x}) \in Sizes
      BY <2>3
    <3>2. Cardinality(U) <= Cardinality(U \ {x})
      BY <3>1, <1>4, <1>5
    <3> QED BY <3>2, <2>1, <2>2
  <2> QED BY <2>2, <2>3
<1>7. U \in SUBSET S /\ U # {}
  OBVIOUS
<1> QED BY <1>6, <1>7

\* ch takes a member of each set, op combines it with what stands for the others
Picks(S, ch) == \A T \in (SUBSET S) \ {{}} : ch[T] \in T
StaysIn(S, V, op) == \A x \in S, v \in V : op[<<x, v>>] \in V
Recurs(S, base, ch, op, f) ==
  \A T \in SUBSET S : f[T] = IF T = {} THEN base ELSE op[<<ch[T], f[T \ {ch[T]}]>>]

\* A function of the subsets of a finite set that is given for the empty set,
\* and for others from what it is for one member fewer, exists.
LEMMA RecursionExists ==
  ASSUME NEW S, IsFiniteSet(S), NEW V, NEW base \in V,
         NEW ch, Picks(S, ch), NEW op, StaysIn(S, V, op)
  PROVE  \E f \in [SUBSET S -> V] : Recurs(S, base, ch, op, f)
<1> USE DEF Picks, StaysIn
<1> DEFINE Upto(k) == {T \in SUBSET S : Cardinality(T) <= k}
           Solved(k) == \E f \in [Upto(k) -> V] :
             \A T \in Upto(k) : f[T] = IF T = {} THEN base ELSE op[<<ch[T], f[T \ {ch[T]}]>>]
           Open == {k \in Nat : ~Solved(k)}
<1>1. \A T \in SUBSET S : IsFiniteSet(T) /\ Cardinality(T) \in Nat
  BY FS_Subset, FS_CardinalityType
<1>2. \A T \in SUBSET S : Cardinality(T) = 0 <=> T = {}
  BY <1>1, FS_EmptySet
<1>3. Solved(0)
  <2> DEFINE f == [T \in Upto(0) |-> base]
  <2>1. ASSUME NEW T \in Upto(0) PROVE T = {}
    <3>1. T \in SUBSET S /\ Cardinality(T) <= 0
      OBVIOUS
    <3>2. Cardinality(T) = 0
      BY <3>1, <1>1
    <3> QED BY <3>1, <3>2, <1>2
  <2>2. f \in [Upto(0) -> V]
    OBVIOUS
  <2>3. \A T \in Upto(0) : f[T] = IF T = {} THEN base ELSE op[<<ch[T], f[T \ {ch[T]}]>>]
    BY <2>1
  <2> HIDE DEF f, Upto
  <2> QED BY <2>2, <2>3
<1>4. ASSUME NEW k \in Nat, Solved(k) PROVE Solved(k + 1)
  <2>1. PICK g \in [Upto(k) -> V] :
          \A T \in Upto(k) : g[T] = IF T = {} THEN base ELSE op[<<ch[T], g[T \ {ch[T]}]>>]
    BY <1>4
  <2> DEFINE f == [T \in Upto(k + 1) |-> IF T = {} THEN base ELSE op[<<ch[T], g[T \ {ch[T]}]>>]]
  <2>2. ASSUME NEW T \in Upto(k + 1), T # {}
        PROVE  ch[T] \in S /\ T \ {ch[T]} \in Upto(k) /\ T \ {ch[T]} \in Upto(k + 1)
    <3>1. T \in SUBSET S /\ ch[T] \in T /\ Cardinality(T) \in Nat /\ Cardinality(T) <= k + 1
      BY <2>2, <1>1
    <3>2. Cardinality(T \ {ch[T]}) = Cardinality(T) - 1
      <4>1. IsFiniteSet(T)
        BY <1>1, <3>1
      <4> QED BY <4>1, <3>1, FS_RemoveElement
    <3>3. Cardinality(T \ {ch[T]}) <= k /\ Cardinality(T \ {ch[T]}) <= k + 1
      BY <3>1, <3>2
    <3> QED BY <3>1, <3>3
  <2>3. ASSUME NEW T \in Upto(k) PROVE T \in Upto(k + 1) /\ f[T] = g[T]
    <3>1. T \in SUBSET S /\ Cardinality(T) <= k
      OBVIOUS
    <3>2. Cardinality(T) <= k + 1
      BY <3>1, <1>1
    <3>3. T \in Upto(k + 1)
      BY <3>1, <3>2
    <3> HIDE DEF Upto
    <3> QED BY <3>3, <2>1
  <2>4. f \in [Upto(k + 1) -> V]
    <3> SUFFICES ASSUME NEW T \in Upto(k + 1), T # {} PROVE op[<<ch[T], g[T \ {ch[T]}]>>] \in V
      OBVIOUS
    <3> HIDE DEF Upto, f
    <3>1. g[T \ {ch[T]}] \in V /\ ch[T] \in S
      BY <2>1, <2>2
    <3> QED BY <3>1
  <2>5. \A T \in Upto(k + 1) : f[T] = IF T = {} THEN base ELSE op[<<ch[T], f[T \ {ch[T]}]>>]
    <3> SUFFICES ASSUME NEW T \in Upto(k + 1)
                 PROVE  f[T] = IF T = {} THEN base ELSE op[<<ch[T], f[T \ {ch[T]}]>>]
      OBVIOUS
    <3>1. f[T] = IF T = {} THEN base ELSE op[<<ch[T], g[T \ {ch[T]}]>>]
      <4> HIDE DEF Upto
      <4> QED OBVIOUS
    <3> HIDE DEF Upto, f
    <3>2. T # {} => f[T \ {ch[T]}] = g[T \ {ch[T]}]
      BY <2>2, <2>3
    <3> QED BY <3>1, <3>2
  <2> HIDE DEF Upto, f
  <2> QED BY <2>4, <2>5
<1>5. Open = {}
  <2> SUFFICES ASSUME Open # {} PROVE FALSE
    OBVIOUS
  <2> HIDE DEF Solved
  <2>1. Open \subseteq Nat
    OBVIOUS
  <2>2. PICK k \in Open : \A m \in Open : k <= m
    <3> HIDE DEF Open
    <3> QED BY <2>1, LeastExists
  <2>3. CASE k = 0
    BY <2>3, <1>3
  <2>4. CASE k # 0
    <3>0. k \in Nat
      BY <2>1
    <3>1. k - 1 \in Nat /\ ~(k <= k - 1) /\ (k - 1) + 1 = k
      BY <2>4, <3>0
    <3>2. Solved(k - 1)
      BY <2>2, <3>1
    <3>3. Solved((k - 1) + 1)
      BY <3>1, <3>2, <1>4
    <3> QED BY <3>1, <3>3
  <2> QED BY <2>3, <2>4
<1>6. Cardinality(S) \in Nat /\ Upto(Cardinality(S)) = SUBSET S
  BY FS_Subset, FS_CardinalityType
<1>7. Solved(Cardinality(S))
  <2> HIDE DEF Solved
  <2> QED BY <1>5, <1>6
<1> DEFINE n == Cardinality(S)
<1>8. PICK f \in [Upto(n) -> V] :
        \A T \in Upto(n) : f[T] = IF T = {} THEN base ELSE op[<<ch[T], f[T \ {ch[T]}]>>]
  BY <1>7
<1>9. Upto(n) = SUBSET S
  BY <1>6
<1> HIDE DEF Upto, n
<1> QED BY <1>8, <1>9 DEF Recurs

\* One placement on the least loaded lane.
Loaded(load, cost) == [load EXCEPT ![Lightest(load)] = @ + cost]
Loads(lanes) == [1..lanes -> Nat]

\* The cheapest node of a set is one of its nodes, and no other costs less.
LEMMA CheapestIsOne ==
  ASSUME NEW s, s \subseteq Ids, s # {}
  PROVE  /\ Cheapest(s) \in s
         /\ \A m \in s : NodeOf[Cheapest(s)].cost <= NodeOf[m].cost
<1> DEFINE f == [n \in Ids |-> NodeOf[n].cost]
<1>1. \A n \in s : f[n] = NodeOf[n].cost /\ f[n] \in Nat
  BY SproutAssumption
<1>2. \E n \in s : \A m \in s : f[n] <= f[m]
  <2> HIDE DEF f
  <2> QED BY <1>1, LeastOf
<1>3. \E n \in s : \A m \in s : NodeOf[n].cost <= NodeOf[m].cost
  BY <1>1, <1>2
<1> QED
  BY <1>3 DEF Cheapest

\* A schedule has a least loaded lane.
LEMMA LightestIsOne ==
  ASSUME NEW lanes \in Nat \ {0}, NEW load \in Loads(lanes)
  PROVE  /\ Lightest(load) \in 1..lanes
         /\ \A l \in 1..lanes : load[Lightest(load)] <= load[l]
<1>1. 1..lanes # {} /\ DOMAIN load = 1..lanes /\ \A l \in 1..lanes : load[l] \in Nat
  BY DEF Loads
<1>2. \E l \in 1..lanes : \A m \in 1..lanes : load[l] <= load[m]
  BY <1>1, LeastOf
<1> QED
  BY <1>1, <1>2 DEF Lightest

\* Loading a lane gives a schedule, with no lane less loaded.
LEMMA LoadedIs ==
  ASSUME NEW lanes \in Nat \ {0}, NEW load \in Loads(lanes), NEW cost \in Nat
  PROVE  /\ Loaded(load, cost) \in Loads(lanes)
         /\ Loaded(load, cost)[Lightest(load)] = load[Lightest(load)] + cost
         /\ \A l \in 1..lanes : l # Lightest(load) => Loaded(load, cost)[l] = load[l]
         /\ \A l \in 1..lanes : load[l] <= Loaded(load, cost)[l]
<1>1. Lightest(load) \in 1..lanes
  BY LightestIsOne
<1> DEFINE i == Lightest(load)
<1>2. i \in 1..lanes /\ Loaded(load, cost) = [load EXCEPT ![i] = @ + cost]
  BY <1>1 DEF Loaded
<1> HIDE DEF i
<1>3. /\ Loaded(load, cost) \in Loads(lanes)
      /\ Loaded(load, cost)[i] = load[i] + cost
      /\ \A l \in 1..lanes : l # i => Loaded(load, cost)[l] = load[l]
      /\ \A l \in 1..lanes : load[l] <= Loaded(load, cost)[l]
  BY <1>2 DEF Loads
<1> QED
  BY <1>3 DEF i

\* A node placed once is one placement.
LEMMA PlacedOnce ==
  ASSUME NEW n, NEW load
  PROVE  Place(n, 1, load) = Loaded(load, NodeOf[n].cost)
<1> DEFINE F(f) == [k \in 0..1 |->
             IF k = 0 THEN load
             ELSE [f[k - 1] EXCEPT ![Lightest(f[k - 1])] = @ + NodeOf[n].cost]]
           w == [k \in 0..1 |-> IF k = 0 THEN load ELSE Loaded(load, NodeOf[n].cost)]
<1>1. w = F(w)
  <2>1. w[0] = load /\ w[1] = Loaded(load, NodeOf[n].cost)
    OBVIOUS
  <2>2. \A k \in 0..1 : w[k] = F(w)[k]
    <3>1. F(w)[0] = load
      OBVIOUS
    <3>2. F(w)[1] = [w[0] EXCEPT ![Lightest(w[0])] = @ + NodeOf[n].cost]
      OBVIOUS
    <3> HIDE DEF F, w
    <3>3. w[1] = F(w)[1]
      BY <2>1, <3>2 DEF Loaded
    <3>4. \A k \in 0..1 : k = 0 \/ k = 1
      OBVIOUS
    <3> QED BY <2>1, <3>1, <3>3, <3>4
  <2>3. w = [k \in 0..1 |-> w[k]] /\ F(w) = [k \in 0..1 |-> F(w)[k]]
    OBVIOUS
  <2> HIDE DEF F, w
  <2> QED BY <2>2, <2>3
<1>2. PICK f : f = F(f) /\ f = CHOOSE g : g = F(g)
  <2> HIDE DEF F, w
  <2> QED BY <1>1
<1>3. Place(n, 1, load) = f[1]
  BY <1>2 DEF Place
<1>4. f[0] = load /\ f[1] = [f[0] EXCEPT ![Lightest(f[0])] = @ + NodeOf[n].cost]
  BY <1>2
<1> QED
  BY <1>3, <1>4 DEF Loaded

\* How the lanes fill up, over the subsets of a set of nodes.
NoLoads(lanes) == [l \in 1..lanes |-> 0]
Filling(s, lanes, f) ==
  /\ f \in [SUBSET s -> Loads(lanes)]
  /\ f[{}] = NoLoads(lanes)
  /\ \A T \in (SUBSET s) \ {{}} :
       f[T] = Loaded(f[T \ {Cheapest(T)}], NodeOf[Cheapest(T)].cost)

\* The latency of a wave is the load of its busiest lane.
LEMMA LanesFill ==
  ASSUME NEW s, s \subseteq Ids, IsFiniteSet(s), NEW lanes \in Nat \ {0}
  PROVE  \E f : /\ Filling(s, lanes, f)
                /\ WaveLatency(s, 1, lanes) = Max({f[s][l] : l \in 1..lanes})
<1> DEFINE F(f) == [T \in SUBSET s |->
             IF T = {} THEN [l \in 1..lanes |-> 0]
             ELSE Place(Cheapest(T), 1, f[T \ {Cheapest(T)}])]
           ch == [T \in SUBSET s |-> Cheapest(T)]
           op == [p \in s \X Loads(lanes) |-> Place(p[1], 1, p[2])]
<1>1. NoLoads(lanes) \in Loads(lanes)
  BY DEF NoLoads, Loads
<1>2. \A n \in s, v \in Loads(lanes) : Place(n, 1, v) \in Loads(lanes)
  <2> SUFFICES ASSUME NEW n \in s, NEW v \in Loads(lanes)
               PROVE  Place(n, 1, v) \in Loads(lanes)
    OBVIOUS
  <2>1. NodeOf[n].cost \in Nat
    BY SproutAssumption
  <2> QED BY <2>1, PlacedOnce, LoadedIs
<1>3. \A T \in (SUBSET s) \ {{}} : ch[T] = Cheapest(T) /\ Cheapest(T) \in T
  BY CheapestIsOne
<1>4. \A n \in s, v \in Loads(lanes) : op[<<n, v>>] = Place(n, 1, v)
  OBVIOUS
<1>5. PICK w \in [SUBSET s -> Loads(lanes)] : \A T \in SUBSET s :
        w[T] = IF T = {} THEN NoLoads(lanes) ELSE op[<<ch[T], w[T \ {ch[T]}]>>]
  <2>1. Picks(s, ch)
    BY <1>3 DEF Picks
  <2>2. StaysIn(s, Loads(lanes), op)
    BY <1>2, <1>4 DEF StaysIn
  <2> HIDE DEF ch, op
  <2>3. \E w \in [SUBSET s -> Loads(lanes)] : Recurs(s, NoLoads(lanes), ch, op, w)
    BY <1>1, <2>1, <2>2, RecursionExists
  <2> QED BY <2>3 DEF Recurs
<1>6. \A T \in SUBSET s :
        w[T] = IF T = {} THEN [l \in 1..lanes |-> 0]
               ELSE Place(Cheapest(T), 1, w[T \ {Cheapest(T)}])
  <2> SUFFICES ASSUME NEW T \in SUBSET s
               PROVE  w[T] = IF T = {} THEN [l \in 1..lanes |-> 0]
                             ELSE Place(Cheapest(T), 1, w[T \ {Cheapest(T)}])
    OBVIOUS
  <2>1. CASE T = {}
    BY <1>5, <2>1 DEF NoLoads
  <2>2. CASE T # {}
    <3>1. ch[T] = Cheapest(T) /\ Cheapest(T) \in s
      BY <1>3, <2>2
    <3>2. w[T \ {Cheapest(T)}] \in Loads(lanes)
      BY <1>5
    <3>3. op[<<Cheapest(T), w[T \ {Cheapest(T)}]>>] = Place(Cheapest(T), 1, w[T \ {Cheapest(T)}])
      <4> HIDE DEF op
      <4> QED BY <1>4, <3>1, <3>2
    <3> HIDE DEF op, ch
    <3>4. w[T] = op[<<ch[T], w[T \ {ch[T]}]>>]
      BY <1>5, <2>2
    <3> QED BY <3>1, <3>3, <3>4, <2>2
  <2> QED BY <2>1, <2>2
<1>7. w = F(w)
  <2>1. w = [T \in SUBSET s |-> w[T]]
    BY <1>5
  <2> QED BY <1>6, <2>1
<1>8. PICK f : f = F(f) /\ f = CHOOSE g : g = F(g)
  <2> HIDE DEF F
  <2> QED BY <1>7
<1>9. /\ DOMAIN f = SUBSET s /\ f[{}] = NoLoads(lanes)
      /\ \A T \in (SUBSET s) \ {{}} : f[T] = Place(Cheapest(T), 1, f[T \ {Cheapest(T)}])
  <2>1. \A T \in SUBSET s : f[T] = F(f)[T]
    <3> HIDE DEF F
    <3> QED BY <1>8
  <2>2. DOMAIN f = DOMAIN F(f)
    <3> HIDE DEF F
    <3> QED BY <1>8
  <2> QED BY <2>1, <2>2 DEF NoLoads
<1>10. \A T \in SUBSET s : f[T] \in Loads(lanes)
  <2> DEFINE P == {T \in SUBSET s : f[T] \in Loads(lanes)}
  <2>1. {} \in P
    BY <1>1, <1>9
  <2>2. ASSUME NEW U \in SUBSET s, U # {}, \A x \in U : U \ {x} \in P PROVE U \in P
    <3>1. Cheapest(U) \in U /\ Cheapest(U) \in s
      BY <1>3, <2>2
    <3>2. f[U \ {Cheapest(U)}] \in Loads(lanes)
      BY <2>2, <3>1
    <3>3. f[U] = Place(Cheapest(U), 1, f[U \ {Cheapest(U)}])
      BY <1>9, <2>2
    <3> QED BY <3>1, <3>2, <3>3, <1>2
  <2>3. SUBSET s \subseteq P
    <3> HIDE DEF P
    <3> QED BY <2>1, <2>2, SubsetInduction
  <2> QED BY <2>3
<1>11. f \in [SUBSET s -> Loads(lanes)]
  <2>1. f = [T \in SUBSET s |-> f[T]]
    <3>1. F(f) = [T \in SUBSET s |-> F(f)[T]]
      OBVIOUS
    <3> HIDE DEF F
    <3> QED BY <1>8, <3>1
  <2> HIDE DEF F
  <2> QED BY <1>10, <2>1
<1>12. Filling(s, lanes, f)
  BY <1>9, <1>11, PlacedOnce DEF Filling
<1>13. WaveLatency(s, 1, lanes) = Max({f[s][l] : l \in 1..lanes})
  BY Zenon, <1>8 DEF WaveLatency, MapThenFoldSet
<1> QED
  BY <1>12, <1>13

\* The greatest of the loads is one of them.
LEMMA BusiestIs ==
  ASSUME NEW lanes \in Nat \ {0}, NEW load \in Loads(lanes)
  PROVE  LET top == Max({load[l] : l \in 1..lanes}) IN
         /\ \E l \in 1..lanes : top = load[l]
         /\ top \in Nat
         /\ \A l \in 1..lanes : load[l] <= top
<1>1. 1..lanes # {} /\ IsFiniteSet(1..lanes) /\ \A l \in 1..lanes : load[l] \in Nat
  <2>1. 1 \in Int /\ lanes \in Int /\ 1 \in 1..lanes
    OBVIOUS
  <2>2. IsFiniteSet(1..lanes)
    BY <2>1, FS_Interval
  <2> QED BY <2>1, <2>2 DEF Loads
<1>2. \E l \in 1..lanes : \A m \in 1..lanes : load[m] <= load[l]
  BY <1>1, GreatestExists
<1> DEFINE all == {load[l] : l \in 1..lanes}
<1>3. \E x \in all : \A y \in all : x >= y
  BY <1>1, <1>2
<1>4. Max(all) \in all /\ \A y \in all : Max(all) >= y
  BY <1>3 DEF Max
<1> QED
  BY <1>1, <1>4

\* Two schedules of which the first is, with its lanes in some other order,
\* nowhere the more loaded one.
Pairing(p, lanes) ==
  /\ p \in [1..lanes -> 1..lanes]
  /\ \A l, m \in 1..lanes : p[l] = p[m] => l = m
  /\ \A m \in 1..lanes : \E l \in 1..lanes : p[l] = m
Below(low, high, lanes) ==
  \E p : Pairing(p, lanes) /\ \A l \in 1..lanes : low[l] <= high[p[l]]

\* The busiest lane of the lower schedule is not the busier one.
LEMMA BelowIsFaster ==
  ASSUME NEW lanes \in Nat \ {0}, NEW low \in Loads(lanes), NEW high \in Loads(lanes),
         Below(low, high, lanes)
  PROVE  Max({low[l] : l \in 1..lanes}) <= Max({high[l] : l \in 1..lanes})
<1>1. PICK p : Pairing(p, lanes) /\ \A l \in 1..lanes : low[l] <= high[p[l]]
  BY DEF Below
<1>2. PICK l \in 1..lanes : Max({low[m] : m \in 1..lanes}) = low[l]
  BY BusiestIs
<1> DEFINE top == Max({high[m] : m \in 1..lanes})
<1>3. top \in Nat /\ \A m \in 1..lanes : high[m] <= top
  BY BusiestIs
<1> HIDE DEF top
<1>4. p[l] \in 1..lanes
  BY <1>1 DEF Pairing
<1>5. low[l] <= high[p[l]] /\ high[p[l]] <= top /\ low[l] \in Nat /\ high[p[l]] \in Nat
  BY <1>1, <1>3, <1>4 DEF Loads
<1>6. low[l] <= top
  BY <1>3, <1>5
<1> QED
  BY <1>2, <1>6 DEF top

\* What is loaded onto the higher schedule leaves the other one the lower.
LEMMA LoadedStaysAbove ==
  ASSUME NEW lanes \in Nat \ {0}, NEW low \in Loads(lanes), NEW high \in Loads(lanes),
         Below(low, high, lanes), NEW cost \in Nat
  PROVE  Below(low, Loaded(high, cost), lanes)
<1>1. PICK p : Pairing(p, lanes) /\ \A l \in 1..lanes : low[l] <= high[p[l]]
  BY DEF Below
<1> DEFINE next == Loaded(high, cost)
<1>2. next \in Loads(lanes) /\ \A l \in 1..lanes : high[l] <= next[l]
  BY LoadedIs
<1> HIDE DEF next
<1>3. ASSUME NEW l \in 1..lanes PROVE low[l] <= next[p[l]]
  <2>1. p[l] \in 1..lanes
    BY <1>1 DEF Pairing
  <2>2. low[l] \in Nat /\ high[p[l]] \in Nat /\ next[p[l]] \in Nat
    BY <2>1, <1>2 DEF Loads
  <2> QED BY <2>1, <2>2, <1>1, <1>2
<1> QED
  BY <1>1, <1>3 DEF Below, next

\* If both are loaded, the higher one with at least as much, the lower one stays
\* the lower: the lanes that were loaded are paired with each other, and the two
\* lanes they were paired with before are too.
LEMMA LoadedStaysBelow ==
  ASSUME NEW lanes \in Nat \ {0}, NEW low \in Loads(lanes), NEW high \in Loads(lanes),
         Below(low, high, lanes), NEW less \in Nat, NEW more \in Nat, less <= more
  PROVE  Below(Loaded(low, less), Loaded(high, more), lanes)
<1>1. PICK p : Pairing(p, lanes) /\ \A l \in 1..lanes : low[l] <= high[p[l]]
  BY DEF Below
<1> DEFINE i  == Lightest(low)
           j  == Lightest(high)
           lo == Loaded(low, less)
           hi == Loaded(high, more)
<1>2. /\ i \in 1..lanes /\ \A l \in 1..lanes : low[i] <= low[l]
      /\ lo \in Loads(lanes) /\ lo[i] = low[i] + less
      /\ \A l \in 1..lanes : l # i => lo[l] = low[l]
  BY LightestIsOne, LoadedIs
<1>3. /\ j \in 1..lanes /\ \A l \in 1..lanes : high[j] <= high[l]
      /\ hi \in Loads(lanes) /\ hi[j] = high[j] + more
      /\ \A l \in 1..lanes : l # j => hi[l] = high[l]
  BY LightestIsOne, LoadedIs
<1> HIDE DEF i, j, lo, hi
<1>4. PICK a \in 1..lanes : p[a] = j
  BY <1>1, <1>3 DEF Pairing
<1> DEFINE q == [l \in 1..lanes |-> IF l = i THEN j ELSE IF l = a THEN p[i] ELSE p[l]]
<1>5. Pairing(q, lanes)
  <2>1. q \in [1..lanes -> 1..lanes]
    BY <1>1, <1>2, <1>3 DEF Pairing
  <2>2. ASSUME NEW l \in 1..lanes, NEW m \in 1..lanes, q[l] = q[m] PROVE l = m
    BY <2>2, <1>1, <1>2, <1>3, <1>4 DEF Pairing
  <2>3. ASSUME NEW m \in 1..lanes PROVE \E l \in 1..lanes : q[l] = m
    <3>1. PICK l \in 1..lanes : p[l] = m
      BY <1>1 DEF Pairing
    <3>2. CASE m = j
      BY <3>2, <1>2
    <3>3. CASE m # j /\ l = i
      <4>1. a # i
        BY <3>1, <3>3, <1>4
      <4>2. q[a] = m
        BY <4>1, <3>1, <3>3
      <4> QED BY <4>2
    <3>4. CASE m # j /\ l # i
      <4>1. l # a
        BY <3>1, <3>4, <1>4
      <4>2. q[l] = m
        BY <4>1, <3>1, <3>4
      <4> QED BY <4>2
    <3> QED BY <3>2, <3>3, <3>4
  <2> HIDE DEF q
  <2> QED BY <2>1, <2>2, <2>3 DEF Pairing
<1>6. ASSUME NEW l \in 1..lanes PROVE lo[l] <= hi[q[l]]
  <2>1. /\ p[l] \in 1..lanes /\ p[i] \in 1..lanes
        /\ low[l] \in Nat /\ low[i] \in Nat /\ low[a] \in Nat
        /\ high[p[l]] \in Nat /\ high[j] \in Nat /\ high[p[i]] \in Nat
    BY <1>1, <1>2, <1>3, <1>4 DEF Loads, Pairing
  <2>2. low[a] <= high[j] /\ low[l] <= high[p[l]] /\ low[i] <= low[a] /\ high[j] <= high[p[i]]
    BY <1>1, <1>2, <1>3, <1>4, <2>1
  <2>3. CASE l = i
    <3>1. q[l] = j /\ lo[l] = low[i] + less /\ hi[j] = high[j] + more
      BY <2>3, <1>2, <1>3
    <3> HIDE DEF q
    <3> QED BY <3>1, <2>1, <2>2
  <2>4. CASE l # i /\ l = a
    <3>1. q[l] = p[i] /\ lo[l] = low[a]
      BY <2>4, <1>2
    <3>2. p[i] # j
      BY <2>4, <1>1, <1>2, <1>4 DEF Pairing
    <3>3. hi[p[i]] = high[p[i]]
      BY <3>2, <2>1, <1>3
    <3> HIDE DEF q
    <3> QED BY <3>1, <3>3, <2>1, <2>2
  <2>5. CASE l # i /\ l # a
    <3>1. q[l] = p[l] /\ lo[l] = low[l]
      BY <2>5, <1>2
    <3>2. p[l] # j
      BY <2>5, <1>1, <1>4 DEF Pairing
    <3>3. hi[p[l]] = high[p[l]]
      BY <3>2, <2>1, <1>3
    <3> HIDE DEF q
    <3> QED BY <3>1, <3>3, <2>1, <2>2
  <2> QED BY <2>3, <2>4, <2>5
<1> HIDE DEF q
<1> QED
  BY <1>5, <1>6 DEF Below, lo, hi

\* Nodes matched with other nodes, each with one that costs as much or more.
Matched(psi, t, s) ==
  /\ psi \in [t -> s]
  /\ \A n, m \in t : psi[n] = psi[m] => n = m
  /\ \A n \in t : NodeOf[n].cost <= NodeOf[psi[n]].cost

\* The cheapest nodes of two matched sets, which are placed last, can be left out,
\* and what is left is matched still.
LEMMA MatchedWithout ==
  ASSUME NEW s, s \subseteq Ids, NEW t, t \subseteq Ids, NEW psi, Matched(psi, t, s),
         NEW e \in t, psi[e] = Cheapest(s)
  PROVE  LET d == Cheapest(t) IN
         /\ d \in t /\ NodeOf[d].cost <= NodeOf[psi[e]].cost
         /\ \E chi : Matched(chi, t \ {d}, s \ {psi[e]})
<1> DEFINE d == Cheapest(t)
           c == psi[e]
<1>1. c \in s /\ \A m \in s : NodeOf[c].cost <= NodeOf[m].cost
  BY CheapestIsOne DEF Matched
<1>2. d \in t /\ \A m \in t : NodeOf[d].cost <= NodeOf[m].cost
  BY CheapestIsOne
<1>3. /\ \A n \in t : NodeOf[n].cost \in Nat
      /\ \A n \in s : NodeOf[n].cost \in Nat
  BY SproutAssumption
<1>4. c = psi[e]
  OBVIOUS
<1> HIDE DEF d, c
<1>5. NodeOf[d].cost <= NodeOf[e].cost /\ NodeOf[e].cost <= NodeOf[c].cost
  BY <1>2, <1>4 DEF Matched
<1>6. NodeOf[d].cost <= NodeOf[c].cost
  BY <1>1, <1>2, <1>3, <1>5
<1> DEFINE chi == [n \in t \ {d} |-> IF n = e THEN psi[d] ELSE psi[n]]
<1>7. chi \in [t \ {d} -> s \ {c}]
  <2> SUFFICES ASSUME NEW n \in t \ {d} PROVE chi[n] \in s \ {c}
    OBVIOUS
  <2>1. CASE n = e
    <3>1. d # e
      BY <2>1
    <3>2. psi[d] \in s /\ psi[d] # c
      BY <3>1, <1>2, <1>4 DEF Matched
    <3> QED BY <2>1, <3>2
  <2>2. CASE n # e
    <3>1. psi[n] \in s /\ psi[n] # c
      BY <2>2, <1>4 DEF Matched
    <3> QED BY <2>2, <3>1
  <2> QED BY <2>1, <2>2
<1>8. ASSUME NEW n \in t \ {d}, NEW m \in t \ {d}, chi[n] = chi[m] PROVE n = m
  BY <1>8, <1>2 DEF Matched
<1>9. ASSUME NEW n \in t \ {d} PROVE NodeOf[n].cost <= NodeOf[chi[n]].cost
  <2>1. CASE n = e
    <3>1. psi[d] \in s /\ chi[n] = psi[d]
      BY <2>1, <1>2 DEF Matched
    <3>2. NodeOf[c].cost <= NodeOf[psi[d]].cost
      BY <3>1, <1>1
    <3> HIDE DEF chi
    <3> QED BY <2>1, <3>1, <3>2, <1>1, <1>3, <1>5
  <2>2. CASE n # e
    BY <2>2 DEF Matched
  <2> QED BY <2>1, <2>2
<1>10. Matched(chi, t \ {d}, s \ {c})
  <2> HIDE DEF chi
  <2> QED BY <1>7, <1>8, <1>9 DEF Matched
<1> HIDE DEF chi
<1> QED
  BY <1>2, <1>6, <1>10 DEF d, c

\* A wave is not slower than another if its nodes can be matched with different
\* nodes of the other one that cost as much or more: list scheduling of
\* independent nodes, with the costliest first, is monotone (_wave_latency).
THEOREM ScheduleIsMonotone ==
  ASSUME NEW s, s \subseteq Ids, IsFiniteSet(s), NEW t, t \subseteq Ids, IsFiniteSet(t),
         NEW lanes \in Nat \ {0}, NEW psi, Matched(psi, t, s)
  PROVE  WaveLatency(t, 1, lanes) <= WaveLatency(s, 1, lanes)
<1>1. PICK f : Filling(s, lanes, f) /\ WaveLatency(s, 1, lanes) = Max({f[s][l] : l \in 1..lanes})
  BY LanesFill
<1>2. PICK g : Filling(t, lanes, g) /\ WaveLatency(t, 1, lanes) = Max({g[t][l] : l \in 1..lanes})
  BY LanesFill
<1>3. /\ \A U \in SUBSET s : f[U] \in Loads(lanes)
      /\ \A T \in SUBSET t : g[T] \in Loads(lanes)
  BY <1>1, <1>2 DEF Filling
<1> DEFINE P == {U \in SUBSET s :
             \A T \in SUBSET t : \A chi : Matched(chi, T, U) => Below(g[T], f[U], lanes)}
<1>4. {} \in P
  <2> SUFFICES ASSUME NEW T \in SUBSET t, NEW chi, Matched(chi, T, {})
               PROVE  Below(g[T], f[{}], lanes)
    OBVIOUS
  <2>1. T = {}
    BY DEF Matched
  <2>2. g[T] = NoLoads(lanes) /\ f[{}] = NoLoads(lanes)
    BY <2>1, <1>1, <1>2 DEF Filling
  <2> DEFINE p == [l \in 1..lanes |-> l]
  <2>3. Pairing(p, lanes)
    BY DEF Pairing
  <2>4. \A l \in 1..lanes : NoLoads(lanes)[l] <= NoLoads(lanes)[p[l]]
    BY DEF NoLoads
  <2> HIDE DEF p
  <2> QED BY <2>2, <2>3, <2>4 DEF Below
<1>5. ASSUME NEW U \in SUBSET s, U # {}, \A x \in U : U \ {x} \in P PROVE U \in P
  <2> SUFFICES ASSUME NEW T \in SUBSET t, NEW chi, Matched(chi, T, U)
               PROVE  Below(g[T], f[U], lanes)
    OBVIOUS
  <2> DEFINE c == Cheapest(U)
  <2>1. c \in U /\ U \ {c} \in SUBSET s /\ U \subseteq Ids /\ T \subseteq Ids
    BY <1>5, CheapestIsOne
  <2>2. f[U] = Loaded(f[U \ {c}], NodeOf[c].cost) /\ NodeOf[c].cost \in Nat
    BY <1>1, <1>5, <2>1, SproutAssumption DEF Filling
  <2>3. U \ {c} \in P
    BY <1>5, <2>1
  <2>4. f[U \ {c}] \in Loads(lanes) /\ g[T] \in Loads(lanes)
    BY <1>3, <2>1
  <2>5. CASE \A n \in T : chi[n] # c
    <3>1. Matched(chi, T, U \ {c})
      <4>1. chi \in [T -> U \ {c}]
        BY <2>5 DEF Matched
      <4> QED BY <4>1 DEF Matched
    <3>2. Below(g[T], f[U \ {c}], lanes)
      BY <2>3, <3>1
    <3> HIDE DEF c, P
    <3> QED BY <3>2, <2>2, <2>4, LoadedStaysAbove
  <2>6. CASE \E n \in T : chi[n] = c
    <3>1. PICK e \in T : chi[e] = c
      BY <2>6
    <3> DEFINE d == Cheapest(T)
    <3>2. /\ d \in T /\ NodeOf[d].cost <= NodeOf[c].cost
          /\ \E xi : Matched(xi, T \ {d}, U \ {c})
      BY <2>1, <3>1, MatchedWithout
    <3> HIDE DEF d
    <3>3. PICK xi : Matched(xi, T \ {d}, U \ {c})
      BY <3>2
    <3>4. T \ {d} \in SUBSET t
      OBVIOUS
    <3>5. Below(g[T \ {d}], f[U \ {c}], lanes)
      BY <2>3, <3>3, <3>4
    <3>6. g[T] = Loaded(g[T \ {d}], NodeOf[d].cost) /\ NodeOf[d].cost \in Nat
      BY <1>2, <2>1, <3>2, SproutAssumption DEF Filling, d
    <3>7. g[T \ {d}] \in Loads(lanes)
      BY <1>3, <3>4
    <3> HIDE DEF c, P
    <3> QED BY <2>2, <2>4, <3>2, <3>5, <3>6, <3>7, LoadedStaysBelow
  <2> QED BY <2>5, <2>6
<1>6. SUBSET s \subseteq P
  <2> HIDE DEF P
  <2> QED BY <1>4, <1>5, SubsetInduction
<1>7. Below(g[t], f[s], lanes)
  <2>1. s \in P
    BY <1>6
  <2> QED BY <2>1
<1>8. f[s] \in Loads(lanes) /\ g[t] \in Loads(lanes)
  BY <1>3
<1> QED
  BY <1>1, <1>2, <1>7, <1>8, BelowIsFaster

\* A wave has a latency.
LEMMA LatencyIs ==
  ASSUME NEW s, s \subseteq Ids, IsFiniteSet(s), NEW lanes \in Nat \ {0}
  PROVE  WaveLatency(s, 1, lanes) \in Nat
<1>1. PICK f : Filling(s, lanes, f) /\ WaveLatency(s, 1, lanes) = Max({f[s][l] : l \in 1..lanes})
  BY LanesFill
<1>2. f[s] \in Loads(lanes)
  BY <1>1 DEF Filling
<1> QED
  BY <1>1, <1>2, BusiestIs

\* A set of nodes has a cost.
LEMMA CostIs ==
  ASSUME NEW s, s \subseteq Ids, IsFiniteSet(s)
  PROVE  TotalCost(s) \in Nat
<1> DEFINE Any(T) == CHOOSE n \in T : TRUE
           F(f) == [T \in SUBSET s |->
             IF T = {} THEN 0 ELSE NodeOf[Any(T)].cost + f[T \ {Any(T)}]]
           ch == [T \in SUBSET s |-> Any(T)]
           op == [p \in s \X Nat |-> NodeOf[p[1]].cost + p[2]]
<1>1. \A T \in (SUBSET s) \ {{}} : ch[T] = Any(T) /\ Any(T) \in T
  OBVIOUS
<1>2. \A n \in s : NodeOf[n].cost \in Nat
  BY SproutAssumption
<1>3. \A n \in s, v \in Nat : op[<<n, v>>] = NodeOf[n].cost + v /\ op[<<n, v>>] \in Nat
  BY <1>2
<1> HIDE DEF Any
<1>4. PICK w \in [SUBSET s -> Nat] : Recurs(s, 0, ch, op, w)
  <2>1. Picks(s, ch)
    BY <1>1 DEF Picks
  <2>2. StaysIn(s, Nat, op)
    BY <1>3 DEF StaysIn
  <2> HIDE DEF ch, op
  <2> QED BY <2>1, <2>2, RecursionExists
<1>5. \A T \in SUBSET s :
        w[T] = IF T = {} THEN 0 ELSE NodeOf[Any(T)].cost + w[T \ {Any(T)}]
  <2> SUFFICES ASSUME NEW T \in SUBSET s
               PROVE  w[T] = IF T = {} THEN 0 ELSE NodeOf[Any(T)].cost + w[T \ {Any(T)}]
    OBVIOUS
  <2>1. w[T] = IF T = {} THEN 0 ELSE op[<<ch[T], w[T \ {ch[T]}]>>]
    BY <1>4 DEF Recurs
  <2>2. w[T \ {Any(T)}] \in Nat
    BY <1>4
  <2> HIDE DEF op, ch
  <2>3. CASE T # {}
    <3>1. ch[T] = Any(T) /\ Any(T) \in s
      BY <1>1, <2>3
    <3> QED BY <2>1, <2>2, <2>3, <3>1, <1>3
  <2> QED BY <2>1, <2>3
<1>6. w = F(w)
  <2>1. w = [T \in SUBSET s |-> w[T]]
    BY <1>4
  <2> QED BY <1>5, <2>1
<1>7. PICK f : f = F(f) /\ f = CHOOSE g : g = F(g)
  <2> HIDE DEF F
  <2> QED BY <1>6
<1>8. /\ f[{}] = 0
      /\ \A T \in (SUBSET s) \ {{}} : f[T] = NodeOf[Any(T)].cost + f[T \ {Any(T)}]
  <2>1. \A T \in SUBSET s : f[T] = F(f)[T]
    <3> HIDE DEF F
    <3> QED BY <1>7
  <2> QED BY <2>1
<1> DEFINE P == {T \in SUBSET s : f[T] \in Nat}
<1>9. {} \in P
  BY <1>8
<1>10. ASSUME NEW U \in SUBSET s, U # {}, \A x \in U : U \ {x} \in P PROVE U \in P
  <2>1. Any(U) \in U /\ Any(U) \in s
    BY <1>1, <1>10
  <2>2. f[U \ {Any(U)}] \in Nat
    BY <1>10, <2>1
  <2>3. f[U] = NodeOf[Any(U)].cost + f[U \ {Any(U)}]
    BY <1>8, <1>10
  <2> QED BY <2>1, <2>2, <2>3, <1>2
<1>11. SUBSET s \subseteq P
  <2> HIDE DEF P
  <2> QED BY <1>9, <1>10, SubsetInduction
<1>12. f[s] \in Nat
  <2>1. s \in P
    BY <1>11
  <2> QED BY <2>1
<1>13. TotalCost(s) = f[s]
  BY Zenon, <1>7 DEF TotalCost, MapThenSumSet, MapThenFoldSet, Any
<1> QED
  BY <1>12, <1>13

-----------------------------------------------------------------------------
(* Dominated candidates.                                                   *)

\* What a candidate is wanted for is done by one that is not dominated, at no
\* higher cost.
LEMMA BetterStays ==
  ASSUME NEW targets, NEW nodes, nodes \subseteq Ids, NEW n \in Relevant(targets, nodes)
  PROVE  \E m \in Undominated(targets, nodes) :
           /\ NodeOf[n].closes \cap targets \subseteq NodeOf[m].closes
           /\ NodeOf[m].cost <= NodeOf[n].cost
<1> DEFINE Able == {m \in Relevant(targets, nodes) :
                      NodeOf[n].closes \cap targets \subseteq NodeOf[m].closes}
           f == [m \in Able |-> NodeOf[m].cost]
<1>1. n \in Able /\ Able \subseteq nodes /\ Able \subseteq Ids
  BY DEF Relevant
<1>2. \A m \in Able : f[m] = NodeOf[m].cost /\ f[m] \in Nat /\ m \in Nat
  BY <1>1, SproutAssumption
<1>3. PICK x \in Able : \A m \in Able : f[x] <= f[m]
  <2> HIDE DEF f, Able
  <2> QED BY <1>1, <1>2, LeastOf
<1> DEFINE Least == {m \in Able : NodeOf[m].cost = NodeOf[x].cost}
<1>4. PICK k \in Least : \A m \in Least : k <= m
  <2>1. Least \subseteq Nat /\ x \in Least
    BY <1>2
  <2> HIDE DEF Least
  <2> QED BY <2>1, LeastExists
<1>5. k \in Able /\ NodeOf[k].cost = NodeOf[x].cost /\ \A m \in Able : NodeOf[k].cost <= NodeOf[m].cost
  <2>1. \A m \in Able : NodeOf[x].cost <= NodeOf[m].cost
    <3> HIDE DEF Able, f
    <3> QED BY <1>2, <1>3
  <2> HIDE DEF Able, f
  <2> QED BY <2>1, <1>4
<1>6. ASSUME NEW m \in Relevant(targets, nodes), Dominates(m, k, targets) PROVE FALSE
  <2>1. m \in Able
    BY <1>5, <1>6 DEF Dominates
  <2>2. NodeOf[m].cost \in Nat /\ NodeOf[k].cost \in Nat /\ m \in Nat /\ k \in Nat
    BY <1>1, <1>5, <2>1, SproutAssumption
  <2>3. NodeOf[k].cost <= NodeOf[m].cost
    BY <1>5, <2>1
  <2>4. NodeOf[k].cost = NodeOf[m].cost /\ m < k
    BY <1>6, <2>2, <2>3 DEF Dominates
  <2>5. m \in Least
    BY <1>5, <2>1, <2>4
  <2>6. k <= m
    BY <1>4, <2>5
  <2> QED BY <2>2, <2>4, <2>6
<1>7. k \in Undominated(targets, nodes)
  BY <1>5, <1>6 DEF Undominated
<1>8. NodeOf[k].cost <= NodeOf[n].cost
  BY <1>1, <1>5
<1> QED
  BY <1>5, <1>7, <1>8

\* If all candidates that matter can run together, each cover with a choice of
\* them has one with undominated ones in its place that is not slower.
LEMMA CoverShrinks ==
  ASSUME NEW targets, targets # {}, NEW nodes, nodes \subseteq Ids, IsFiniteSet(nodes),
         Combinable(Relevant(targets, nodes)), NEW budget \in Nat, NEW wip \in Nat \ {0},
         NEW s \in Covers(targets, nodes, budget)
  PROVE  \E t \in Covers(targets, Undominated(targets, nodes), budget) :
           WaveLatency(t, 1, wip) <= WaveLatency(s, 1, wip)
<1> DEFINE r == s \cap Relevant(targets, nodes)
           Good(n, m) == /\ m \in Undominated(targets, nodes)
                         /\ NodeOf[n].closes \cap targets \subseteq NodeOf[m].closes
                         /\ NodeOf[m].cost <= NodeOf[n].cost
           better == [n \in r |-> CHOOSE m : Good(n, m)]
           t == {better[n] : n \in r}
           psi == [m \in t |-> CHOOSE n \in r : better[n] = m]
<1>1. /\ s \subseteq nodes /\ s \subseteq Ids /\ IsFiniteSet(s) /\ targets \subseteq Closes(s)
      /\ Cardinality(s) \in 1..budget
  BY FS_Subset DEF Covers
<1>2. ASSUME NEW n \in r PROVE Good(n, better[n])
  <2>1. \E m : Good(n, m)
    BY BetterStays
  <2> HIDE DEF Good
  <2> QED BY <2>1
<1>3. \A m \in t : psi[m] \in r /\ better[psi[m]] = m
  <2> HIDE DEF better, r
  <2> QED OBVIOUS
<1>4. /\ Undominated(targets, nodes) \subseteq Relevant(targets, nodes)
      /\ Relevant(targets, nodes) \subseteq nodes
  BY DEF Undominated, Relevant
<1>5. t \subseteq Undominated(targets, nodes)
  <2> HIDE DEF better, r
  <2> QED BY <1>2
<1>6. psi \in [t -> s]
  <2>1. r \subseteq s
    OBVIOUS
  <2> HIDE DEF better, r, t
  <2>2. \A m \in t : (CHOOSE n \in r : better[n] = m) \in r
    BY <1>3
  <2> QED BY <2>1, <2>2
<1>7. Matched(psi, t, s)
  <2>1. ASSUME NEW m \in t PROVE NodeOf[m].cost <= NodeOf[psi[m]].cost
    <3> HIDE DEF psi, better, t, r
    <3> QED BY <1>2, <1>3
  <2> HIDE DEF psi, better, t, r
  <2> QED BY <1>3, <1>6, <2>1 DEF Matched
<1>8. IsFiniteSet(t) /\ Cardinality(t) <= Cardinality(s)
  <2> HIDE DEF psi, t
  <2>1. psi \in Injection(t, s)
    BY <1>7 DEF Matched, Injection, IsInjective
  <2> QED BY <2>1, <1>1, FS_Injection
<1>9. targets \subseteq Closes(t)
  <2> SUFFICES ASSUME NEW o \in targets PROVE \E m \in t : o \in NodeOf[m].closes
    BY DEF Closes
  <2>1. PICK n \in s : o \in NodeOf[n].closes
    BY <1>1 DEF Closes
  <2>2. n \in r
    BY <1>1, <2>1 DEF Relevant, Meet
  <2>3. better[n] \in t
    BY <2>2
  <2> HIDE DEF better, r, t
  <2> QED BY <2>1, <2>2, <2>3, <1>2
<1> HIDE DEF psi, better, t, r
<1>10. t # {}
  BY <1>9 DEF Closes
<1>11. Cardinality(t) \in 1..budget
  <2>1. Cardinality(t) \in Nat /\ Cardinality(t) # 0
    BY <1>8, <1>10, FS_CardinalityType, FS_EmptySet
  <2> QED BY <2>1, <1>1, <1>8
<1>12. Combinable(t)
  BY <1>4, <1>5 DEF Combinable
<1>13. t \in Covers(targets, Undominated(targets, nodes), budget)
  BY <1>5, <1>9, <1>11, <1>12 DEF Covers
<1>14. t \subseteq Ids
  BY <1>4, <1>5
<1>15. WaveLatency(t, 1, wip) <= WaveLatency(s, 1, wip)
  BY <1>1, <1>7, <1>8, <1>14, ScheduleIsMonotone
<1> QED
  BY <1>13, <1>15

-----------------------------------------------------------------------------
(* The first of the covers.                                                *)

\* Of a finite set of things in an order there is a first one.
Ordered(S, R) ==
  /\ \A x, y \in S : x # y => <<x, y>> \in R \/ <<y, x>> \in R
  /\ \A x, y, z \in S : <<x, y>> \in R /\ <<y, z>> \in R => <<x, z>> \in R
HasFirst(S, R) == \E x \in S : \A y \in S \ {x} : <<x, y>> \in R

\* A finite set with a total, transitive order has a first member.
LEMMA FirstExists ==
  ASSUME NEW S, IsFiniteSet(S), S # {}, NEW R, Ordered(S, R)
  PROVE  HasFirst(S, R)
<1> DEFINE P == {U \in SUBSET S : U = {} \/ HasFirst(U, R)}
<1>1. {} \in P
  OBVIOUS
<1>2. ASSUME NEW U \in SUBSET S, U # {}, \A x \in U : U \ {x} \in P PROVE U \in P
  <2>1. PICK x \in U : TRUE
    BY <1>2
  <2>2. U \ {x} = {} \/ HasFirst(U \ {x}, R)
    BY <1>2
  <2>3. CASE U \ {x} = {}
    BY <2>3 DEF HasFirst
  <2>4. CASE HasFirst(U \ {x}, R)
    <3>1. PICK y \in U \ {x} : \A z \in (U \ {x}) \ {y} : <<y, z>> \in R
      BY <2>4 DEF HasFirst
    <3>2. <<x, y>> \in R \/ <<y, x>> \in R
      BY <2>1, <3>1 DEF Ordered
    <3>3. CASE <<y, x>> \in R
      BY <3>1, <3>3 DEF HasFirst
    <3>4. CASE <<x, y>> \in R
      <4>1. ASSUME NEW z \in U \ {x} PROVE <<x, z>> \in R
        <5>1. CASE z = y
          BY <3>4, <5>1
        <5>2. CASE z # y
          BY <3>1, <3>4, <5>2 DEF Ordered
        <5> QED BY <5>1, <5>2
      <4> QED BY <4>1 DEF HasFirst
    <3> QED BY <3>2, <3>3, <3>4
  <2> QED BY <2>2, <2>3, <2>4
<1>3. SUBSET S \subseteq P
  <2> HIDE DEF P
  <2> QED BY <1>1, <1>2, SubsetInduction
<1>4. S \in P
  BY <1>3
<1> QED
  BY <1>4

\* Sets of numbers are ordered by the least number that only one of them has.
Sooner(s, t) == \E n \in s \ t : \A m \in (s \ t) \cup (t \ s) : n <= m

\* Of two sets of numbers one comes sooner.
LEMMA SoonerIsTotal ==
  ASSUME NEW s, s \subseteq Nat, NEW t, t \subseteq Nat, s # t
  PROVE  Sooner(s, t) \/ Sooner(t, s)
<1> DEFINE D == (s \ t) \cup (t \ s)
<1>1. D \subseteq Nat /\ D # {}
  OBVIOUS
<1>2. PICK n \in D : \A m \in D : n <= m
  <2> HIDE DEF D
  <2> QED BY <1>1, LeastExists
<1> QED
  BY <1>2 DEF Sooner

\* What comes sooner than a sooner one comes sooner.
LEMMA SoonerIsTransitive ==
  ASSUME NEW s, s \subseteq Nat, NEW t, t \subseteq Nat, NEW u, u \subseteq Nat,
         Sooner(s, t), Sooner(t, u)
  PROVE  Sooner(s, u)
<1>1. PICK n \in s \ t : \A x \in (s \ t) \cup (t \ s) : n <= x
  BY DEF Sooner
<1>2. PICK m \in t \ u : \A x \in (t \ u) \cup (u \ t) : m <= x
  BY DEF Sooner
<1>3. n \in Nat /\ m \in Nat /\ n # m
  OBVIOUS
<1>4. \A x \in (s \ u) \cup (u \ s) :
        x \in Nat /\ (x \in (s \ t) \cup (t \ s) \/ x \in (t \ u) \cup (u \ t))
  OBVIOUS
<1>5. CASE n < m
  <2>1. ~(m <= n)
    BY <1>3, <1>5
  <2>2. n \in s \ u
    BY <1>2, <2>1
  <2>3. ASSUME NEW x \in (s \ u) \cup (u \ s) PROVE n <= x
    <3>1. n <= x \/ m <= x
      BY <1>1, <1>2, <1>4
    <3> QED BY <3>1, <1>3, <1>4, <1>5
  <2> QED BY <2>2, <2>3 DEF Sooner
<1>6. CASE m < n
  <2>1. ~(n <= m)
    BY <1>3, <1>6
  <2>2. m \in s \ u
    BY <1>1, <2>1
  <2>3. ASSUME NEW x \in (s \ u) \cup (u \ s) PROVE m <= x
    <3>1. n <= x \/ m <= x
      BY <1>1, <1>2, <1>4
    <3> QED BY <3>1, <1>3, <1>4, <1>6
  <2> QED BY <2>2, <2>3 DEF Sooner
<1> QED
  BY <1>3, <1>5, <1>6

\* The key of a cover: the numbers first, then the ids.
Ahead(ls, cs, ks, s, lt, ct, kt, t) ==
  \/ ls < lt
  \/ ls = lt /\ cs < ct
  \/ ls = lt /\ cs = ct /\ ks < kt
  \/ ls = lt /\ cs = ct /\ ks = kt /\ Sooner(s, t)

\* Covers precede one another by latency, cost, size and then by their nodes.
LEMMA PrecedesIs ==
  ASSUME NEW s, NEW t, NEW wip
  PROVE  Precedes(s, t, wip) <=>
           Ahead(WaveLatency(s, 1, wip), TotalCost(s), Cardinality(s), s,
                 WaveLatency(t, 1, wip), TotalCost(t), Cardinality(t), t)
BY DEF Precedes, Ahead, Sooner

\* The key of a cover orders the covers of any offer totally.
LEMMA CoversAreOrdered ==
  ASSUME NEW covers, NEW nodes, nodes \subseteq Ids, IsFiniteSet(nodes),
         covers \subseteq SUBSET nodes, NEW wip \in Nat \ {0}
  PROVE  Ordered(covers, {p \in covers \X covers : Precedes(p[1], p[2], wip)})
<1> DEFINE L(s) == WaveLatency(s, 1, wip)
           C(s) == TotalCost(s)
           K(s) == Cardinality(s)
           A(s, t) == Ahead(L(s), C(s), K(s), s, L(t), C(t), K(t), t)
           R == {p \in covers \X covers : Precedes(p[1], p[2], wip)}
<1>1. \A s \in covers : L(s) \in Nat /\ C(s) \in Nat /\ K(s) \in Nat /\ s \subseteq Nat
  <2> SUFFICES ASSUME NEW s \in covers
               PROVE  L(s) \in Nat /\ C(s) \in Nat /\ K(s) \in Nat /\ s \subseteq Nat
    OBVIOUS
  <2>1. s \subseteq Ids /\ IsFiniteSet(s) /\ s \subseteq Nat
    BY FS_Subset, SproutAssumption
  <2> QED BY <2>1, LatencyIs, CostIs, FS_CardinalityType
<1>2. \A s, t \in covers : <<s, t>> \in R <=> A(s, t)
  BY PrecedesIs
<1> HIDE DEF L, C, K, R
<1>3. ASSUME NEW s \in covers, NEW t \in covers, s # t PROVE A(s, t) \/ A(t, s)
  <2>1. /\ L(s) \in Nat /\ C(s) \in Nat /\ K(s) \in Nat /\ L(t) \in Nat /\ C(t) \in Nat /\ K(t) \in Nat
        /\ s \subseteq Nat /\ t \subseteq Nat
    BY <1>1
  <2>2. Sooner(s, t) \/ Sooner(t, s)
    BY <2>1, <1>3, SoonerIsTotal
  <2> QED BY <2>1, <2>2 DEF Ahead
<1>4. ASSUME NEW s \in covers, NEW t \in covers, NEW u \in covers, A(s, t), A(t, u) PROVE A(s, u)
  <2>1. /\ L(s) \in Nat /\ C(s) \in Nat /\ K(s) \in Nat /\ L(t) \in Nat /\ C(t) \in Nat /\ K(t) \in Nat
        /\ L(u) \in Nat /\ C(u) \in Nat /\ K(u) \in Nat
        /\ s \subseteq Nat /\ t \subseteq Nat /\ u \subseteq Nat
    BY <1>1
  <2>2. Sooner(s, t) /\ Sooner(t, u) => Sooner(s, u)
    BY <2>1, SoonerIsTransitive
  <2> QED BY <1>4, <2>1, <2>2 DEF Ahead
<1> HIDE DEF A
<1>5. Ordered(covers, R)
  BY <1>2, <1>3, <1>4 DEF Ordered
<1> QED
  BY <1>5 DEF R

\* The best of some covers is one of them, and none is faster.
LEMMA BestIs ==
  ASSUME NEW covers, covers # {}, NEW nodes, nodes \subseteq Ids, IsFiniteSet(nodes),
         covers \subseteq SUBSET nodes, NEW wip \in Nat \ {0}
  PROVE  /\ Best(covers, wip) \in covers
         /\ \A t \in covers : WaveLatency(Best(covers, wip), 1, wip) <= WaveLatency(t, 1, wip)
<1> DEFINE R == {p \in covers \X covers : Precedes(p[1], p[2], wip)}
           b == Best(covers, wip)
<1>1. IsFiniteSet(covers)
  BY FS_SUBSET, FS_Subset
<1>2. Ordered(covers, R)
  BY CoversAreOrdered
<1>3. HasFirst(covers, R)
  <2> HIDE DEF R
  <2> QED BY <1>1, <1>2, FirstExists
<1>4. \E s \in covers : \A t \in covers \ {s} : Precedes(s, t, wip)
  BY <1>3 DEF HasFirst
<1>5. b \in covers /\ \A t \in covers \ {b} : Precedes(b, t, wip)
  BY <1>4 DEF Best
<1> HIDE DEF b
<1>6. \A t \in covers : WaveLatency(t, 1, wip) \in Nat
  <2> SUFFICES ASSUME NEW t \in covers PROVE WaveLatency(t, 1, wip) \in Nat
    OBVIOUS
  <2>1. t \subseteq Ids /\ IsFiniteSet(t)
    BY FS_Subset
  <2> QED BY <2>1, LatencyIs
<1>7. ASSUME NEW t \in covers PROVE WaveLatency(b, 1, wip) <= WaveLatency(t, 1, wip)
  <2>1. CASE t = b
    BY <2>1, <1>6
  <2>2. CASE t # b
    <3>1. Precedes(b, t, wip)
      BY <1>5, <2>2
    <3>2. \/ WaveLatency(b, 1, wip) < WaveLatency(t, 1, wip)
          \/ WaveLatency(b, 1, wip) = WaveLatency(t, 1, wip)
      BY <3>1, PrecedesIs DEF Ahead
    <3> QED BY <3>2, <1>5, <1>6
  <2> QED BY <2>1, <2>2
<1> QED
  BY <1>5, <1>7 DEF b

-----------------------------------------------------------------------------
(* What the planning calls decide.                                         *)

Chooses(d) == Legal(d, Targets(artifact)) /\ Optimal(d, Targets(artifact))

\* A decision that starts nothing is sound, if it does not say that there is no
\* cover, or says so rightly.
LEMMA RestraintIsSound ==
  ASSUME NEW d, d.action \notin {"spawn", "retry"},
         \/ d.reason # "no_candidate_cover"
         \/ Combinable(Relevant(Targets(artifact), offered)) =>
              Covers(Targets(artifact), offered, setting.budget) = {}
  PROVE  Chooses(d)
BY DEF Chooses, Legal, Optimal

\* route: the choice among the undominated candidates.
LEMMA CoverIsChosen ==
  ASSUME offered \in Offers, setting \in Settings, Targets(artifact) # {},
         InState(artifact, "unknown") = {},
         Covers(Targets(artifact), Undominated(Targets(artifact), offered), setting.budget) # {}
  PROVE  LET covers == Covers(Targets(artifact), Undominated(Targets(artifact), offered),
                              setting.budget)
         IN  Chooses(Decided(IF InState(artifact, "failed") # {} THEN "retry" ELSE "spawn",
                             Best(covers, setting.wip), Targets(artifact),
                             "lowest_latency_proof_cover"))
<1> DEFINE targets == Targets(artifact)
           kept    == Undominated(targets, offered)
           covers  == Covers(targets, kept, setting.budget)
           b       == Best(covers, setting.wip)
           act     == IF InState(artifact, "failed") # {} THEN "retry" ELSE "spawn"
           d       == Decided(act, b, targets, "lowest_latency_proof_cover")
<1>1. /\ offered \subseteq Ids /\ IsFiniteSet(offered)
      /\ setting.wip \in Nat \ {0} /\ setting.budget \in Nat
  BY SproutAssumption
<1>2. /\ kept \subseteq Relevant(targets, offered) /\ kept \subseteq offered /\ kept \subseteq Ids
      /\ IsFiniteSet(kept)
  <2>1. kept \subseteq Relevant(targets, offered) /\ Relevant(targets, offered) \subseteq offered
    BY DEF Undominated, Relevant
  <2> HIDE DEF kept
  <2> QED BY <1>1, <2>1, FS_Subset
<1>3. covers \subseteq SUBSET kept
  BY DEF Covers
<1>4. covers # {} /\ targets # {}
  OBVIOUS
<1>5. b \in covers /\ \A t \in covers : WaveLatency(b, 1, setting.wip) <= WaveLatency(t, 1, setting.wip)
  <2> HIDE DEF kept, covers
  <2> QED BY <1>1, <1>2, <1>3, <1>4, BestIs
<1>6. /\ d.action = act /\ d.nodes = b /\ d.reason = "lowest_latency_proof_cover"
      /\ act \in {"spawn", "retry"} /\ (act = "retry" <=> InState(artifact, "failed") # {})
  BY DEF Decided
<1> HIDE DEF b, act, d
<1>7. /\ b \subseteq kept /\ Cardinality(b) \in 1..setting.budget
      /\ Combinable(b) /\ targets \subseteq Closes(b)
  BY <1>5 DEF Covers
<1>8. \A n \in b : Meet(NodeOf[n].closes, targets)
  BY <1>2, <1>7 DEF Relevant
<1>9. Cardinality(b) <= setting.budget /\ b \subseteq offered
  BY <1>1, <1>2, <1>7
<1> HIDE DEF targets, kept, covers
<1>10. Legal(d, targets)
  BY <1>6, <1>7, <1>8, <1>9 DEF Legal
<1>11. ASSUME Combinable(Relevant(targets, offered)),
              NEW s \in Covers(targets, offered, setting.budget)
       PROVE  WaveLatency(b, 1, setting.wip) <= WaveLatency(s, 1, setting.wip)
  <2>1. \E t \in Covers(targets, Undominated(targets, offered), setting.budget) :
          WaveLatency(t, 1, setting.wip) <= WaveLatency(s, 1, setting.wip)
    BY <1>1, <1>4, <1>11, CoverShrinks
  <2>2. PICK t \in covers : WaveLatency(t, 1, setting.wip) <= WaveLatency(s, 1, setting.wip)
    BY <2>1 DEF covers, kept
  <2>3. s \subseteq Ids /\ t \subseteq Ids /\ b \subseteq Ids
    BY <1>1, <1>2, <1>3, <1>7 DEF Covers
  <2>4. IsFiniteSet(s) /\ IsFiniteSet(t) /\ IsFiniteSet(b)
    <3>1. s \subseteq offered /\ t \subseteq kept
      BY <1>3 DEF Covers
    <3> QED BY <3>1, <1>1, <1>2, <1>7, FS_Subset
  <2>5. /\ WaveLatency(s, 1, setting.wip) \in Nat /\ WaveLatency(t, 1, setting.wip) \in Nat
        /\ WaveLatency(b, 1, setting.wip) \in Nat
    BY <1>1, <2>3, <2>4, LatencyIs
  <2>6. WaveLatency(b, 1, setting.wip) <= WaveLatency(t, 1, setting.wip)
    BY <1>5
  <2> QED BY <2>2, <2>5, <2>6
<1>12. Optimal(d, targets)
  BY <1>6, <1>11 DEF Optimal
<1>13. Chooses(d)
  BY <1>10, <1>12 DEF Chooses, targets
<1> QED
  BY <1>13 DEF d, act, b, covers, kept, targets

\* route, whatever it decides.
LEMMA FrontierRoutesWell ==
  ASSUME offered \in Offers, setting \in Settings
  PROVE  Chooses(Route(artifact, offered, setting.budget, setting.wip))
<1> DEFINE targets == Targets(artifact)
           kept    == Undominated(targets, offered)
           covers  == Covers(targets, kept, setting.budget)
           d       == Route(artifact, offered, setting.budget, setting.wip)
<1>1. CASE \/ InState(artifact, "unknown") # {} \/ targets = {}
           \/ Cardinality(Relevant(targets, offered)) > MaxInput
           \/ Cardinality(kept) > MaxCandidates \/ setting.budget > MaxBranches
  <2>1. d.action \in {"escalate", "stop"} /\ d.reason # "no_candidate_cover"
    BY <1>1 DEF Route, Decided
  <2> HIDE DEF d
  <2>2. d.action \notin {"spawn", "retry"}
    BY <2>1
  <2>3. Chooses(d)
    BY <2>1, <2>2, RestraintIsSound
  <2> QED BY <2>3 DEF d
<1>2. CASE ~(\/ InState(artifact, "unknown") # {} \/ targets = {}
             \/ Cardinality(Relevant(targets, offered)) > MaxInput
             \/ Cardinality(kept) > MaxCandidates \/ setting.budget > MaxBranches)
  <2>1. CASE covers = {}
    <3>1. d = Decided("escalate", {}, targets, "no_candidate_cover")
      BY <1>2, <2>1 DEF Route
    <3>2. d.action = "escalate"
      BY <3>1 DEF Decided
    <3>3. Combinable(Relevant(targets, offered)) => Covers(targets, offered, setting.budget) = {}
      <4>1. /\ offered \subseteq Ids /\ IsFiniteSet(offered)
            /\ setting.wip \in Nat \ {0} /\ setting.budget \in Nat
        BY SproutAssumption
      <4>2. targets # {}
        BY <1>2
      <4> HIDE DEF targets
      <4> QED BY <4>1, <4>2, <2>1, CoverShrinks
    <3> HIDE DEF d
    <3>4. Chooses(d)
      BY <3>2, <3>3, RestraintIsSound
    <3> QED BY <3>4 DEF d
  <2>2. CASE covers # {}
    <3>1. d = Decided(IF InState(artifact, "failed") # {} THEN "retry" ELSE "spawn",
                      Best(covers, setting.wip), targets, "lowest_latency_proof_cover")
      BY <1>2, <2>2 DEF Route
    <3>2. targets # {} /\ InState(artifact, "unknown") = {}
      BY <1>2
    <3> HIDE DEF d
    <3>3. Chooses(d)
      BY <3>1, <3>2, <2>2, CoverIsChosen
    <3> QED BY <3>3 DEF d
  <2> QED BY <2>1, <2>2
<1> QED
  BY <1>1, <1>2

\* route_if_profitable keeps the decision or starts the static nodes or nothing.
LEMMA ProfitableIsSound ==
  ASSUME NEW d, Chooses(d)
  PROVE  Chooses(RouteIfProfitable(d, setting))
<1> DEFINE e == RouteIfProfitable(d, setting)
<1>1. \/ e = d
      \/ /\ e.action \in {"use_static", "escalate"}
         /\ e.reason \in {"pilot_schedule_uncertain", "static_route_incomplete", "pilot_not_profitable"}
  BY DEF RouteIfProfitable, UseStatic, Decided
<1> HIDE DEF e
<1>2. CASE e = d
  BY <1>2 DEF e
<1>3. CASE /\ e.action \in {"use_static", "escalate"}
           /\ e.reason \in {"pilot_schedule_uncertain", "static_route_incomplete", "pilot_not_profitable"}
  <2>1. e.action \notin {"spawn", "retry"} /\ e.reason # "no_candidate_cover"
    BY <1>3
  <2>2. Chooses(e)
    BY <2>1, RestraintIsSound
  <2> QED BY <2>2 DEF e
<1> QED
  BY <1>1, <1>2, <1>3

\* _plan_with_shadow keeps the decision or starts the static nodes, for a reason
\* of its own or the one why route started nothing.
LEMMA ConditionalIsSound ==
  ASSUME NEW d, Chooses(d), NEW independent
  PROVE  Chooses(PlanConditionally(artifact, d, setting, independent))
<1> DEFINE all  == Reservations(artifact, d, setting, independent)
           held == {i \in DOMAIN all : all[i][2]}
           e    == PlanConditionally(artifact, d, setting, independent)
<1>1. DOMAIN all = 1..8
  BY DEF Reservations
<1>2. /\ all[1][1] = "planning_uncertain" /\ all[2][1] = "target_count_below_four"
      /\ all[3][1] = "targets_not_independent" /\ all[4][1] = d.reason
      /\ all[5][1] = "pilot_schedule_uncertain" /\ all[6][1] = "proof_coverage_reduced"
      /\ all[7][1] = "ai_session_count_increased" /\ all[8][1] = "pilot_not_profitable"
      /\ all[4][2] = (d.action # "spawn")
  BY DEF Reservations
<1> HIDE DEF all
<1>3. CASE held = {}
  BY <1>3 DEF PlanConditionally, all
<1>4. CASE held # {}
  <2> DEFINE k == Min(held)
  <2>1. held \subseteq 1..8 /\ held \subseteq Nat
    BY <1>1
  <2>2. k \in held
    <3> HIDE DEF held
    <3>1. \E x \in held : \A y \in held : x <= y
      BY <1>4, <2>1, LeastExists
    <3> QED BY <3>1 DEF Min
  <2>3. k \in 1..8 /\ all[k][2]
    BY <2>1, <2>2
  <2>4. e.action = "use_static" /\ e.reason = all[k][1]
    BY <1>4 DEF PlanConditionally, all, Decided
  <2> HIDE DEF k, held, e
  <2>5. CASE k = 4
    <3>1. e.reason = d.reason
      BY <2>4, <2>5, <1>2
    <3>2. \/ e.reason # "no_candidate_cover"
          \/ Combinable(Relevant(Targets(artifact), offered)) =>
               Covers(Targets(artifact), offered, setting.budget) = {}
      BY <3>1 DEF Chooses, Optimal
    <3>3. Chooses(e)
      BY <2>4, <3>2, RestraintIsSound
    <3> QED BY <3>3 DEF e
  <2>6. CASE k # 4
    <3>1. k \in {1, 2, 3, 5, 6, 7, 8}
      BY <2>3, <2>6
    <3>2. e.reason # "no_candidate_cover" /\ e.action \notin {"spawn", "retry"}
      BY <2>4, <3>1, <1>2
    <3>3. Chooses(e)
      BY <3>2, RestraintIsSound
    <3> QED BY <3>3 DEF e
  <2> QED BY <2>5, <2>6
<1> QED
  BY <1>3, <1>4

\* Under whose authority a plan has grown; an artifact is trusted once, and what
\* is trusted then is a digest, which no later artifact has.
Authorizing == \A a \in grown : Qualified(a) /\ a.journaled /\ a.claimed /\ a \in trusted
GInv == offered \in Offers /\ setting \in Settings /\ Authorizing

\* What is decided is sound, the one thing a step of the caller can change.
LEMMA PlanIsSound ==
  ASSUME GInv, Plan
  PROVE  Chooses(decision')
<1> DEFINE d == Route(artifact, offered, setting.budget, setting.wip)
<1>1. Chooses(d)
  BY FrontierRoutesWell DEF GInv
<1>2. \/ decision' = d \/ decision' = RouteIfProfitable(d, setting)
      \/ \E independent \in {"yes", "no", "unknown"} :
           decision' = PlanConditionally(artifact, d, setting, independent)
  BY DEF Plan
<1> HIDE DEF d
<1> QED
  BY <1>1, <1>2, ProfitableIsSound, ConditionalIsSound

\* Every step keeps what is known of the artifacts a plan grows under.
LEMMA GStep ==
  ASSUME GInv, [GNext]_gvars
  PROVE  GInv'
<1> USE DEF GInv, Authorizing
<1>1. CASE Plan
  BY <1>1 DEF Plan
<1>2. CASE Journal
  BY <1>2 DEF Journal
<1>3. CASE Trust
  BY <1>3 DEF Trust
<1>4. ASSUME NEW o \in Obligations, Record(o) PROVE GInv'
  BY <1>4 DEF Record
<1>5. ASSUME NEW nodes \in SUBSET offered, Expand(nodes) PROVE GInv'
  BY <1>5 DEF Expand, Authorized
<1>6. CASE UNCHANGED gvars
  BY <1>6 DEF gvars
<1> QED
  BY <1>1, <1>2, <1>3, <1>4, <1>5, <1>6 DEF GNext

\* Whatever the nodes, the offers and the settings, what a planning call starts is
\* legal and the fastest choice, and a plan grows only under a trusted artifact.
THEOREM GrowthIsAlwaysSound ==
  GSpec => GrowthIsSound
<1>1. GInit => GInv
  BY DEF GInit, GInv, Authorizing
<1>2. GInv /\ [GNext]_gvars => GInv'
  BY GStep
<1>3. GInv /\ [GNext]_gvars =>
        [rounds' # rounds => /\ Legal(decision', Targets(artifact))
                             /\ Optimal(decision', Targets(artifact))]_gvars
  <2> SUFFICES ASSUME GInv, [GNext]_gvars, rounds' # rounds
               PROVE  Chooses(decision')
    BY DEF Chooses
  <2>1. Plan
    BY DEF GNext, gvars, Journal, Trust, Record, Expand
  <2> QED BY <2>1, PlanIsSound
<1>4. GInv => \A a \in grown : Qualified(a) /\ a.journaled /\ a.claimed /\ a \in trusted
  BY DEF GInv, Authorizing
<1> QED
  BY <1>1, <1>2, <1>3, <1>4, PTL DEF GSpec, GrowthIsSound

-----------------------------------------------------------------------------
(* Types.                                                                  *)

Actions   == {"none", "spawn", "retry", "use_static", "stop", "escalate"}
Decisions == [action : Actions, nodes : SUBSET Ids, targets : SUBSET Obligations, reason : Reasons]

\* A decision is put together from an action, nodes, targets and a reason.
LEMMA DecidedIs ==
  ASSUME NEW act \in Actions, NEW nodes \in SUBSET Ids, NEW targets \in SUBSET Obligations,
         NEW reason \in Reasons
  PROVE  Decided(act, nodes, targets, reason) \in Decisions
BY DEF Decided, Decisions

\* The reasons that are given are among the reasons there are.
LEMMA ReasonsAre ==
  /\ \A r \in SearchFailed : r \in Reasons
  /\ \A r \in {"", "unknown_proof", "proofs_closed", "lowest_latency_proof_cover",
               "static_route_incomplete", "pilot_schedule_uncertain", "pilot_not_profitable",
               "planning_uncertain", "target_count_below_four", "targets_not_independent",
               "proof_coverage_reduced", "ai_session_count_increased"} : r \in Reasons
BY DEF Reasons

\* What the three planning calls return is a decision.
LEMMA RouteIsTyped ==
  ASSUME GTypeOK
  PROVE  Route(artifact, offered, setting.budget, setting.wip) \in Decisions
<1> DEFINE targets == Targets(artifact)
           covers  == Covers(targets, Undominated(targets, offered), setting.budget)
           b       == Best(covers, setting.wip)
           d       == Route(artifact, offered, setting.budget, setting.wip)
<1>1. targets \subseteq Obligations /\ InState(artifact, "unknown") \subseteq Obligations
  BY DEF Targets, InState
<1>2. /\ offered \subseteq Ids /\ IsFiniteSet(offered) /\ setting.wip \in Nat \ {0}
  BY SproutAssumption DEF GTypeOK
<1>3. covers \subseteq SUBSET offered
  BY DEF Covers, Undominated, Relevant
<1>4. covers # {} => b \subseteq Ids
  <2> HIDE DEF covers
  <2>1. covers # {} => b \in covers
    BY <1>2, <1>3, BestIs
  <2> QED BY <2>1, <1>2, <1>3
<1>5. \/ d = Decided("escalate", {}, InState(artifact, "unknown"), "unknown_proof")
      \/ d = Decided("stop", {}, {}, "proofs_closed")
      \/ d = Decided("escalate", {}, targets, "candidate_input_exceeded")
      \/ d = Decided("escalate", {}, targets, "search_budget_exceeded")
      \/ d = Decided("escalate", {}, targets, "no_candidate_cover")
      \/ covers # {} /\ \E act \in {"retry", "spawn"} :
           d = Decided(act, b, targets, "lowest_latency_proof_cover")
  BY DEF Route
<1> HIDE DEF d, b, covers, targets
<1>6. d \in Decisions
  BY <1>1, <1>4, <1>5, DecidedIs, ReasonsAre DEF Actions, SearchFailed
<1> QED
  BY <1>6 DEF d

\* Weighing a wave against the static route gives a decision.
LEMMA ProfitableIsTyped ==
  ASSUME GTypeOK, NEW d \in Decisions
  PROVE  RouteIfProfitable(d, setting) \in Decisions
<1> DEFINE e == RouteIfProfitable(d, setting)
<1>1. setting.static \subseteq Ids
  BY SproutAssumption DEF GTypeOK
<1>2. d.targets \subseteq Obligations
  BY DEF Decisions
<1>3. \/ e = d
      \/ e = Decided("escalate", {}, d.targets, "static_route_incomplete")
      \/ \E reason \in {"pilot_schedule_uncertain", "pilot_not_profitable"} :
           e = Decided("use_static", setting.static, d.targets, reason)
  BY DEF RouteIfProfitable, UseStatic
<1> HIDE DEF e
<1>4. e \in Decisions
  BY <1>1, <1>2, <1>3, DecidedIs, ReasonsAre DEF Actions
<1> QED
  BY <1>4 DEF e

\* So does holding it back.
LEMMA ConditionalIsTyped ==
  ASSUME GTypeOK, NEW d \in Decisions, NEW independent
  PROVE  PlanConditionally(artifact, d, setting, independent) \in Decisions
<1> DEFINE all  == Reservations(artifact, d, setting, independent)
           held == {i \in DOMAIN all : all[i][2]}
           e    == PlanConditionally(artifact, d, setting, independent)
<1>1. DOMAIN all = 1..8
  BY DEF Reservations
<1>2. /\ all[1][1] = "planning_uncertain" /\ all[2][1] = "target_count_below_four"
      /\ all[3][1] = "targets_not_independent" /\ all[4][1] = d.reason
      /\ all[5][1] = "pilot_schedule_uncertain" /\ all[6][1] = "proof_coverage_reduced"
      /\ all[7][1] = "ai_session_count_increased" /\ all[8][1] = "pilot_not_profitable"
  BY DEF Reservations
<1>3. setting.static \subseteq Ids /\ Targets(artifact) \subseteq Obligations /\ d.reason \in Reasons
  BY SproutAssumption DEF GTypeOK, Targets, InState, Decisions
<1> HIDE DEF all
<1>4. CASE held = {}
  BY <1>4 DEF PlanConditionally, all
<1>5. CASE held # {}
  <2> DEFINE k == Min(held)
  <2>1. held \subseteq 1..8 /\ held \subseteq Nat
    BY <1>1
  <2>2. k \in held
    <3> HIDE DEF held
    <3>1. \E x \in held : \A y \in held : x <= y
      BY <1>5, <2>1, LeastExists
    <3> QED BY <3>1 DEF Min
  <2>3. k \in {1, 2, 3, 4, 5, 6, 7, 8}
    BY <2>1, <2>2
  <2>4. e = Decided("use_static", setting.static, Targets(artifact), all[k][1])
    BY <1>5 DEF PlanConditionally, all
  <2> HIDE DEF k, held, e
  <2>5. all[k][1] \in Reasons
    BY <2>3, <1>2, <1>3, ReasonsAre
  <2>6. e \in Decisions
    BY <2>4, <2>5, <1>3, DecidedIs DEF Actions
  <2> QED BY <2>6 DEF e
<1> QED
  BY <1>4, <1>5

\* Every step keeps the types; what a plan has grown by is finite, since an offer is.
GTypes == GTypeOK /\ BasePlan \subseteq plan.nodes /\ IsFiniteSet(plan.nodes \ BasePlan)

\* The types hold at the start.
LEMMA GTypesInit == GInit => GTypes
<1> SUFFICES ASSUME GInit PROVE GTypes
  OBVIOUS
<1>1. artifact \in Artifacts
  BY DEF GInit, Artifacts, Blank, States
<1>2. decision \in Decisions
  BY DecidedIs, ReasonsAre DEF GInit, Undecided, Actions
<1>3. /\ plan.nodes \ BasePlan = {} /\ BasePlan \subseteq plan.nodes /\ plan.version = 1
      /\ plan \in [nodes : SUBSET Ids, version : Nat]
  BY SproutAssumption DEF GInit
<1>4. plan.version \in 1..Cardinality(plan.nodes \ BasePlan) + 1
  BY <1>3, FS_EmptySet
<1>5. IsFiniteSet(plan.nodes \ BasePlan)
  BY <1>3, FS_EmptySet
<1>6. trusted = {} /\ offered \in Offers /\ setting \in Settings /\ rounds \in 0..MaxRounds
  BY SproutAssumption DEF GInit
<1> QED
  BY <1>1, <1>2, <1>3, <1>4, <1>5, <1>6 DEF GTypes, GTypeOK, Decisions, Actions

\* Every step of the frontier keeps the types.
LEMMA GTypesStep ==
  ASSUME GTypes, [GNext]_gvars
  PROVE  GTypes'
<1>0. /\ decision \in Decisions
      /\ artifact \in Artifacts /\ trusted \subseteq Artifacts
      /\ plan.version \in 1..Cardinality(plan.nodes \ BasePlan) + 1
      /\ rounds \in 0..MaxRounds /\ MaxRounds \in Nat
  BY SproutAssumption DEF GTypes, GTypeOK, Decisions, Actions
<1>1. CASE Plan
  <2> DEFINE d == Route(artifact, offered, setting.budget, setting.wip)
  <2>1. d \in Decisions
    BY RouteIsTyped DEF GTypes
  <2>2. \/ decision' = d \/ decision' = RouteIfProfitable(d, setting)
        \/ \E independent \in {"yes", "no", "unknown"} :
             decision' = PlanConditionally(artifact, d, setting, independent)
    BY <1>1 DEF Plan
  <2> HIDE DEF d
  <2>3. decision' \in Decisions
    <3>1. GTypeOK
      BY DEF GTypes
    <3>2. RouteIfProfitable(d, setting) \in Decisions
      BY <2>1, <3>1, ProfitableIsTyped
    <3>3. \A independent \in {"yes", "no", "unknown"} :
            PlanConditionally(artifact, d, setting, independent) \in Decisions
      BY <2>1, <3>1, ConditionalIsTyped
    <3> QED BY <2>1, <2>2, <3>2, <3>3
  <2>4. rounds' \in 0..MaxRounds
    BY <1>0, <1>1 DEF Plan
  <2>5. UNCHANGED <<artifact, offered, setting, trusted, plan>>
    BY <1>1 DEF Plan
  <2> QED BY <2>3, <2>4, <2>5 DEF GTypes, GTypeOK, Decisions, Actions
<1>2. CASE Journal
  <2>1. artifact' \in Artifacts
    BY <1>0, <1>2 DEF Journal, Artifacts
  <2>2. UNCHANGED <<offered, setting, decision, trusted, plan, rounds>>
    BY <1>2 DEF Journal
  <2> QED BY <2>1, <2>2 DEF GTypes, GTypeOK
<1>3. CASE Trust
  BY <1>0, <1>3 DEF Trust, GTypes, GTypeOK
<1>4. ASSUME NEW o \in Obligations, Record(o) PROVE GTypes'
  <2>1. artifact' \in Artifacts
    BY <1>0, <1>4 DEF Record, Artifacts, States
  <2>2. decision' \in Decisions
    <3>1. decision' = [decision EXCEPT !.targets = @ \ {o}]
      BY <1>4 DEF Record
    <3>2. decision \in Decisions
      BY <1>0
    <3>3. decision.targets \ {o} \in SUBSET Obligations
      BY <3>2 DEF Decisions
    <3> QED BY <3>1, <3>2, <3>3 DEF Decisions
  <2>3. UNCHANGED <<offered, setting, trusted, plan, rounds>>
    BY <1>4 DEF Record
  <2> QED BY <2>1, <2>2, <2>3 DEF GTypes, GTypeOK, Decisions, Actions
<1>5. ASSUME NEW nodes \in SUBSET offered, Expand(nodes) PROVE GTypes'
  <2>1. offered \subseteq Ids /\ IsFiniteSet(offered) /\ BasePlan \subseteq Ids
    BY SproutAssumption DEF GTypes, GTypeOK
  <2>2. IsFiniteSet(nodes)
    BY <2>1, FS_Subset
  <2>3. /\ plan' = [nodes |-> plan.nodes \cup nodes, version |-> plan.version + 1]
        /\ nodes # {} /\ nodes \cap plan.nodes = {}
        /\ UNCHANGED <<artifact, offered, setting, decision, trusted, rounds>>
    BY <1>5 DEF Expand
  <2>4. plan.nodes \subseteq Ids /\ plan.version \in Nat
    BY DEF GTypes, GTypeOK
  <2>5. plan' \in [nodes : SUBSET Ids, version : Nat]
    BY <2>1, <2>3, <2>4
  <2> DEFINE old == plan.nodes \ BasePlan
  <2>6. plan'.nodes \ BasePlan = old \cup nodes /\ BasePlan \subseteq plan'.nodes /\ old \cap nodes = {}
    BY <2>3 DEF GTypes
  <2>7. IsFiniteSet(old)
    BY DEF GTypes
  <2> HIDE DEF old
  <2>8. /\ IsFiniteSet(old \cup nodes)
        /\ Cardinality(old \cup nodes)
             = Cardinality(old) + Cardinality(nodes) - Cardinality(old \cap nodes)
    BY <2>2, <2>7, FS_Union
  <2>9. Cardinality(nodes) \in Nat \ {0} /\ Cardinality(old) \in Nat /\ Cardinality(old \cap nodes) = 0
    BY <2>2, <2>3, <2>6, <2>7, FS_CardinalityType, FS_EmptySet
  <2>10. Cardinality(old \cup nodes) \in Nat /\ Cardinality(old \cup nodes) >= Cardinality(old) + 1
    BY <2>8, <2>9
  <2>11. plan.version \in 1..Cardinality(old) + 1 /\ plan'.version = plan.version + 1
    BY <1>0, <2>3 DEF old
  <2>12. plan'.version \in 1..Cardinality(plan'.nodes \ BasePlan) + 1
    BY <2>6, <2>9, <2>10, <2>11
  <2> QED BY <2>3, <2>5, <2>6, <2>8, <2>12 DEF GTypes, GTypeOK
<1>6. CASE UNCHANGED gvars
  BY <1>6 DEF gvars, GTypes, GTypeOK
<1> QED
  BY <1>1, <1>2, <1>3, <1>4, <1>5, <1>6 DEF GNext
=============================================================================
