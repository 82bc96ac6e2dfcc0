---------------------------- MODULE ProductProofs ----------------------------
(***************************************************************************)
(* `graphori run' and `graphori resume', for any requests, endings and     *)
(* number of deaths of the process: a run that has started is never left   *)
(* where nobody can go on with it, and what is shown of it agrees with     *)
(* what was run.                                                           *)
(*                                                                         *)
(* The bound on the waves holds because every wave starts a node that had  *)
(* not started (Paced) and the effective plan has at most one rework and   *)
(* its verifier beyond the published nodes (Planned).  A run with a        *)
(* started node can be resumed because its files were stored one after the *)
(* other before the first wave (Stored).                                   *)
(***************************************************************************)
EXTENDS ProductRun, FiniteSetTheorems, SequenceTheorems, WellFoundedInduction, TLAPS

NodeStates == {"absent", "pending", "running", "awaiting_verification", "passed", "failed",
               "blocked", "outcome_unknown"}
FileStates == {"none", "torn", "first", "later"}
Rework     == {"i1:rework:1", "v1:rework:1"}
Started    == {n \in NodeIds : state[n] \notin {"absent", "pending"}}
Looping    == {"driving", "waiting", "settling", "settling last"}

Shaped ==
  /\ state \in [NodeIds -> NodeStates]
  /\ files \in [{"spec", "plan", "commands"} -> FileStates]
  /\ waves \in Nat /\ kills \in Nat /\ reruns \in Nat
  /\ front \subseteq Present

\* what the journal and the shell say of one another, and which nodes there are
Planned ==
  /\ shell \in {"new", "publishing", "gone"} \/ log = "published"
  /\ shell \in {"new", "publishing"} => log # "published"
  /\ log # "published" => Present = {} /\ \A f \in DOMAIN files : files[f] = "none"
  /\ Present \subseteq NodesOf(order) \cup (IF Implements(order) THEN Rework ELSE {})
  /\ ~Reworked => state["v1:rework:1"] = "absent"

\* every wave starts a node
Paced == bounded => waves <= Cardinality(Started)

\* unless a second `graphori run' rewrites them, the files are stored in order
Stored ==
  reruns = 0 =>
    /\ files["plan"] # "none" => files["spec"] = "first"
    /\ files["commands"] # "none" => files["plan"] = "first"
    /\ shell = "storing spec" => files["plan"] = "none" /\ Started = {}
    /\ shell = "storing plan" =>
         files["spec"] = "first" /\ files["commands"] = "none" /\ Started = {}
    /\ shell = "storing commands" => files["plan"] = "first" /\ Started = {}
    /\ shell \in Looping \/ Started # {} => files["commands"] = "first"

HInv == Shaped /\ Planned /\ Paced /\ Stored

-----------------------------------------------------------------------------
(* Which nodes there are, and how many.                                    *)

Known(o) == NodesOf(o) \cup (IF Implements(o) THEN Rework ELSE {})

\* the nodes a verifier judges are planned or its rework
LEMMA Judged ==
  ASSUME Planned, NEW n \in Present \cap Verifying
  PROVE  Implements(order) /\ Awaits(order, n) \subseteq Known(order) /\ n \in Known(order)
<1>1. n \in Known(order)
  BY DEF Planned, Known
<1>2. CASE n = "v1"
  <2>1. Implements(order)
    BY <1>1, <1>2 DEF Known, NodesOf, Rework
  <2>2. Awaits(order, n) = {"i1", "cr1"} \cap NodesOf(order)
    BY <1>2 DEF Awaits
  <2> QED BY <1>1, <2>1, <2>2 DEF Known
<1>3. CASE n = "v1:rework:1"
  <2>1. Implements(order)
    BY <1>1, <1>3 DEF Known, NodesOf
  <2>2. Awaits(order, n) = {"i1:rework:1"}
    BY <1>3 DEF Awaits
  <2> QED BY <1>1, <2>1, <2>2 DEF Known, Rework
<1> QED BY <1>2, <1>3 DEF Verifying

\* a set with one more member
LEMMA OneMore ==
  ASSUME NEW S, IsFiniteSet(S), NEW x
  PROVE  /\ IsFiniteSet(S \cup {x})
         /\ Cardinality(S) \in Nat /\ Cardinality(S \cup {x}) \in Nat
         /\ Cardinality(S \cup {x}) <= Cardinality(S) + 1
         /\ x \notin S => Cardinality(S \cup {x}) = Cardinality(S) + 1
<1>1. IsFiniteSet(S \cup {x})
  BY FS_AddElement
<1>2. Cardinality(S) \in Nat /\ Cardinality(S \cup {x}) \in Nat
  BY <1>1, FS_CardinalityType
<1>3. CASE x \in S
  <2>1. S \cup {x} = S
    BY <1>3
  <2>2. Cardinality(S \cup {x}) = Cardinality(S)
    BY <2>1
  <2> QED BY <1>1, <1>2, <1>3, <2>2
<1>4. CASE x \notin S
  <2>1. Cardinality(S \cup {x}) = Cardinality(S) + 1
    BY <1>4, FS_AddElement
  <2> QED BY <1>1, <1>2, <2>1
<1> QED BY <1>3, <1>4

\* a set of two different members has two, and a pair adds at most two
LEMMA Pairs ==
  ASSUME NEW S, IsFiniteSet(S), NEW a, NEW b
  PROVE  /\ a \in S /\ b \in S /\ a # b => Cardinality(S) >= 2
         /\ IsFiniteSet(S \cup {a, b}) /\ Cardinality(S \cup {a, b}) <= Cardinality(S) + 2
<1>1. /\ IsFiniteSet(S \cup {a}) /\ Cardinality(S \cup {a}) \in Nat /\ Cardinality(S) \in Nat
      /\ Cardinality(S \cup {a}) <= Cardinality(S) + 1
  BY OneMore
<1>2. /\ IsFiniteSet((S \cup {a}) \cup {b}) /\ Cardinality((S \cup {a}) \cup {b}) \in Nat
      /\ Cardinality((S \cup {a}) \cup {b}) <= Cardinality(S \cup {a}) + 1
  BY <1>1, OneMore
<1>3. (S \cup {a}) \cup {b} = S \cup {a, b}
  OBVIOUS
<1>4. ASSUME a \in S, b \in S, a # b PROVE Cardinality(S) >= 2
  <2>1. IsFiniteSet({a}) /\ Cardinality({a}) = 1
    BY FS_Singleton
  <2>2. IsFiniteSet({a} \cup {b}) /\ Cardinality({a} \cup {b}) = 2
    <3>1. b \notin {a}
      BY <1>4
    <3>2. Cardinality({a} \cup {b}) = Cardinality({a}) + 1
      BY <2>1, <3>1, OneMore
    <3>3. IsFiniteSet({a} \cup {b})
      BY <2>1, OneMore
    <3> QED BY <2>1, <3>2, <3>3
  <2>3. {a} \cup {b} \subseteq S
    BY <1>4
  <2> QED BY <1>1, <2>2, <2>3, FS_Subset
<1>5. Cardinality(S \cup {a, b}) <= Cardinality(S) + 2
  BY <1>1, <1>2, <1>3
<1> QED BY <1>2, <1>3, <1>4, <1>5

\* the bound on the waves exceeds the number of nodes there can be
LEMMA Enough ==
  ASSUME NEW o
  PROVE  /\ IsFiniteSet(Known(o)) /\ Cardinality(Known(o)) \in Nat
         /\ MaxWaves(o) \in Nat /\ Cardinality(Known(o)) < MaxWaves(o)
<1>0. IsFiniteSet(NodesOf(o)) /\ Cardinality(NodesOf(o)) \in Nat
  <2>1. IsFiniteSet({}) /\ Cardinality({}) = 0
    BY FS_EmptySet
  <2>2. IsFiniteSet({} \cup {"r1", "r2"})
    BY <2>1, Pairs
  <2>3. IsFiniteSet(({} \cup {"r1", "r2"}) \cup {"d1", "i1"})
    BY <2>2, Pairs
  <2>4. IsFiniteSet((({} \cup {"r1", "r2"}) \cup {"d1", "i1"}) \cup {"cr1", "v1"})
    BY <2>3, Pairs
  <2>5. NodesOf(o) \subseteq ((({} \cup {"r1", "r2"}) \cup {"d1", "i1"}) \cup {"cr1", "v1"})
    BY DEF NodesOf
  <2> QED BY <2>4, <2>5, FS_Subset, FS_CardinalityType
<1>1. Cardinality(NodesOf(o)) >= 2
  <2>1. CASE Implements(o)
    <3>1. "i1" \in NodesOf(o) /\ "v1" \in NodesOf(o)
      BY <2>1 DEF NodesOf
    <3> QED BY <1>0, <3>1, Pairs
  <2>2. CASE ~Implements(o)
    <3>1. o.research
      BY <2>2 DEF Implements, Profile
    <3>2. "r1" \in NodesOf(o) /\ "r2" \in NodesOf(o)
      BY <3>1 DEF NodesOf
    <3> QED BY <1>0, <3>2, Pairs
  <2> QED BY <2>1, <2>2
<1>2. MaxWaves(o) = 3 * Cardinality(NodesOf(o))
  BY <1>0, <1>1 DEF MaxWaves
<1>3. /\ IsFiniteSet(Known(o)) /\ Cardinality(Known(o)) \in Nat
      /\ Cardinality(Known(o)) <= Cardinality(NodesOf(o)) + 2
  <2>1. CASE Implements(o)
    <3>1. Known(o) = NodesOf(o) \cup {"i1:rework:1", "v1:rework:1"}
      BY <2>1 DEF Known, Rework
    <3>2. /\ IsFiniteSet(NodesOf(o) \cup {"i1:rework:1", "v1:rework:1"})
          /\ Cardinality(NodesOf(o) \cup {"i1:rework:1", "v1:rework:1"})
               <= Cardinality(NodesOf(o)) + 2
      BY <1>0, Pairs
    <3> QED BY <3>1, <3>2, FS_CardinalityType
  <2>2. CASE ~Implements(o)
    <3>1. Known(o) = NodesOf(o)
      BY <2>2 DEF Known
    <3> QED BY <1>0, <3>1
  <2> QED BY <2>1, <2>2
<1> QED BY <1>0, <1>1, <1>2, <1>3

\* started nodes are known ones, and there are only so many
LEMMA Counted ==
  ASSUME Planned
  PROVE  /\ IsFiniteSet(Started) /\ Cardinality(Started) \in Nat
         /\ Cardinality(Started) <= Cardinality(Known(order))
<1>1. Started \subseteq Known(order)
  BY DEF Planned, Known, Started, Present
<1> QED BY <1>1, Enough, FS_Subset, FS_CardinalityType

\* and they become no fewer
LEMMA CountGrows ==
  ASSUME Planned, Started \subseteq Started', Started' \subseteq Known(order)
  PROVE  /\ Cardinality(Started) \in Nat /\ Cardinality(Started') \in Nat
         /\ Cardinality(Started) <= Cardinality(Started')
         /\ Started # Started' => Cardinality(Started) < Cardinality(Started')
<1>1. IsFiniteSet(Started') /\ IsFiniteSet(Started)
  BY Counted, Enough, FS_Subset
<1>2. Cardinality(Started) \in Nat /\ Cardinality(Started') \in Nat
  BY <1>1, FS_CardinalityType
<1>3. /\ Cardinality(Started) <= Cardinality(Started')
      /\ Cardinality(Started) = Cardinality(Started') => Started = Started'
  BY <1>1, FS_Subset
<1> QED BY <1>2, <1>3

-----------------------------------------------------------------------------
(* The steps                                                               *)

\* nodes once started stay so, and a node once there does not go away
Onward ==
  /\ state' \in [NodeIds -> NodeStates]
  /\ Started \subseteq Started' /\ Present \subseteq Present'
  /\ Present' \subseteq Known(order)
  /\ ~Reworked' => state'["v1:rework:1"] = "absent"

\* a step of the loop that ends nodes, or leaves the loop
LEMMA LoopStep ==
  ASSUME HInv, shell \in Looping, shell' \in Looping \cup {"gone"},
         UNCHANGED <<order, waves, bounded, log, files, reruns>>, kills' \in Nat,
         front' \subseteq Present', Onward
  PROVE  HInv'
<1>1. Shaped'
  BY DEF HInv, Shaped, Onward
<1>2. Planned'
  <2>1. log = "published"
    BY DEF HInv, Planned, Looping
  <2> QED BY <2>1 DEF HInv, Planned, Onward, Known, Looping
<1>3. Paced'
  <2>1. Started' \subseteq Known(order)
    BY DEF Onward, Started, Present
  <2>2. /\ Cardinality(Started) \in Nat /\ Cardinality(Started') \in Nat
        /\ Cardinality(Started) <= Cardinality(Started')
    BY <2>1, CountGrows DEF HInv, Onward
  <2> QED BY <2>2 DEF HInv, Paced, Shaped
<1>4. Stored'
  BY DEF HInv, Stored, Looping
<1> QED BY <1>1, <1>2, <1>3, <1>4 DEF HInv

\* one node gets a state a node has once it has been dispatched
LEMMA OneMoves ==
  ASSUME HInv, NEW n \in front, NEW s \in NodeStates \ {"absent", "pending"},
         state' = [state EXCEPT ![n] = s], UNCHANGED order
  PROVE  Onward
<1>1. n \in Present /\ Present \subseteq NodeIds /\ Present \subseteq Known(order)
  BY DEF HInv, Shaped, Planned, Known, Present
<1>2. state \in [NodeIds -> NodeStates]
  BY DEF HInv, Shaped
<1>3. state' \in [NodeIds -> NodeStates]
  BY <1>1, <1>2
<1>4. \A m \in NodeIds : state'[m] = IF m = n THEN s ELSE state[m]
  BY <1>1, <1>2
<1>5. Started \subseteq Started' /\ Present \subseteq Present' /\ Present' \subseteq Present \cup {n}
  BY <1>4 DEF Started, Present
<1>6. ~Reworked' => state'["v1:rework:1"] = "absent"
  <2>1. Reworked => Reworked'
    BY <1>4 DEF Reworked, NodeIds
  <2>2. n = "v1:rework:1" => Reworked
    BY <1>1 DEF HInv, Planned, Present
  <2>3. "v1:rework:1" \in NodeIds
    BY DEF NodeIds, Verifying
  <2> QED BY <1>4, <2>1, <2>2, <2>3 DEF HInv, Planned
<1> QED BY <1>1, <1>3, <1>5, <1>6 DEF Onward

\* nothing moves
LEMMA NoneMoves ==
  ASSUME HInv, UNCHANGED <<order, state>>
  PROVE  Onward
BY DEF HInv, Shaped, Planned, Onward, Known, Started, Present, Reworked

\* the end of an attempt, in any of its forms
LEMMA EndStep ==
  ASSUME HInv, shell = "waiting", NEW n \in front, WaveMoves, UNCHANGED order,
         \/ UNCHANGED <<state, front>>
         \/ \E s \in NodeStates \ {"absent", "pending"} : NodeEnds(n, s)
  PROVE  HInv'
<1>1. Onward
  BY OneMoves, NoneMoves DEF NodeEnds
<1>2. front' \subseteq Present'
  BY <1>1 DEF NodeEnds, HInv, Shaped, Onward
<1> QED BY <1>1, <1>2, LoopStep DEF WaveMoves, Looping, HInv, Shaped

\* a verdict moves what it judges and may bring in the rework
LEMMA VerdictStep ==
  ASSUME HInv, shell = "waiting", NEW n \in front \cap Verifying, WaveMoves, UNCHANGED order,
         front' = front \ {n},
         NEW s \in {"passed", "failed"}, NEW R \in {{}, Rework}, R = Rework => ~Reworked,
         state' = [m \in NodeIds |-> IF m \in {n} \cup Awaits(order, n) THEN s
                                     ELSE IF m \in R THEN "pending" ELSE state[m]]
  PROVE  HInv'
<1>1. n \in Present /\ Present \subseteq NodeIds /\ Present \subseteq Known(order)
  BY DEF HInv, Shaped, Planned, Known, Present
<1>2. Implements(order) /\ Awaits(order, n) \subseteq Known(order)
  BY <1>1, Judged DEF HInv
<1>3. Rework \subseteq Known(order)
  BY <1>2 DEF Known
<1>4. state \in [NodeIds -> NodeStates]
  BY DEF HInv, Shaped
<1>5. state' \in [NodeIds -> NodeStates]
  BY <1>4 DEF NodeStates
<1>6. R = Rework => \A m \in R : state[m] = "absent"
  BY DEF HInv, Planned, Reworked, Rework
<1>7. Started \subseteq Started' /\ Present \subseteq Present'
  BY <1>4, <1>6 DEF Started, Present
<1>8. Present' \subseteq Known(order)
  BY <1>1, <1>2, <1>3 DEF Present
<1>9. ~Reworked' => state'["v1:rework:1"] = "absent"
  <2>1. "v1:rework:1" \in NodeIds /\ "i1:rework:1" \in NodeIds
    BY DEF NodeIds, Verifying
  <2>2. SUFFICES ASSUME ~Reworked' PROVE state'["v1:rework:1"] = "absent"
    OBVIOUS
  <2>3. R = {} /\ state["i1:rework:1"] = "absent"
    BY <2>1, <2>2 DEF Reworked, Rework
  <2>4. state["v1:rework:1"] = "absent"
    BY <2>3 DEF HInv, Planned, Reworked
  <2>5. n # "v1:rework:1"
    BY <1>1, <2>4 DEF Present
  <2>6. Awaits(order, n) \subseteq {"i1", "cr1"}
    BY <2>5 DEF Awaits, Verifying
  <2> QED BY <2>1, <2>3, <2>4, <2>5, <2>6
<1>10. Onward
  BY <1>5, <1>7, <1>8, <1>9 DEF Onward
<1>11. front' \subseteq Present'
  BY <1>7 DEF HInv, Shaped
<1> QED BY <1>10, <1>11, LoopStep DEF WaveMoves, Looping, HInv, Shaped

\* a step of an attempt
LEMMA AttemptStep ==
  ASSUME HInv, NEW n \in NodeIds,
         \/ \E ending \in Endings : AttemptEnds(n, ending)
         \/ VerifierUnarmed(n) \/ VerifierTimesOut(n)
         \/ VerifierPasses(n) \/ VerifierRevises(n) \/ RevisionRefused(n)
  PROVE  HInv'
<1>1. CASE \E ending \in Endings : AttemptEnds(n, ending)
  <2>1. PICK ending \in Endings : AttemptEnds(n, ending)
    BY <1>1
  <2>2. /\ shell = "waiting" /\ n \in front /\ WaveMoves /\ UNCHANGED order
        /\ \/ UNCHANGED <<state, front>>
           \/ \E s \in {"awaiting_verification", "passed", "blocked", ending} :
                /\ NodeEnds(n, s)
                /\ s = ending => ending \in {"failed", "outcome_unknown"}
    BY <2>1 DEF AttemptEnds, WaveMoves
  <2>3. \/ UNCHANGED <<state, front>>
        \/ \E s \in NodeStates \ {"absent", "pending"} : NodeEnds(n, s)
    BY <2>2 DEF NodeStates
  <2> QED BY <2>2, <2>3, EndStep
<1>2. CASE VerifierUnarmed(n)
  <2>1. "outcome_unknown" \in NodeStates \ {"absent", "pending"}
    BY DEF NodeStates
  <2> QED BY <1>2, <2>1, EndStep DEF VerifierUnarmed, WaveMoves
<1>3. CASE VerifierTimesOut(n)
  <2>1. "blocked" \in NodeStates \ {"absent", "pending"}
    BY DEF NodeStates
  <2> QED BY <1>3, <2>1, EndStep DEF VerifierTimesOut, WaveMoves
<1>4. CASE VerifierPasses(n)
  <2>1. state' = [m \in NodeIds |-> IF m \in {n} \cup Awaits(order, n) THEN "passed"
                                   ELSE IF m \in {} THEN "pending" ELSE state[m]]
    BY <1>4 DEF VerifierPasses
  <2> QED BY <1>4, <2>1, VerdictStep DEF VerifierPasses, WaveMoves, Rework
<1>5. CASE VerifierRevises(n)
  <2> DEFINE R == IF Reworked THEN {} ELSE Rework
  <2>1. state' = [m \in NodeIds |-> IF m \in {n} \cup Awaits(order, n) THEN "failed"
                                   ELSE IF m \in R THEN "pending" ELSE state[m]]
    BY <1>5 DEF VerifierRevises, Rework
  <2>2. R \in {{}, Rework} /\ (R = Rework => ~Reworked)
    BY DEF Rework
  <2> HIDE DEF R
  <2> QED BY <1>5, <2>1, <2>2, VerdictStep DEF VerifierRevises, WaveMoves
<1>6. CASE RevisionRefused(n)
  <2>1. "awaiting_verification" \in NodeStates \ {"absent", "pending"}
    BY DEF NodeStates
  <2>2. Onward
    BY <1>6, <2>1, OneMoves DEF RevisionRefused
  <2> QED BY <1>6, <2>2, LoopStep DEF RevisionRefused, Looping, HInv, Shaped
<1> QED BY <1>1, <1>2, <1>3, <1>4, <1>5, <1>6

\* a wave starts nodes that had not started
LEMMA WaveStep == HInv /\ AdvanceWave => HInv'
<1> SUFFICES ASSUME HInv, AdvanceWave PROVE HInv'
  OBVIOUS
<1>1. PICK wave \in SUBSET {n \in Present : CanStart(n)} :
        /\ wave # {} /\ front' = wave
        /\ state' = [n \in NodeIds |-> IF n \in wave THEN "running" ELSE state[n]]
  BY DEF AdvanceWave
<1>2. /\ shell = "driving" /\ shell' = "waiting" /\ waves' = (IF bounded THEN waves + 1 ELSE waves)
      /\ UNCHANGED <<order, bounded, log, files, kills, reruns>>
  BY DEF AdvanceWave, Driving
<1>3. wave \subseteq Present /\ Present \subseteq NodeIds /\ \A n \in wave : state[n] = "pending"
  BY DEF CanStart, Present
<1>4. state \in [NodeIds -> NodeStates] /\ log = "published"
  BY <1>2 DEF HInv, Shaped, Planned
<1>5. state' \in [NodeIds -> NodeStates]
  BY <1>1, <1>4 DEF NodeStates
<1>6. Present' = Present /\ Started' = Started \cup wave
  BY <1>1, <1>3, <1>4 DEF Present, Started
<1>7. Shaped'
  BY <1>1, <1>2, <1>3, <1>5, <1>6 DEF HInv, Shaped
<1>8. Planned'
  <2>1. ~Reworked' => state'["v1:rework:1"] = "absent"
    <3>1. "v1:rework:1" \in NodeIds /\ "i1:rework:1" \in NodeIds
      BY DEF NodeIds, Verifying
    <3> QED BY <1>1, <1>3, <3>1 DEF HInv, Planned, Reworked
  <2> QED BY <1>2, <1>4, <1>6, <2>1 DEF HInv, Planned
<1>9. Paced'
  <2>1. Started # Started' /\ Started' \subseteq Known(order)
    BY <1>1, <1>3, <1>6 DEF HInv, Planned, Known, Started, Present
  <2>2. /\ Cardinality(Started) \in Nat /\ Cardinality(Started') \in Nat
        /\ Cardinality(Started) < Cardinality(Started')
    BY <1>6, <2>1, CountGrows DEF HInv
  <2> QED BY <1>2, <2>2 DEF HInv, Paced, Shaped
<1>10. Stored'
  BY <1>2 DEF HInv, Stored, Looping
<1> QED BY <1>7, <1>8, <1>9, <1>10 DEF HInv

\* a number that is 0 is not more than 0
LEMMA ZeroIsNotMore == \A k : k = 0 => ~(k > 0)
OBVIOUS

\* the metadata files, written in place before the first wave
LEMMA StoreStep ==
  ASSUME HInv, StoreSpec \/ StorePlan \/ StoreCommands
  PROVE  HInv'
<1>1. PICK name \in {"spec", "plan", "commands"}, next \in {"storing plan", "storing commands", "driving"} :
        /\ shell = Storing(name) /\ shell' = next
        /\ files' = [files EXCEPT ![name] = IF name = "spec" /\ reruns > 0 THEN "later" ELSE "first"]
        /\ next = (IF name = "spec" THEN "storing plan"
                   ELSE IF name = "plan" THEN "storing commands" ELSE "driving")
        /\ UNCHANGED <<order, waves, bounded, log, state, front, kills, reruns>>
  BY DEF StoreSpec, StorePlan, StoreCommands, StoreFile, journaled
<1>2. /\ files \in [{"spec", "plan", "commands"} -> FileStates]
      /\ log = "published" /\ state \in [NodeIds -> NodeStates] /\ reruns \in Nat
  BY <1>1 DEF HInv, Shaped, Planned, Storing
<1>3. Present' = Present /\ Started' = Started /\ Reworked' = Reworked
  BY <1>1 DEF Present, Started, Reworked
<1>4. Shaped'
  BY <1>1, <1>2, <1>3 DEF HInv, Shaped, FileStates
<1>5. Planned'
  BY <1>1, <1>2, <1>3 DEF HInv, Planned
<1>6. Paced'
  BY <1>1, <1>3 DEF HInv, Paced
<1>7. Stored'
  <2>1. CASE name = "spec"
    <3> SUFFICES ASSUME reruns = 0 PROVE Stored'
      BY <1>1 DEF Stored
    <3>1. /\ files' = [files EXCEPT !["spec"] = "first"] /\ shell' = "storing plan"
          /\ shell = "storing spec"
      <4>0. ~(reruns > 0)
        BY ZeroIsNotMore
      <4>1. (IF name = "spec" /\ reruns > 0 THEN "later" ELSE "first") = "first"
        BY <4>0, Zenon
      <4> QED BY <1>1, <2>1, <4>1 DEF Storing
    <3>2. files["plan"] = "none" /\ files["commands"] = "none" /\ Started = {}
      BY <3>1 DEF HInv, Stored
    <3> QED BY <1>1, <1>2, <1>3, <3>1, <3>2 DEF Stored, Looping
  <2>2. CASE name = "plan"
    BY <1>1, <1>2, <1>3, <2>2 DEF HInv, Stored, Storing, Looping
  <2>3. CASE name = "commands"
    BY <1>1, <1>2, <1>3, <2>3 DEF HInv, Stored, Storing, Looping
  <2> QED BY <2>1, <2>2, <2>3
<1> QED BY <1>4, <1>5, <1>6, <1>7 DEF HInv

\* the process dies, and may leave the file it was writing torn
LEMMA DeathStep == HInv /\ ShellDies => HInv'
<1> SUFFICES ASSUME HInv, ShellDies PROVE HInv'
  OBVIOUS
<1>1. /\ shell' = "gone" /\ front' = {} /\ kills' = kills + 1 /\ shell # "gone"
      /\ UNCHANGED <<order, waves, bounded, log, state, reruns>>
  BY DEF ShellDies, journaled
<1>2. files \in [{"spec", "plan", "commands"} -> FileStates] /\ kills \in Nat
  BY DEF HInv, Shaped
<1>3. Present' = Present /\ Started' = Started /\ Reworked' = Reworked
  BY <1>1 DEF Present, Started, Reworked
<1>4. CASE UNCHANGED files
  <2>2. Shaped' /\ Planned' /\ Paced'
    BY <1>1, <1>2, <1>3, <1>4 DEF HInv, Shaped, Planned, Paced
  <2>3. Stored'
    BY <1>1, <1>3, <1>4 DEF HInv, Stored, Looping
  <2> QED BY <2>2, <2>3 DEF HInv
<1>5. ASSUME NEW name \in DOMAIN files, shell = Storing(name),
             files' = [files EXCEPT ![name] = "torn"]
      PROVE  HInv'
  <2>1. name \in {"spec", "plan", "commands"}
    BY <1>2, <1>5
  <2>2. log = "published"
    BY <1>5, <2>1 DEF HInv, Planned, Storing
  <2>3. Shaped' /\ Planned' /\ Paced'
    BY <1>1, <1>2, <1>3, <1>5, <2>1, <2>2 DEF HInv, Shaped, Planned, Paced, FileStates
  <2>4. Stored'
    <3>1. CASE name = "spec"
      BY <1>1, <1>2, <1>3, <1>5, <3>1 DEF HInv, Stored, Storing, Looping
    <3>2. CASE name = "plan"
      BY <1>1, <1>2, <1>3, <1>5, <3>2 DEF HInv, Stored, Storing, Looping
    <3>3. CASE name = "commands"
      BY <1>1, <1>2, <1>3, <1>5, <3>3 DEF HInv, Stored, Storing, Looping
    <3> QED BY <2>1, <3>1, <3>2, <3>3
  <2> QED BY <2>3, <2>4 DEF HInv
<1> QED BY <1>4, <1>5 DEF ShellDies

\* attempts in flight when a process starts have an end nobody knows
LEMMA Reconciling ==
  ASSUME HInv, log = "published", state' = Reconciled, UNCHANGED order
  PROVE  /\ Onward /\ Started' = Started /\ Present' = Present
<1>1. state \in [NodeIds -> NodeStates]
  BY DEF HInv, Shaped
<1>2. state' = [n \in NodeIds |-> IF n \in Underway THEN "outcome_unknown" ELSE state[n]]
  BY DEF Reconciled
<1>3. state' \in [NodeIds -> NodeStates]
  BY <1>1, <1>2 DEF NodeStates
<1>4. \A n \in Underway : n \in NodeIds /\ state[n] = "running"
  BY DEF Underway, Present
<1>5. Started' = Started /\ Present' = Present
  BY <1>2, <1>4 DEF Started, Present
<1>6. ~Reworked' => state'["v1:rework:1"] = "absent"
  <2>1. "v1:rework:1" \in NodeIds /\ "i1:rework:1" \in NodeIds
    BY DEF NodeIds, Verifying
  <2>2. Reworked => Reworked'
    BY <1>2, <2>1 DEF Reworked
  <2> QED BY <1>2, <1>4, <2>1, <2>2 DEF HInv, Planned
<1> QED BY <1>3, <1>5, <1>6 DEF HInv, Planned, Onward, Known

\* another process takes the run up
LEMMA TakeUpStep ==
  ASSUME HInv, ResumeRun \/ RunAgain
  PROVE  HInv'
<1>1. log = "published" /\ UNCHANGED <<order, log, files, front, kills>>
      /\ shell = "gone" /\ shell' \in {"driving", "storing spec"}
      /\ waves' = 0 /\ (state' = Reconciled \/ UNCHANGED state)
  BY DEF HInv, Shaped, Planned, ResumeRun, ResumeAccepted, RunAgain
<1>2. Started' = Started /\ Present' = Present /\ Onward
  <2>1. CASE state' = Reconciled
    BY <1>1, <2>1, Reconciling
  <2>2. CASE UNCHANGED state
    BY <1>1, <2>2, NoneMoves DEF Started, Present
  <2> QED BY <1>1, <2>1, <2>2
<1>3. reruns \in Nat /\ reruns' \in Nat
  <2>1. reruns \in Nat
    BY DEF HInv, Shaped
  <2>2. reruns' = reruns \/ reruns' = reruns + 1
    BY DEF ResumeRun, RunAgain
  <2> QED BY <2>1, <2>2
<1>4. Shaped'
  BY <1>1, <1>2, <1>3 DEF HInv, Shaped, Onward
<1>5. Planned'
  BY <1>1, <1>2 DEF HInv, Planned, Onward, Known
<1>6. Paced'
  <2>1. Cardinality(Started) \in Nat
    BY Counted DEF HInv
  <2>2. Cardinality(Started') = Cardinality(Started) /\ waves' = 0
    BY <1>1, <1>2
  <2> QED BY <2>1, <2>2 DEF Paced
<1>7. Stored'
  <2>1. CASE ResumeRun
    <3>1. /\ files["commands"] = "first" /\ shell' = "driving"
          /\ UNCHANGED <<files, reruns>>
      BY <2>1 DEF ResumeRun, ResumeAccepted
    <3> QED BY <1>2, <3>1 DEF HInv, Stored
  <2>2. CASE RunAgain
    <3>1. reruns' # 0
      <4>1. reruns \in Nat
        BY DEF HInv, Shaped
      <4>2. reruns' = reruns + 1
        BY <2>2 DEF RunAgain
      <4> QED BY <4>1, <4>2
    <3> QED BY <3>1 DEF Stored
  <2> QED BY <2>1, <2>2
<1> QED BY <1>4, <1>5, <1>6, <1>7 DEF HInv

\* The invariant holds before the command runs.
LEMMA InitH == HInit => HInv
<1> SUFFICES ASSUME HInit PROVE HInv
  OBVIOUS
<1>1. Present = {} /\ Started = {} /\ Cardinality({}) = 0
  BY FS_EmptySet DEF HInit, Present, Started
<1>2. Shaped
  BY <1>1 DEF HInit, Shaped, NodeStates, FileStates
<1>3. Planned
  <2>1. "v1:rework:1" \in NodeIds
    BY DEF NodeIds, Verifying
  <2> QED BY <1>1, <2>1 DEF HInit, Planned
<1>4. Paced
  BY <1>1 DEF HInit, Paced
<1>5. Stored
  BY <1>1 DEF HInit, Stored, Looping
<1> QED BY <1>2, <1>3, <1>4, <1>5 DEF HInv

\* the run is created and its graph published
LEMMA PublishStep ==
  ASSUME HInv, CreateRun \/ PublishGraph
  PROVE  HInv'
<1>1. CASE CreateRun
  <2>1. Present' = Present /\ Started' = Started /\ Reworked' = Reworked /\ log # "published"
    BY <1>1 DEF CreateRun, journaled, Present, Started, Reworked
  <2>2. Cardinality(Started) \in Nat /\ Started = {}
    BY <2>1, Counted DEF HInv, Planned, Present, Started
  <2> QED
    BY <1>1, <2>1, <2>2 DEF CreateRun, journaled, HInv, Shaped, Planned, Paced, Stored, Looping
<1>2. CASE PublishGraph
  <2>1. /\ shell = "publishing" /\ shell' = "storing spec" /\ log' = "published"
        /\ state' = [n \in NodeIds |-> IF n \in NodesOf(order) THEN "pending" ELSE "absent"]
        /\ UNCHANGED <<order, waves, bounded, files, front, kills, reruns>>
    BY <1>2 DEF PublishGraph
  <2>2. /\ Started' = {} /\ Present' \subseteq NodesOf(order)
        /\ state' \in [NodeIds -> NodeStates] /\ state'["v1:rework:1"] = "absent"
    <3>1. "v1:rework:1" \in NodeIds /\ "v1:rework:1" \notin NodesOf(order)
      BY DEF NodeIds, Verifying, NodesOf
    <3> QED BY <2>1, <3>1 DEF Started, Present, NodeStates
  <2>3. /\ log # "published" /\ Present = {} /\ Started = {}
        /\ \A f \in DOMAIN files : files[f] = "none"
    BY <2>1 DEF HInv, Planned, Started, Present
  <2>4. Shaped'
    BY <2>1, <2>2, <2>3 DEF HInv, Shaped
  <2>5. Planned'
    BY <2>1, <2>2 DEF HInv, Planned
  <2>6. Paced'
    BY <2>1, <2>2, <2>3 DEF HInv, Paced
  <2>7. Stored'
    BY <2>1, <2>2, <2>3 DEF HInv, Shaped, Stored, Looping
  <2> QED BY <2>4, <2>5, <2>6, <2>7 DEF HInv
<1> QED BY <1>1, <1>2

\* Every step of the commands and of the engine's loop keeps the invariant.
LEMMA HStep == HInv /\ [HNext]_hvars => HInv'
<1> SUFFICES ASSUME HInv, [HNext]_hvars PROVE HInv'
  OBVIOUS
<1>1. CASE UNCHANGED hvars
  <2>1. Present' = Present /\ Started' = Started /\ Reworked' = Reworked
    BY <1>1 DEF hvars, journaled, Present, Started, Reworked
  <2> QED
    BY <1>1, <2>1 DEF hvars, journaled, HInv, Shaped, Planned, Paced, Stored
<1>2. CASE IdleWave \/ Settle \/ LeaveLoop
  <2>1. /\ shell \in Looping /\ shell' \in Looping \cup {"gone"}
        /\ UNCHANGED <<order, waves, bounded, log, files, state, front, kills, reruns>>
    BY <1>2 DEF IdleWave, Settle, LeaveLoop, Driving, Looping, journaled
  <2>2. Onward
    BY <2>1, NoneMoves
  <2> QED BY <2>1, <2>2, LoopStep DEF HInv, Shaped, Onward
<1> QED
  BY <1>1, <1>2, PublishStep, StoreStep, WaveStep, DeathStep, TakeUpStep, AttemptStep DEF HNext

\* A run is never left where nobody can go on with it: the loop of `graphori
\* run' never meets its bound (product_cli.py, execute_product), and once a node
\* has been dispatched the journal and the files beside it suffice for
\* `graphori resume', wherever the process died (persist_sidecars, _recorded_run).
THEOREM RunsAreNeverStranded == HSpec => []NeverStranded
<1>1. HInv => NeverStranded
  <2> SUFFICES ASSUME HInv PROVE NeverStranded
    OBVIOUS
  <2>1. bounded => waves < MaxWaves(order)
    <3>1. Cardinality(Started) < MaxWaves(order) /\ Cardinality(Started) \in Nat
      BY Enough, Counted DEF HInv
    <3>2. MaxWaves(order) \in Nat
      BY Enough
    <3> QED BY <3>1, <3>2 DEF HInv, Paced, Shaped
  <2>2. ASSUME reruns = 0, ended = "none", NEW n \in Present, state[n] # "pending"
        PROVE  ResumeAccepted
    <3>1. n \in Started
      BY <2>2 DEF Started, Present
    <3>2. files["commands"] = "first" /\ files["plan"] = "first" /\ files["spec"] = "first"
      BY <2>2, <3>1 DEF HInv, Stored
    <3>3. log = "published"
      BY <2>2 DEF HInv, Planned
    <3>4. RecordedSpecs = {"first"} /\ RecordedPlans = {"first"}
      BY <3>2, <3>3 DEF RecordedSpecs, RecordedPlans
    <3>5. Cardinality({"first"}) = 1
      BY FS_Singleton
    <3>6. MetadataSource("torn" \in {files["spec"], files["plan"]}, RecordedSpecs, RecordedPlans)
            = "canonical_v3"
      BY <3>2, <3>4, <3>5 DEF MetadataSource
    <3> QED BY <2>2, <3>2, <3>3, <3>6 DEF ResumeAccepted
  <2> QED BY <2>1, <2>2 DEF NeverStranded
<1> QED BY <1>1, InitH, HStep, PTL DEF HSpec

-----------------------------------------------------------------------------
(* What is shown of the run agrees with what was run, whatever orders are  *)
(* given and however often the process dies.  All verdicts on a node agree *)
(* with its state (Agreed) and a passed node has one (Backed), so that it  *)
(* does not matter which of them is read last; a refused work is reworked  *)
(* (Revised); and the loop leaves a run only when it is over, waits for a  *)
(* person or holds a node that stands still (Left).                        *)

Ordinary == NodeIds \ (Verifying \cup Built)
Remarks == {[by |-> n, targets |-> {n}, passed |-> TRUE, claims |-> << >>] : n \in Ordinary}
Opinions == Remarks \cup {VerdictOf(n, p) : n \in Verifying, p \in BOOLEAN}
Fate(p) == IF p THEN "passed" ELSE "failed"

Opined == judged \in Seq(Opinions)
Agreed ==
  \A i \in DOMAIN judged : \A t \in judged[i].targets \cup {judged[i].by} :
    state[t] = Fate(judged[i].passed)
Backed ==
  \A n \in NodeIds : state[n] = "passed" =>
    \E i \in DOMAIN judged : n = judged[i].by \/ (n \notin Verifying /\ n \in judged[i].targets)
Revised ==
  /\ \A i \in DOMAIN judged : judged[i].passed \/ Reworked
  /\ gated => Reworked
  /\ Reworked => state["v1"] = "failed" /\ state["v1:rework:1"] # "absent"
Waits == \A n \in NodeIds : state[n] = "awaiting_verification" => n \in Built \cup {"v1"}
Whole == log = "published" => NodesOf(order) \subseteq Present

Fronted ==
  /\ \A n \in front : state[n] = "running"
  /\ shell # "waiting" => front = {}
  /\ kills = 0 /\ state["v1"] # "awaiting_verification" => Underway \subseteq front
  /\ \A n \in front \cap Verifying : \A t \in Awaits(order, n) :
       state[t] \in {"passed", "awaiting_verification"}
Concluded ==
  /\ ended \in {"none", "succeeded", "failed", "blocked"}
  /\ shell \in {"waiting", "settling", "settling last"} => ended = "none"
  /\ ended # "none" => ~gated /\ log = "published"
  /\ ended = "succeeded" => \A n \in Standing : state[n] = "passed"

StandsStill == \E n \in Present : state[n] \in {"outcome_unknown", "blocked", "failed"}
Left ==
  kills = 0 /\ state["v1"] # "awaiting_verification" =>
    /\ shell = "settling last" => StandsStill \/ \A n \in Present : state[n] = "passed"
    /\ shell = "gone" => ended # "none" \/ gated \/ StandsStill

TInv == /\ Opined /\ Agreed /\ Backed /\ Revised /\ Waits
        /\ Whole /\ Fronted /\ Concluded /\ Left

\* The nodes there are, by name
LEMMA Names ==
  /\ NodeIds = {"r1", "r2", "d1", "i1", "cr1", "i1:rework:1", "v1", "v1:rework:1"}
  /\ Ordinary = {"r1", "r2", "d1", "cr1"}
  /\ Verifying = {"v1", "v1:rework:1"} /\ Built = {"i1", "i1:rework:1"}
BY DEF NodeIds, Ordinary, Verifying, Built

\* What a verifier looks at is work, a rework's verifier at the rework.
LEMMA Looks ==
  \A o : /\ Awaits(o, "v1") \subseteq {"i1", "cr1"}
         /\ Awaits(o, "v1:rework:1") = {"i1:rework:1"}
         /\ Implements(o) => "i1" \in Awaits(o, "v1")
BY DEF Awaits, NodesOf

\* What the journal's verdicts look like
LEMMA OpinionForms ==
  ASSUME NEW v \in Opinions
  PROVE  /\ v.passed \in BOOLEAN /\ v.by \in NodeIds /\ v.targets \subseteq NodeIds
         /\ v.targets \cap Verifying = {}
         /\ \/ /\ v.by \in Ordinary /\ v.targets = {v.by} /\ v.passed
               /\ DOMAIN v.claims = {}
            \/ /\ v.by \in Verifying /\ v.targets = Awaits(order, v.by)
               /\ v.claims = [c \in order.mapped |-> IF v.passed THEN "PROVEN" ELSE "FAILED"]
<1>1. CASE v \in Remarks
  <2>1. PICK n \in Ordinary : v = [by |-> n, targets |-> {n}, passed |-> TRUE, claims |-> << >>]
    BY <1>1 DEF Remarks
  <2>2. v.by = n /\ v.targets = {n} /\ v.passed = TRUE /\ v.claims = << >>
    BY <2>1
  <2>3. DOMAIN << >> = {}
    OBVIOUS
  <2>4. n \in NodeIds /\ n \notin Verifying
    BY DEF Ordinary
  <2> QED
    BY <2>2, <2>3, <2>4
<1>2. ASSUME NEW n \in Verifying, NEW p \in BOOLEAN, v = VerdictOf(n, p)
      PROVE  /\ v.passed = p /\ v.by = n /\ v.targets = Awaits(order, n)
             /\ v.claims = [c \in order.mapped |-> IF p THEN "PROVEN" ELSE "FAILED"]
  BY <1>2 DEF VerdictOf
<1>3. \A n \in Verifying : /\ n \in NodeIds /\ Awaits(order, n) \subseteq NodeIds
                           /\ Awaits(order, n) \cap Verifying = {}
  BY Looks, Names
<1>4. CASE v \notin Remarks
  <2>1. PICK n \in Verifying, p \in BOOLEAN : v = VerdictOf(n, p)
    BY <1>4 DEF Opinions
  <2> QED
    BY <1>2, <1>3, <2>1
<1> QED
  BY <1>1, <1>4

\* A verdict more
LEMMA OneVerdictMore ==
  ASSUME Opined, NEW v \in Opinions, judged' = Append(judged, v)
  PROVE  /\ judged' \in Seq(Opinions)
         /\ DOMAIN judged' = DOMAIN judged \cup {Len(judged) + 1}
         /\ \A i \in DOMAIN judged : judged'[i] = judged[i]
         /\ judged'[Len(judged) + 1] = v
BY DEF Opined

\* Verdicts mean the same as long as the order is the same.
LEMMA OpinionsStay ==
  ASSUME UNCHANGED order
  PROVE  Opinions' = Opinions
<1>1. \A n, p : VerdictOf(n, p)' = VerdictOf(n, p)
  BY DEF VerdictOf
<1> QED
  BY <1>1 DEF Opinions

\* The state moves on, but nothing that has a verdict, appears or vanishes does.
Steady ==
  /\ UNCHANGED <<order, judged, gated>>
  /\ \A n \in NodeIds : /\ state[n] \in {"passed", "failed"} => state'[n] = state[n]
                        /\ state'[n] = "passed" => state[n] = "passed"
                        /\ state'[n] = "absent" <=> state[n] = "absent"

\* What a steady step keeps
LEMMA SteadyKeeps ==
  ASSUME TInv, Steady
  PROVE  /\ Opined' /\ Agreed' /\ Backed' /\ Revised'
         /\ Present' = Present /\ Reworked' = Reworked /\ Standing' = Standing
<1>1. Present' = Present
  BY DEF Present, Steady
<1>2. Reworked' = Reworked
  BY Names DEF Reworked, Steady
<1>3. Standing' = Standing
  BY <1>1, <1>2 DEF Standing
<1>4. Opined'
  BY OpinionsStay DEF TInv, Opined, Steady
<1>5. Agreed'
  <2> SUFFICES ASSUME NEW i \in DOMAIN judged, NEW t \in judged[i].targets \cup {judged[i].by}
               PROVE  state'[t] = Fate(judged[i].passed)
    BY DEF Agreed, Steady, Fate
  <2>1. state[t] = Fate(judged[i].passed)
    BY DEF TInv, Agreed
  <2>2. judged[i] \in Opinions
    BY DEF TInv, Opined
  <2>3. t \in NodeIds
    BY <2>2, OpinionForms
  <2> QED
    BY <2>1, <2>3 DEF Steady, Fate
<1>6. Backed'
  BY DEF TInv, Backed, Steady
<1>7. Revised'
  BY <1>2, Names DEF TInv, Revised, Steady
<1> QED
  BY <1>1, <1>2, <1>3, <1>4, <1>5, <1>6, <1>7

\* A step that leaves the nodes alone keeps all that is said of them.
LEMMA StillKeeps ==
  ASSUME TInv, UNCHANGED <<order, state, judged, gated>>
  PROVE  /\ Opined' /\ Agreed' /\ Backed' /\ Revised' /\ Waits'
         /\ Present' = Present /\ Reworked' = Reworked /\ Standing' = Standing
         /\ StandsStill' = StandsStill
<1>1. Steady
  BY DEF Steady
<1>2. Waits'
  BY DEF TInv, Waits
<1>3. Present' = Present
  BY <1>1, SteadyKeeps
<1>4. StandsStill' = StandsStill
  BY <1>3 DEF StandsStill
<1> QED
  BY <1>1, <1>2, <1>4, SteadyKeeps

\* Before the graph is published there is nothing to judge.
LEMMA NothingYet ==
  ASSUME HInv, TInv, log # "published"
  PROVE  /\ DOMAIN judged = {} /\ ended = "none" /\ ~gated /\ ~Reworked
         /\ \A n \in NodeIds : state[n] = "absent"
<1>1. \A n \in NodeIds : state[n] = "absent"
  BY DEF HInv, Planned, Present
<1>2. ASSUME NEW i \in DOMAIN judged PROVE FALSE
  <2>1. judged[i] \in Opinions /\ state[judged[i].by] = Fate(judged[i].passed)
    BY DEF TInv, Opined, Agreed
  <2>2. judged[i].by \in NodeIds
    BY <2>1, OpinionForms
  <2> QED
    BY <1>1, <2>1, <2>2 DEF Fate
<1>3. ~Reworked
  BY <1>1, Names DEF Reworked
<1> QED
  BY <1>1, <1>2, <1>3 DEF TInv, Concluded, Revised

\* The run is created and its graph published.
LEMMA PublishTold == ASSUME HInv, TInv, CreateRun \/ PublishGraph PROVE TInv'
<1>1. CASE CreateRun
  <2>1. /\ shell' = "publishing" /\ shell = "new" /\ log' = "created"
        /\ UNCHANGED <<order, state, judged, gated, front, kills, ended>>
    BY <1>1 DEF CreateRun, journaled
  <2>2. front = {} /\ log # "published" /\ ended = "none" /\ \A n \in NodeIds : state[n] = "absent"
    <3>1. log # "published"
      BY <1>1 DEF CreateRun
    <3> QED
      BY <2>1, <3>1, NothingYet DEF TInv, Fronted
  <2>3. Fronted'
    BY <2>1, <2>2 DEF Fronted, Underway, Present
  <2>4. Concluded' /\ Left' /\ Whole'
    BY <2>1, <2>2 DEF TInv, Concluded, Left, Whole
  <2> QED
    BY <2>1, <2>3, <2>4, StillKeeps DEF TInv
<1>2. CASE PublishGraph
  <2>1. /\ shell' = "storing spec" /\ shell = "publishing" /\ log' = "published"
        /\ state' = [n \in NodeIds |-> IF n \in NodesOf(order) THEN "pending" ELSE "absent"]
        /\ UNCHANGED <<order, judged, gated, front, kills, ended>>
    BY <1>2 DEF PublishGraph
  <2>2. log # "published" /\ front = {}
    BY <2>1 DEF HInv, Planned, TInv, Fronted
  <2>3. DOMAIN judged = {} /\ ended = "none" /\ ~gated
    BY <2>2, NothingYet
  <2>4. \A n \in NodeIds : state'[n] \in {"pending", "absent"}
    BY <2>1
  <2>5. ~Reworked'
    <3>1. "i1:rework:1" \in NodeIds /\ "i1:rework:1" \notin NodesOf(order)
      BY Names DEF NodesOf
    <3> QED
      BY <2>1, <3>1 DEF Reworked
  <2>6. Opined' /\ Agreed' /\ Backed' /\ Revised'
    BY <2>1, <2>3, <2>4, <2>5, OpinionsStay DEF TInv, Opined, Agreed, Backed, Revised
  <2>7. Waits' /\ Concluded' /\ Left'
    BY <2>1, <2>3, <2>4 DEF Waits, Concluded, Left
  <2>8. Whole'
    <3>1. NodesOf(order) \subseteq NodeIds
      BY Names DEF NodesOf
    <3>2. \A n \in NodesOf(order) : state'[n] = "pending"
      BY <2>1, <3>1
    <3>3. NodesOf(order)' = NodesOf(order)
      BY <2>1
    <3> QED
      BY <3>1, <3>2, <3>3 DEF Whole, Present
  <2>9. Fronted'
    BY <2>1, <2>2, <2>4 DEF Fronted, Underway, Present
  <2> QED
    BY <2>6, <2>7, <2>8, <2>9 DEF TInv
<1> QED
  BY <1>1, <1>2

\* The files are stored, and nothing else happens.
LEMMA StoreTold == ASSUME HInv, TInv, StoreSpec \/ StorePlan \/ StoreCommands PROVE TInv'
<1>1. /\ shell \in {"storing spec", "storing plan", "storing commands"}
      /\ shell' \in {"storing plan", "storing commands", "driving"}
      /\ UNCHANGED <<order, log, state, judged, gated, front, kills, ended>>
  BY DEF StoreSpec, StorePlan, StoreCommands, StoreFile, Storing, journaled
<1>2. front = {}
  BY <1>1 DEF TInv, Fronted
<1>3. Present' = Present /\ Underway' = Underway /\ Standing' = Standing
  BY <1>1, StillKeeps DEF Underway
<1>4. Fronted'
  BY <1>1, <1>2, <1>3 DEF TInv, Fronted
<1>5. Concluded' /\ Left' /\ Whole'
  BY <1>1, <1>3 DEF TInv, Concluded, Left, Whole
<1> QED
  BY <1>1, <1>4, <1>5, StillKeeps DEF TInv

\* The process dies.
LEMMA DeathTold == ASSUME HInv, TInv, ShellDies PROVE TInv'
<1>1. /\ shell' = "gone" /\ front' = {} /\ kills' = kills + 1
      /\ UNCHANGED <<order, log, state, judged, gated, ended>>
  BY DEF ShellDies, journaled
<1>2. kills' # 0
  <2>1. kills \in Nat
    BY DEF HInv, Shaped
  <2> QED
    BY <1>1, <2>1
<1>3. Present' = Present /\ Standing' = Standing
  BY <1>1, StillKeeps
<1>4. Fronted' /\ Left'
  BY <1>1, <1>2 DEF Fronted, Left
<1>5. Concluded' /\ Whole'
  BY <1>1, <1>3 DEF TInv, Concluded, Whole
<1> QED
  BY <1>1, <1>4, <1>5, StillKeeps DEF TInv

\* A wave is over, or the loop.
LEMMA LoopTold == ASSUME HInv, TInv, Settle \/ LeaveLoop PROVE TInv'
<1>1. /\ shell \in {"driving", "settling", "settling last"} /\ shell' \in {"driving", "gone"}
      /\ UNCHANGED <<order, log, state, judged, gated, front, kills>>
  BY DEF Settle, LeaveLoop, Driving, journaled
<1>2. front = {} /\ log = "published"
  BY <1>1 DEF HInv, Planned, TInv, Fronted
<1>3. /\ Present' = Present /\ Underway' = Underway /\ Standing' = Standing
      /\ StandsStill' = StandsStill /\ Reworked' = Reworked
  BY <1>1, StillKeeps DEF Underway
<1>4. Fronted' /\ Whole'
  BY <1>1, <1>2, <1>3 DEF TInv, Fronted, Whole
<1>5. CASE Settle
  <2>1. /\ ended' = Settlement /\ shell \in {"settling", "settling last"}
        /\ shell' = IF shell = "settling" THEN "driving" ELSE "gone"
    BY <1>5 DEF Settle
  <2>2. /\ Settlement \in {"none", "succeeded", "failed", "blocked"}
        /\ Settlement # "none" => ~gated
        /\ Settlement = "succeeded" => \A n \in Standing : state[n] = "passed"
    BY DEF Settlement
  <2>3. Concluded'
    BY <1>1, <1>2, <1>3, <2>1, <2>2 DEF Concluded
  <2>4. ASSUME shell = "settling last", \A n \in Present : state[n] = "passed", ~gated
        PROVE  Settlement = "succeeded"
    <3>1. Standing \subseteq Present
      BY DEF Standing
    <3>2. Standing # {}
      <4>1. ~Reworked
        <5>1. Reworked => "v1" \in Present /\ state["v1"] = "failed"
          BY Names DEF TInv, Revised, Present
        <5> QED
          BY <2>4, <5>1
      <4>2. NodesOf(order) # {}
        BY Names DEF NodesOf, Implements, Profile
      <4> QED
        BY <1>2, <4>1, <4>2 DEF TInv, Whole, Standing
    <3>3. {state[n] : n \in Standing} = {"passed"}
      BY <2>4, <3>1, <3>2
    <3> QED
      BY <2>4, <3>3 DEF Settlement
  <2>5. Left'
    <3>1. ASSUME kills = 0, state["v1"] # "awaiting_verification", shell' = "gone"
          PROVE  ended' # "none" \/ gated \/ StandsStill
      <4>1. shell = "settling last"
        BY <2>1, <3>1
      <4>2. StandsStill \/ \A n \in Present : state[n] = "passed"
        BY <3>1, <4>1 DEF TInv, Left
      <4> QED
        BY <2>1, <2>4, <4>1, <4>2
    <3>2. shell' # "settling last"
      BY <2>1
    <3> QED
      BY <1>1, <1>3, <3>1, <3>2 DEF Left
  <2> QED
    BY <1>1, <1>4, <2>3, <2>5, StillKeeps DEF TInv
<1>6. CASE LeaveLoop
  <2>1. shell' = "gone" /\ (ended # "none" \/ gated) /\ ended' = ended
    BY <1>6 DEF LeaveLoop, journaled
  <2>2. Concluded' /\ Left'
    BY <1>1, <1>3, <2>1 DEF TInv, Concluded, Left
  <2> QED
    BY <1>1, <1>4, <2>2, StillKeeps DEF TInv
<1> QED
  BY <1>5, <1>6

\* When the loop finds nothing to start, every node has passed or one stands still.
LEMMA NothingToStart ==
  ASSUME HInv, TInv, log = "published", front = {}, kills = 0,
         state["v1"] # "awaiting_verification", ~\E n \in Present : CanStart(n)
  PROVE  StandsStill \/ \A n \in Present : state[n] = "passed"
<1> SUFFICES ASSUME ~StandsStill PROVE \A n \in Present : state[n] = "passed"
  OBVIOUS
<1>1. ~Reworked
  <2>1. Reworked => "v1" \in Present /\ state["v1"] = "failed"
    BY Names DEF TInv, Revised, Present
  <2> QED
    BY <2>1 DEF StandsStill
<1>2. Present = NodesOf(order)
  <2>1. "i1:rework:1" \notin Present /\ "v1:rework:1" \notin Present
    BY <1>1, Names DEF HInv, Planned, Reworked, Present
  <2> QED
    BY <2>1 DEF HInv, Planned, TInv, Whole, Rework
<1>3. \A n \in Present : state[n] \in {"pending", "awaiting_verification", "passed"}
  <2> SUFFICES ASSUME NEW n \in Present
               PROVE  state[n] \in {"pending", "awaiting_verification", "passed"}
    OBVIOUS
  <2>1. state[n] \in NodeStates /\ state[n] # "absent"
    BY DEF HInv, Shaped, Present
  <2>2. state[n] # "running"
    BY DEF TInv, Fronted, Underway
  <2> QED
    BY <2>1, <2>2 DEF NodeStates, StandsStill
<1>4. \A n \in Present : state[n] = "awaiting_verification" => n = "i1"
  <2>1. \A n \in Present : n \in NodeIds
    BY DEF Present
  <2>2. "i1:rework:1" \notin Present
    BY <1>1 DEF Reworked, Present
  <2> QED
    BY <2>1, <2>2, Names DEF TInv, Waits
<1>5. \A n \in Present : state[n] = "pending" =>
        \E d \in Awaits(order, n) :
          state[d] # "passed" /\ (n \in Verifying \cup {"cr1"} => state[d] # "awaiting_verification")
  BY DEF CanStart
<1>6. \A n \in Present \cap {"r1", "r2"} : state[n] = "passed"
  <2>1. Awaits(order, "r1") = {} /\ Awaits(order, "r2") = {}
    BY DEF Awaits
  <2> QED
    BY <1>3, <1>4, <1>5, <2>1
<1>7. "d1" \in Present => state["d1"] = "passed"
  <2>1. Awaits(order, "d1") = {"r1", "r2"} \cap Present
    BY <1>2 DEF Awaits
  <2> QED
    BY <1>3, <1>4, <1>5, <1>6, <2>1
<1>8. "i1" \in Present => state["i1"] \in {"passed", "awaiting_verification"}
  <2>1. Awaits(order, "i1") = {"d1"} \cap Present
    BY <1>2 DEF Awaits
  <2> QED
    BY <1>3, <1>5, <1>7, <2>1
<1>9. ("cr1" \in Present \/ "i1" \in Present) => "i1" \in Present /\ "v1" \in Present /\ Implements(order)
  BY <1>2 DEF NodesOf, CrossReviewed
<1>10. "cr1" \in Present => state["cr1"] = "passed"
  <2>1. Awaits(order, "cr1") = {"i1"}
    BY DEF Awaits
  <2> QED
    BY <1>3, <1>4, <1>5, <1>8, <1>9, <2>1
<1>11. "v1" \in Present => state["v1"] = "passed"
  <2>1. Awaits(order, "v1") = {"i1", "cr1"} \cap Present
    BY <1>2 DEF Awaits
  <2>2. "v1" \in Verifying
    BY Names
  <2> QED
    BY <1>3, <1>5, <1>8, <1>10, <2>1, <2>2
<1>12. "i1" \in Present => state["i1"] = "passed"
  <2> SUFFICES ASSUME "i1" \in Present PROVE state["i1"] = "passed"
    OBVIOUS
  <2>1. state["v1"] = "passed" /\ "v1" \in NodeIds /\ "v1" \in Verifying
    BY <1>9, <1>11, Names
  <2>2. PICK i \in DOMAIN judged : judged[i].by = "v1"
    BY <2>1 DEF TInv, Backed
  <2>3. judged[i] \in Opinions
    BY DEF TInv, Opined
  <2>4. judged[i].targets = Awaits(order, "v1")
    BY <2>1, <2>2, <2>3, OpinionForms DEF Ordinary
  <2>5. "i1" \in judged[i].targets
    BY <1>9, <2>4, Looks
  <2>6. state["i1"] = state["v1"]
    BY <2>2, <2>5 DEF TInv, Agreed
  <2> QED
    BY <2>1, <2>6
<1>13. \A n \in Present : n \in {"r1", "r2", "d1", "i1", "cr1", "v1"}
  BY <1>2 DEF NodesOf
<1> QED
  BY <1>6, <1>7, <1>10, <1>11, <1>12, <1>13

\* The loop finds nothing to start.
LEMMA IdleTold == ASSUME HInv, TInv, IdleWave PROVE TInv'
<1>1. /\ shell = "driving" /\ shell' = "settling last" /\ ended = "none"
      /\ ~\E n \in Present : CanStart(n)
      /\ UNCHANGED <<order, log, state, judged, gated, front, kills, ended>>
  BY DEF IdleWave, Driving, journaled
<1>2. front = {} /\ log = "published"
  BY <1>1 DEF HInv, Planned, TInv, Fronted
<1>3. /\ Present' = Present /\ Underway' = Underway /\ Standing' = Standing
      /\ StandsStill' = StandsStill
  BY <1>1, StillKeeps DEF Underway
<1>4. Fronted' /\ Whole' /\ Concluded'
  BY <1>1, <1>2, <1>3 DEF TInv, Fronted, Whole, Concluded
<1>5. kills = 0 /\ state["v1"] # "awaiting_verification" =>
        StandsStill \/ \A n \in Present : state[n] = "passed"
  BY <1>1, <1>2, NothingToStart
<1>6. Left'
  BY <1>1, <1>3, <1>5 DEF Left
<1> QED
  BY <1>1, <1>4, <1>6, StillKeeps DEF TInv

\* A wave of nodes starts.
LEMMA WaveTold == ASSUME HInv, TInv, AdvanceWave PROVE TInv'
<1>1. PICK wave \in SUBSET {n \in Present : CanStart(n)} :
        /\ front' = wave
        /\ state' = [n \in NodeIds |-> IF n \in wave THEN "running" ELSE state[n]]
  BY DEF AdvanceWave
<1>2. /\ shell = "driving" /\ shell' = "waiting" /\ ended = "none"
      /\ UNCHANGED <<order, log, judged, gated, kills, ended>>
  BY DEF AdvanceWave, Driving
<1>3. front = {} /\ log = "published"
  BY <1>2 DEF HInv, Planned, TInv, Fronted
<1>4. \A n \in wave : state[n] = "pending" /\ n \in NodeIds
  BY DEF CanStart, Present
<1>5. Steady
  BY <1>1, <1>2, <1>4 DEF Steady
<1>6. Waits' /\ Whole'
  BY <1>1, <1>2, <1>4, <1>5, SteadyKeeps DEF TInv, Waits, Whole
<1>7. Concluded' /\ Left'
  BY <1>2, <1>3 DEF TInv, Concluded, Left
<1>8. Fronted'
  <2>1. \A n \in front' : state'[n] = "running"
    BY <1>1, <1>4
  <2>2. kills' = 0 /\ state'["v1"] # "awaiting_verification" => Underway' \subseteq front'
    <3>1. SUFFICES ASSUME kills = 0, state'["v1"] # "awaiting_verification" PROVE Underway' \subseteq front'
      BY <1>2
    <3>2. state["v1"] # "awaiting_verification"
      BY <1>1, <1>4, <3>1, Names
    <3>3. Underway = {}
      BY <1>3, <3>1, <3>2 DEF TInv, Fronted
    <3>4. Present' = Present
      BY <1>5, SteadyKeeps
    <3>5. \A n \in Present : n \in NodeIds
      BY DEF Present
    <3> QED
      BY <1>1, <3>3, <3>4, <3>5 DEF Underway
  <2>3. ASSUME NEW n \in front' \cap Verifying, NEW t \in Awaits(order, n)
        PROVE  state'[t] \in {"passed", "awaiting_verification"}
    <3>1. state[t] \in {"passed", "awaiting_verification"}
      BY <1>1, <2>3 DEF CanStart
    <3>2. t \in NodeIds
      BY <2>3, Looks, Names
    <3> QED
      BY <1>1, <1>4, <3>1, <3>2
  <2> QED
    BY <1>2, <2>1, <2>2, <2>3 DEF Fronted
<1> QED
  BY <1>5, <1>6, <1>7, <1>8, SteadyKeeps DEF TInv

\* Another process takes the run up, and does not know how what was in flight ended.
LEMMA TakeUpTold == ASSUME HInv, TInv, ResumeRun \/ RunAgain PROVE TInv'
<1>1. /\ shell = "gone" /\ shell' \in {"driving", "storing spec"} /\ log = "published"
      /\ UNCHANGED <<order, log, judged, gated, front, kills, ended>>
  BY DEF HInv, Shaped, Planned, ResumeRun, ResumeAccepted, RunAgain
<1>2. state' = Reconciled \/ state' = state
  BY DEF ResumeRun, RunAgain
<1>3. front = {}
  BY <1>1 DEF TInv, Fronted
<1>4. CASE state' = state
  <2>1. /\ Present' = Present /\ Underway' = Underway /\ Standing' = Standing
    BY <1>1, <1>4, StillKeeps DEF Underway
  <2>2. Fronted'
    BY <1>1, <1>3, <1>4, <2>1 DEF TInv, Fronted
  <2>3. Concluded' /\ Left' /\ Whole'
    BY <1>1, <1>4, <2>1 DEF TInv, Concluded, Left, Whole
  <2> QED
    BY <1>1, <1>4, <2>2, <2>3, StillKeeps DEF TInv
<1>5. CASE state' = Reconciled
  <2>1. \A n \in NodeIds : state'[n] = IF n \in Underway THEN "outcome_unknown" ELSE state[n]
    BY <1>5 DEF Reconciled
  <2>2. \A n \in Underway : n \in NodeIds /\ state[n] = "running"
    BY DEF Underway, Present
  <2>3. Steady
    BY <1>1, <2>1, <2>2 DEF Steady
  <2>4. Present' = Present /\ Standing' = Standing
    BY <2>3, SteadyKeeps
  <2>5. \A n \in NodeIds : state'[n] # "running"
    <3> SUFFICES ASSUME NEW n \in NodeIds, state'[n] = "running" PROVE FALSE
      OBVIOUS
    <3>1. state[n] = "running" /\ n \notin Underway
      BY <2>1
    <3> QED
      BY <3>1 DEF Underway, Present
  <2>6. Waits'
    BY <2>1, <2>2 DEF TInv, Waits
  <2>7. Underway' = {}
    BY <2>4, <2>5 DEF Underway, Present
  <2>8. Fronted'
    BY <1>1, <1>3, <2>7 DEF Fronted
  <2>9. Concluded'
    <3>1. \A n \in Standing : n \in NodeIds
      BY DEF Standing, Present
    <3>2. ended = "succeeded" => \A n \in Standing : state'[n] = "passed"
      BY <2>3, <3>1 DEF TInv, Concluded, Steady
    <3> QED
      BY <1>1, <2>4, <3>2 DEF TInv, Concluded
  <2>10. Left' /\ Whole'
    BY <1>1, <2>4 DEF TInv, Left, Whole
  <2> QED
    BY <2>3, <2>6, <2>8, <2>9, <2>10, SteadyKeeps DEF TInv
<1> QED
  BY <1>2, <1>4, <1>5

\* While a wave is on, the run is not over.
LEMMA WaveGoesOn ==
  ASSUME HInv, TInv, shell = "waiting", WaveMoves, UNCHANGED order, Present \subseteq Present'
  PROVE  /\ Concluded' /\ Left' /\ Whole'
         /\ shell' # "waiting" => front' = {}
         /\ kills' = kills
<1>1. /\ shell' \in {"settling", "waiting"} /\ (shell' # "waiting" => front' = {})
      /\ UNCHANGED <<log, ended, kills>>
  BY DEF WaveMoves
<1>2. ended = "none" /\ log = "published"
  BY DEF TInv, Concluded, HInv, Planned
<1>3. Concluded' /\ Left'
  BY <1>1, <1>2 DEF Concluded, Left
<1>4. Whole'
  BY <1>1, <1>2 DEF TInv, Whole
<1> QED
  BY <1>1, <1>3, <1>4

\* A node of the wave runs, and there is one verifier in a wave at most.
LEMMA InFront ==
  ASSUME HInv, TInv, NEW n \in front
  PROVE  /\ n \in NodeIds /\ state[n] = "running"
         /\ \A m \in front \cap Verifying : n \in Verifying => m = n
<1>1. \A m \in front : m \in NodeIds /\ state[m] = "running"
  BY DEF HInv, Shaped, Present, TInv, Fronted
<1>2. ~("v1" \in front /\ "v1:rework:1" \in front)
  <2> SUFFICES ASSUME "v1" \in front, "v1:rework:1" \in front PROVE FALSE
    OBVIOUS
  <2>1. state["v1"] = "running" /\ state["v1:rework:1"] = "running"
    BY <1>1
  <2>2. Reworked
    BY <2>1 DEF HInv, Planned
  <2> QED
    BY <2>1, <2>2 DEF TInv, Revised
<1> QED
  BY <1>1, <1>2, Names

\* A node of the wave ends.
LEMMA OneEnds ==
  ASSUME HInv, TInv, NEW n \in front, NEW s, s \notin {"running", "absent"}, NodeEnds(n, s),
         shell = "waiting", WaveMoves, UNCHANGED order
  PROVE  /\ Fronted' /\ Concluded' /\ Left' /\ Whole'
         /\ \A m \in NodeIds : state'[m] = IF m = n THEN s ELSE state[m]
<1>1. n \in NodeIds /\ state[n] = "running" /\ state \in [NodeIds -> NodeStates]
  BY InFront DEF HInv, Shaped
<1>2. \A m \in NodeIds : state'[m] = IF m = n THEN s ELSE state[m]
  BY <1>1 DEF NodeEnds
<1>3. front' = front \ {n}
  BY DEF NodeEnds
<1>4. Present' = Present
  BY <1>1, <1>2 DEF Present
<1>5. /\ Concluded' /\ Left' /\ Whole' /\ kills' = kills
      /\ shell' # "waiting" => front' = {}
  BY <1>4, WaveGoesOn
<1>6. \A m \in front' : state'[m] = "running"
  BY <1>2, <1>3, InFront
<1>7. kills = 0 /\ state'["v1"] # "awaiting_verification" => Underway' \subseteq front'
  <2> SUFFICES ASSUME kills = 0, state'["v1"] # "awaiting_verification", NEW m \in Underway'
               PROVE  m \in front'
    OBVIOUS
  <2>1. m \in NodeIds /\ m \in Present /\ state'[m] = "running"
    BY <1>4 DEF Underway, Present
  <2>2. m # n /\ m \in Underway
    BY <1>2, <2>1 DEF Underway
  <2>3. state["v1"] # "awaiting_verification"
    BY <1>1, <1>2, Names
  <2> QED
    BY <1>3, <2>2, <2>3 DEF TInv, Fronted
<1>8. ASSUME NEW m \in front' \cap Verifying, NEW t \in Awaits(order, m)
      PROVE  state'[t] \in {"passed", "awaiting_verification"}
  <2>1. state[t] \in {"passed", "awaiting_verification"}
    BY <1>3, <1>8 DEF TInv, Fronted
  <2>2. t \in NodeIds
    BY <1>8, Looks, Names
  <2> QED
    BY <1>1, <1>2, <2>1, <2>2
<1> QED
  BY <1>2, <1>5, <1>6, <1>7, <1>8 DEF Fronted

\* It ends without a verdict, and awaits one only if it is work or the first verifier.
LEMMA EndsUnjudged ==
  ASSUME HInv, TInv, NEW n \in front, NEW s, s \notin {"running", "absent", "passed"},
         s = "awaiting_verification" => n \in Built,
         NodeEnds(n, s), shell = "waiting", WaveMoves, UNCHANGED <<order, judged, gated>>
  PROVE  TInv'
<1>1. n \in NodeIds /\ state[n] = "running"
  BY InFront
<1>2. /\ Fronted' /\ Concluded' /\ Left' /\ Whole'
      /\ \A m \in NodeIds : state'[m] = IF m = n THEN s ELSE state[m]
  BY OneEnds
<1>3. Steady
  BY <1>1, <1>2 DEF Steady
<1>4. Waits'
  BY <1>2 DEF TInv, Waits
<1> QED
  BY <1>2, <1>3, <1>4, SteadyKeeps DEF TInv

\* It is tried again.
LEMMA TriedAgain ==
  ASSUME HInv, TInv, shell = "waiting", WaveMoves, front # {},
         UNCHANGED <<order, state, front, judged, gated>>
  PROVE  TInv'
<1>1. Present' = Present /\ Underway' = Underway
  BY StillKeeps DEF Underway
<1>2. Concluded' /\ Left' /\ Whole' /\ kills' = kills /\ (shell' # "waiting" => front' = {})
  BY <1>1, WaveGoesOn
<1>3. Fronted'
  BY <1>1, <1>2 DEF TInv, Fronted
<1> QED
  BY <1>2, <1>3, StillKeeps DEF TInv

\* A verdict more, which agrees with the nodes and leaves the judged ones alone.
LEMMA VerdictTold ==
  ASSUME TInv, NEW v \in Opinions, judged' = Append(judged, v), UNCHANGED order,
         \A t \in v.targets \cup {v.by} : state'[t] = Fate(v.passed),
         \A m \in NodeIds : state[m] \in {"passed", "failed"} => state'[m] = state[m],
         \A m \in NodeIds : state'[m] = "passed" =>
           state[m] = "passed" \/ m = v.by \/ (m \notin Verifying /\ m \in v.targets)
  PROVE  Opined' /\ Agreed' /\ Backed'
<1>1. /\ judged' \in Seq(Opinions)
      /\ DOMAIN judged' = DOMAIN judged \cup {Len(judged) + 1}
      /\ \A i \in DOMAIN judged : judged'[i] = judged[i]
      /\ judged'[Len(judged) + 1] = v
  BY OneVerdictMore DEF TInv
<1>2. Opined'
  BY <1>1, OpinionsStay DEF Opined
<1>3. ASSUME NEW i \in DOMAIN judged', NEW t \in judged'[i].targets \cup {judged'[i].by}
      PROVE  state'[t] = Fate(judged'[i].passed)
  <2>1. CASE i \in DOMAIN judged
    <3>1. judged'[i] = judged[i] /\ judged[i] \in Opinions
      BY <1>1, <2>1 DEF TInv, Opined
    <3>2. state[t] = Fate(judged[i].passed)
      BY <1>3, <2>1, <3>1 DEF TInv, Agreed
    <3>3. t \in NodeIds
      BY <1>3, <3>1, OpinionForms
    <3> QED
      BY <3>1, <3>2, <3>3 DEF Fate
  <2>2. CASE i = Len(judged) + 1
    BY <1>1, <1>3, <2>2
  <2> QED
    BY <1>1, <2>1, <2>2
<1>4. Agreed'
  BY <1>3 DEF Agreed, Fate
<1>5. ASSUME NEW m \in NodeIds, state'[m] = "passed"
      PROVE  \E i \in DOMAIN judged' :
               m = judged'[i].by \/ (m \notin Verifying /\ m \in judged'[i].targets)
  <2>1. CASE state[m] = "passed"
    <3>1. PICK i \in DOMAIN judged : m = judged[i].by \/ (m \notin Verifying /\ m \in judged[i].targets)
      BY <2>1 DEF TInv, Backed
    <3> QED
      BY <1>1, <3>1
  <2>2. CASE m = v.by \/ (m \notin Verifying /\ m \in v.targets)
    BY <1>1, <2>2
  <2> QED
    BY <1>5, <2>1, <2>2
<1>6. Backed'
  BY <1>5 DEF Backed
<1> QED
  BY <1>2, <1>4, <1>6

\* What is an opinion
LEMMA OpinionIs ==
  /\ \A n \in Ordinary : [by |-> n, targets |-> {n}, passed |-> TRUE, claims |-> << >>] \in Opinions
  /\ \A n \in Verifying, p \in BOOLEAN : VerdictOf(n, p) \in Opinions
<1>1. \A n \in Ordinary : [by |-> n, targets |-> {n}, passed |-> TRUE, claims |-> << >>] \in Remarks
  BY DEF Remarks
<1>2. \A n \in Verifying, p \in BOOLEAN : VerdictOf(n, p) \in {VerdictOf(m, q) : m \in Verifying, q \in BOOLEAN}
  OBVIOUS
<1> DEFINE S == {VerdictOf(m, q) : m \in Verifying, q \in BOOLEAN}
<1>3. Opinions = Remarks \cup S
  BY DEF Opinions
<1>4. \A n \in Verifying, p \in BOOLEAN : VerdictOf(n, p) \in S
  BY <1>2
<1> HIDE DEF S
<1>5. Remarks \subseteq Opinions /\ S \subseteq Opinions
  BY <1>3
<1>6. \A n \in Ordinary : [by |-> n, targets |-> {n}, passed |-> TRUE, claims |-> << >>] \in Opinions
  BY <1>1, <1>5
<1>7. \A n \in Verifying, p \in BOOLEAN : VerdictOf(n, p) \in Opinions
  BY <1>4, <1>5
<1> QED
  BY <1>6, <1>7

\* A worker's attempt ends.
LEMMA AttemptTold ==
  ASSUME HInv, TInv, NEW n \in NodeIds, NEW ending \in Endings, AttemptEnds(n, ending)
  PROVE  TInv'
<1>1. /\ shell = "waiting" /\ n \in front /\ n \notin Verifying
      /\ WaveMoves /\ UNCHANGED <<gated, order>>
  BY DEF AttemptEnds, WaveMoves
<1>2. state[n] = "running"
  BY <1>1, InFront
<1>3. CASE ending = "succeeded" /\ n \in Built
  BY <1>1, <1>3, EndsUnjudged DEF AttemptEnds
<1>4. CASE ending = "succeeded" /\ n \notin Built
  <2> DEFINE v == [by |-> n, targets |-> {n}, passed |-> TRUE, claims |-> << >>]
  <2>1. judged' = Append(judged, v) /\ NodeEnds(n, "passed")
    BY <1>4 DEF AttemptEnds
  <2>2. v.by = n /\ v.targets = {n} /\ v.passed = TRUE
    OBVIOUS
  <2>3. n \in Ordinary
    BY <1>1, <1>4 DEF Ordinary
  <2>4. v \in Opinions
    BY <2>3, OpinionIs
  <2> HIDE DEF v
  <2>5. /\ Fronted' /\ Concluded' /\ Left' /\ Whole'
        /\ \A m \in NodeIds : state'[m] = IF m = n THEN "passed" ELSE state[m]
    BY <1>1, <2>1, OneEnds
  <2>6. \A t \in v.targets \cup {v.by} : state'[t] = Fate(v.passed)
    BY <2>2, <2>5 DEF Fate
  <2>7. \A m \in NodeIds : state[m] \in {"passed", "failed"} => state'[m] = state[m]
    BY <1>2, <2>5
  <2>8. \A m \in NodeIds : state'[m] = "passed" => state[m] = "passed" \/ m = v.by
    BY <2>2, <2>5
  <2>9. Opined' /\ Agreed' /\ Backed'
    BY <1>1, <2>1, <2>4, <2>6, <2>7, <2>8, VerdictTold
  <2>10. Waits'
    BY <2>5 DEF TInv, Waits
  <2>11. Revised'
    <3>1. Reworked' = Reworked
      BY <1>4, <2>5, Names DEF Reworked
    <3>2. \A i \in DOMAIN judged' : judged'[i].passed \/ Reworked'
      <4>1. /\ DOMAIN judged' = DOMAIN judged \cup {Len(judged) + 1}
            /\ \A i \in DOMAIN judged : judged'[i] = judged[i]
            /\ judged'[Len(judged) + 1] = v
        BY <2>1, <2>4, OneVerdictMore DEF TInv
      <4> QED
        BY <2>2, <3>1, <4>1 DEF TInv, Revised
    <3>3. \A m \in Verifying : m \in NodeIds /\ state'[m] = state[m]
      BY <1>1, <2>5, Names
    <3>4. "v1" \in Verifying /\ "v1:rework:1" \in Verifying
      BY Names
    <3> QED
      BY <1>1, <3>1, <3>2, <3>3, <3>4 DEF TInv, Revised
  <2> QED
    BY <2>5, <2>9, <2>10, <2>11 DEF TInv
<1>5. CASE ending \in {"failed", "outcome_unknown"}
  BY <1>1, <1>5, EndsUnjudged DEF AttemptEnds
<1>6. CASE ending = "timed_out" /\ n \notin retried
  BY <1>1, <1>6, TriedAgain DEF AttemptEnds
<1>7. CASE ending = "timed_out" /\ n \in retried
  BY <1>1, <1>7, EndsUnjudged DEF AttemptEnds
<1> QED
  BY <1>3, <1>4, <1>5, <1>6, <1>7 DEF AttemptEnds

\* A verifier does not start, or does not finish.
LEMMA VerifierEndsTold ==
  ASSUME HInv, TInv, NEW n \in NodeIds, VerifierUnarmed(n) \/ VerifierTimesOut(n)
  PROVE  TInv'
<1>1. /\ shell = "waiting" /\ n \in front /\ WaveMoves /\ UNCHANGED <<order, judged, gated>>
  BY DEF VerifierUnarmed, VerifierTimesOut, WaveMoves
<1>2. \/ NodeEnds(n, "outcome_unknown") \/ NodeEnds(n, "blocked") \/ UNCHANGED <<state, front>>
  BY DEF VerifierUnarmed, VerifierTimesOut
<1> QED
  BY <1>1, <1>2, EndsUnjudged, TriedAgain

\* What a running verifier looks at: the work awaits its verdict.
LEMMA UnderTheEye ==
  ASSUME HInv, TInv, NEW n \in front \cap Verifying
  PROVE  /\ Awaits(order, n) \subseteq NodeIds /\ Awaits(order, n) \cap Verifying = {}
         /\ \A t \in Awaits(order, n) : state[t] \in {"passed", "awaiting_verification"}
         /\ \A t \in Awaits(order, n) \cap Built : state[t] = "awaiting_verification"
<1>1. Awaits(order, n) \subseteq NodeIds /\ Awaits(order, n) \cap Verifying = {}
  BY Looks, Names
<1>2. \A t \in Awaits(order, n) : state[t] \in {"passed", "awaiting_verification"}
  BY DEF TInv, Fronted
<1>3. ASSUME NEW t \in Awaits(order, n) \cap Built, state[t] = "passed" PROVE FALSE
  <2>1. PICK i \in DOMAIN judged : t = judged[i].by \/ t \in judged[i].targets
    BY <1>1, <1>3 DEF TInv, Backed
  <2>2. judged[i] \in Opinions
    BY DEF TInv, Opined
  <2>3. t \notin Ordinary /\ t \notin Verifying
    BY <1>3, Names
  <2>4. judged[i].by \in Verifying /\ t \in Awaits(order, judged[i].by)
    BY <2>1, <2>2, <2>3, OpinionForms
  <2>5. judged[i].by = n
    BY <1>3, <2>4, Looks, Names
  <2>6. state[n] \in {"passed", "failed"}
    BY <2>5 DEF TInv, Agreed, Fate
  <2> QED
    BY <2>6, InFront
<1> QED
  BY <1>1, <1>2, <1>3

\* A verifier has judged: what remains of the wave.
LEMMA FrontRemains ==
  ASSUME HInv, TInv, NEW n \in front \cap Verifying, shell = "waiting", WaveMoves,
         UNCHANGED order, front' = front \ {n}, Present \subseteq Present',
         \A m \in NodeIds : state[m] = "running" /\ m # n => state'[m] = "running",
         \A m \in NodeIds : state'[m] = "running" => state[m] = "running" /\ m # n,
         \A m \in NodeIds : state[m] = "awaiting_verification" /\ m \in Verifying =>
           state'[m] = "awaiting_verification"
  PROVE  Fronted' /\ Concluded' /\ Left' /\ Whole'
<1>1. /\ Concluded' /\ Left' /\ Whole' /\ kills' = kills
      /\ shell' # "waiting" => front' = {}
  BY WaveGoesOn
<1>2. \A m \in front' : state'[m] = "running"
  BY InFront
<1>3. kills = 0 /\ state'["v1"] # "awaiting_verification" => Underway' \subseteq front'
  <2> SUFFICES ASSUME kills = 0, state'["v1"] # "awaiting_verification", NEW m \in Underway'
               PROVE  m \in front'
    OBVIOUS
  <2>1. m \in NodeIds /\ state'[m] = "running"
    BY DEF Underway, Present
  <2>2. m # n /\ m \in Underway
    BY <2>1 DEF Underway, Present
  <2>3. state["v1"] # "awaiting_verification"
    BY Names
  <2> QED
    BY <2>2, <2>3 DEF TInv, Fronted
<1>4. front' \cap Verifying = {}
  BY InFront
<1> QED
  BY <1>1, <1>2, <1>3, <1>4 DEF Fronted

\* The verification command passes.
LEMMA PassTold ==
  ASSUME HInv, TInv, NEW n \in NodeIds, VerifierPasses(n)
  PROVE  TInv'
<1>1. /\ shell = "waiting" /\ n \in front /\ n \in Verifying /\ front' = front \ {n}
      /\ judged' = Append(judged, VerdictOf(n, TRUE))
      /\ WaveMoves /\ UNCHANGED <<gated, order>>
  BY DEF VerifierPasses, WaveMoves
<1>2. \A m \in NodeIds : state'[m] = IF m \in {n} \cup Awaits(order, n) THEN "passed" ELSE state[m]
  BY DEF VerifierPasses
<1>3. state[n] = "running"
  BY <1>1, InFront
<1>4. /\ Awaits(order, n) \subseteq NodeIds /\ Awaits(order, n) \cap Verifying = {}
      /\ \A t \in Awaits(order, n) : state[t] \in {"passed", "awaiting_verification"}
  BY <1>1, UnderTheEye
<1> DEFINE v == VerdictOf(n, TRUE)
<1>5. v.by = n /\ v.targets = Awaits(order, n) /\ v.passed = TRUE
  BY DEF VerdictOf
<1>6. v \in Opinions /\ judged' = Append(judged, v)
  <2>1. TRUE \in BOOLEAN
    OBVIOUS
  <2>2. v \in Opinions
    BY <1>1, <2>1, OpinionIs, Zenon
  <2> QED
    BY <1>1, <2>2
<1> HIDE DEF v
<1>7. Opined' /\ Agreed' /\ Backed'
  <2>1. \A t \in v.targets \cup {v.by} : state'[t] = Fate(v.passed)
    BY <1>2, <1>4, <1>5 DEF Fate
  <2>2. \A m \in NodeIds : state[m] \in {"passed", "failed"} => state'[m] = state[m]
    BY <1>2, <1>3, <1>4
  <2>3. \A m \in NodeIds : state'[m] = "passed" =>
          state[m] = "passed" \/ m = v.by \/ (m \notin Verifying /\ m \in v.targets)
    BY <1>2, <1>4, <1>5
  <2> QED
    BY <1>1, <1>6, <2>1, <2>2, <2>3, VerdictTold
<1>8. Waits'
  BY <1>2 DEF TInv, Waits
<1>9. \A m \in NodeIds : state'[m] = "absent" <=> state[m] = "absent"
  BY <1>2, <1>3, <1>4
<1>10. Revised'
  <2>1. Reworked' = Reworked
    BY <1>9, Names DEF Reworked
  <2>2. /\ DOMAIN judged' = DOMAIN judged \cup {Len(judged) + 1}
        /\ \A i \in DOMAIN judged : judged'[i] = judged[i]
        /\ judged'[Len(judged) + 1] = v
    BY <1>6, OneVerdictMore DEF TInv
  <2>3. \A i \in DOMAIN judged' : judged'[i].passed \/ Reworked'
    BY <1>5, <2>1, <2>2 DEF TInv, Revised
  <2>4. Reworked => state'["v1"] = "failed" /\ state'["v1:rework:1"] # "absent"
    <3>1. Reworked => state["v1"] = "failed" /\ state["v1:rework:1"] # "absent"
      BY DEF TInv, Revised
    <3>2. "v1" \in NodeIds /\ "v1" \in Verifying /\ "v1:rework:1" \in NodeIds
      BY Names
    <3> QED
      BY <1>2, <1>3, <1>4, <1>9, <3>1, <3>2
  <2> QED
    BY <1>1, <2>1, <2>3, <2>4 DEF TInv, Revised
<1>11. Present \subseteq Present'
  BY <1>9 DEF Present
<1>12. Fronted' /\ Concluded' /\ Left' /\ Whole'
  <2>1. \A m \in NodeIds : state[m] = "running" /\ m # n => state'[m] = "running"
    BY <1>2, <1>4
  <2>2. \A m \in NodeIds : state'[m] = "running" => state[m] = "running" /\ m # n
    BY <1>2
  <2>3. \A m \in NodeIds : state[m] = "awaiting_verification" /\ m \in Verifying =>
          state'[m] = "awaiting_verification"
    BY <1>2, <1>3, <1>4
  <2> QED
    BY <1>1, <1>11, <2>1, <2>2, <2>3, FrontRemains
<1> QED
  BY <1>7, <1>8, <1>10, <1>12 DEF TInv

\* Its judgement of two nodes is refused, and the process ends.
LEMMA RefusalTold ==
  ASSUME HInv, TInv, NEW n \in NodeIds, RevisionRefused(n)
  PROVE  TInv'
<1>1. /\ shell = "waiting" /\ n \in front \cap Verifying /\ Cardinality(Awaits(order, n)) = 2
      /\ state' = [state EXCEPT ![n] = "awaiting_verification"]
      /\ front' = {} /\ shell' = "gone"
      /\ UNCHANGED <<order, log, judged, ended, gated, kills>>
  BY DEF RevisionRefused
<1>2. n = "v1"
  <2>1. n = "v1:rework:1" => Awaits(order, n) = {"i1:rework:1"}
    BY Looks
  <2>2. Cardinality({"i1:rework:1"}) = 1
    BY FS_Singleton
  <2> QED
    BY <1>1, <2>1, <2>2, Names
<1>3. state[n] = "running" /\ state \in [NodeIds -> NodeStates]
  BY <1>1, InFront DEF HInv, Shaped
<1>4. \A m \in NodeIds : state'[m] = IF m = n THEN "awaiting_verification" ELSE state[m]
  BY <1>1, <1>3
<1>5. Steady
  BY <1>1, <1>3, <1>4 DEF Steady
<1>6. Waits'
  BY <1>2, <1>4 DEF TInv, Waits
<1>7. state'["v1"] = "awaiting_verification"
  BY <1>2, <1>4
<1>8. Fronted' /\ Left'
  BY <1>1, <1>7 DEF Fronted, Left
<1>9. Concluded' /\ Whole'
  <2>1. ended = "none" /\ Present' = Present
    BY <1>1, <1>5, SteadyKeeps DEF TInv, Concluded
  <2> QED
    BY <1>1, <2>1 DEF TInv, Concluded, Whole
<1> QED
  BY <1>5, <1>6, <1>8, <1>9, SteadyKeeps DEF TInv

\* The verification command fails: the work is reworked once, then a person decides.
LEMMA ReviseTold ==
  ASSUME HInv, TInv, NEW n \in NodeIds, VerifierRevises(n)
  PROVE  TInv'
<1>1. /\ shell = "waiting" /\ n \in front /\ n \in Verifying /\ front' = front \ {n}
      /\ judged' = Append(judged, VerdictOf(n, FALSE)) /\ gated' = Reworked
      /\ Cardinality(Awaits(order, n)) = 1 /\ WaveMoves /\ UNCHANGED order
  BY DEF VerifierRevises, WaveMoves
<1> DEFINE New == IF Reworked THEN {} ELSE {"i1:rework:1", "v1:rework:1"}
           v == VerdictOf(n, FALSE)
<1>2. \A m \in NodeIds : state'[m] = IF m \in {n} \cup Awaits(order, n) THEN "failed"
                                     ELSE IF m \in New THEN "pending" ELSE state[m]
  BY DEF VerifierRevises
<1>3. state[n] = "running"
  BY <1>1, InFront
<1>4. n \in Present /\ Implements(order)
  <2>1. n \in Present \cap Verifying
    BY <1>1, <1>3 DEF Present
  <2> QED
    BY <2>1, Judged DEF HInv
<1>5. /\ Awaits(order, n) \subseteq NodeIds /\ Awaits(order, n) \cap Verifying = {}
      /\ Awaits(order, n) \subseteq Built
      /\ \A t \in Awaits(order, n) : state[t] = "awaiting_verification"
  <2>1. Awaits(order, n) \subseteq Built
    <3>1. CASE n = "v1:rework:1"
      BY <3>1, Looks, Names
    <3>2. CASE n = "v1"
      <4>1. "i1" \in Awaits(order, n)
        BY <1>4, <3>2, Looks
      <4>2. "cr1" \notin Awaits(order, n)
        <5> SUFFICES ASSUME "cr1" \in Awaits(order, n) PROVE FALSE
          OBVIOUS
        <5>1. Awaits(order, n) = {"i1", "cr1"}
          BY <3>2, <4>1, Looks
        <5>2. IsFiniteSet({"i1"}) /\ Cardinality({"i1"}) = 1
          BY FS_Singleton
        <5>3. Cardinality({"i1"} \cup {"cr1"}) = 2
          BY <5>2, FS_AddElement
        <5>4. {"i1"} \cup {"cr1"} = {"i1", "cr1"}
          OBVIOUS
        <5> QED
          BY <1>1, <5>1, <5>3, <5>4
      <4> QED
        BY <3>2, <4>2, Looks, Names
    <3> QED
      BY <1>1, <3>1, <3>2, Names
  <2> QED
    BY <1>1, <2>1, UnderTheEye
<1>6. \A m \in New : m \in NodeIds /\ state[m] = "absent"
  <2>1. ~Reworked => state["i1:rework:1"] = "absent" /\ state["v1:rework:1"] = "absent"
    BY DEF Reworked, HInv, Planned
  <2> QED
    BY <2>1, Names
<1>7. v.by = n /\ v.targets = Awaits(order, n) /\ v.passed = FALSE
  BY DEF VerdictOf
<1>8. v \in Opinions /\ judged' = Append(judged, v)
  <2>1. FALSE \in BOOLEAN
    OBVIOUS
  <2>2. v \in Opinions
    BY <1>1, <2>1, OpinionIs, Zenon
  <2> QED
    BY <1>1, <2>2
<1>9. Reworked' /\ (Reworked => n # "v1") /\ (~Reworked => n = "v1")
  <2>1. Reworked => state["v1"] = "failed"
    BY DEF TInv, Revised
  <2>2. ~Reworked => state["v1:rework:1"] = "absent"
    BY DEF HInv, Planned
  <2>3. "i1:rework:1" \in NodeIds
    BY Names
  <2>4. state'["i1:rework:1"] # "absent"
    BY <1>2, <1>6, <2>3 DEF Reworked
  <2> QED
    BY <1>1, <1>3, <2>1, <2>2, <2>4, Names DEF Reworked
<1> HIDE DEF v, New
<1>10. Opined' /\ Agreed' /\ Backed'
  <2>1. \A t \in v.targets \cup {v.by} : state'[t] = Fate(v.passed)
    BY <1>2, <1>5, <1>7 DEF Fate
  <2>2. \A m \in NodeIds : state[m] \in {"passed", "failed"} => state'[m] = state[m]
    BY <1>2, <1>3, <1>5, <1>6
  <2>3. \A m \in NodeIds : state'[m] = "passed" => state[m] = "passed"
    BY <1>2
  <2> QED
    BY <1>1, <1>8, <2>1, <2>2, <2>3, VerdictTold
<1>11. Waits'
  BY <1>2 DEF TInv, Waits
<1>12. \A m \in NodeIds : state'[m] = "absent" => state[m] = "absent"
  BY <1>2
<1>13. Revised'
  <2>1. \A i \in DOMAIN judged' : judged'[i].passed \/ Reworked'
    BY <1>9
  <2>2. state'["v1"] = "failed"
    <3>1. "v1" \in NodeIds /\ "v1" \in Verifying
      BY Names
    <3>2. CASE Reworked
      <4>1. state["v1"] = "failed" /\ n # "v1"
        BY <1>9, <3>2 DEF TInv, Revised
      <4> QED
        BY <1>2, <1>6, <3>1, <4>1
    <3>3. CASE ~Reworked
      BY <1>2, <1>9, <3>1, <3>3
    <3> QED
      BY <3>2, <3>3
  <2>3. state'["v1:rework:1"] # "absent"
    <3>1. "v1:rework:1" \in NodeIds
      BY Names
    <3>2. CASE Reworked
      BY <1>12, <3>1, <3>2 DEF TInv, Revised
    <3>3. CASE ~Reworked
      BY <1>2, <3>1, <3>3 DEF New
    <3> QED
      BY <3>2, <3>3
  <2> QED
    BY <1>9, <2>1, <2>2, <2>3 DEF Revised
<1>14. Present \subseteq Present'
  BY <1>12 DEF Present
<1>15. Fronted' /\ Concluded' /\ Left' /\ Whole'
  <2>1. \A m \in NodeIds : state[m] = "running" /\ m # n => state'[m] = "running"
    BY <1>2, <1>5, <1>6
  <2>2. \A m \in NodeIds : state'[m] = "running" => state[m] = "running" /\ m # n
    BY <1>2
  <2>3. \A m \in NodeIds : state[m] = "awaiting_verification" /\ m \in Verifying =>
          state'[m] = "awaiting_verification"
    BY <1>2, <1>3, <1>5, <1>6
  <2> QED
    BY <1>1, <1>14, <2>1, <2>2, <2>3, FrontRemains
<1> QED
  BY <1>10, <1>11, <1>13, <1>15 DEF TInv

\* All this holds before the command runs.
LEMMA InitT == HInit => TInv
<1> SUFFICES ASSUME HInit PROVE TInv
  OBVIOUS
<1>1. judged = << >> /\ ended = "none" /\ gated = FALSE /\ front = {} /\ log = "empty" /\ shell = "new"
  BY DEF HInit
<1>2. \A n \in NodeIds : state[n] = "absent"
  BY DEF HInit
<1>3. Opined /\ Agreed /\ Backed
  BY <1>1, <1>2 DEF Opined, Agreed, Backed
<1>4. Revised /\ Waits /\ Whole /\ Concluded /\ Left
  BY <1>1, <1>2, Names DEF Revised, Reworked, Waits, Whole, Concluded, Left
<1>5. Fronted
  BY <1>1, <1>2 DEF Fronted, Underway, Present
<1> QED
  BY <1>3, <1>4, <1>5 DEF TInv

\* Every step keeps it.
LEMMA TStep == HInv /\ TInv /\ [HNext]_hvars => TInv'
<1> SUFFICES ASSUME HInv, TInv, [HNext]_hvars PROVE TInv'
  OBVIOUS
<1>1. CASE UNCHANGED hvars
  <2>1. UNCHANGED <<order, shell, log, state, judged, ended, gated, front, kills>>
    BY <1>1 DEF hvars, journaled
  <2>2. /\ Present' = Present /\ Underway' = Underway /\ Standing' = Standing
        /\ StandsStill' = StandsStill
    BY <2>1, StillKeeps DEF Underway
  <2>3. Fronted' /\ Concluded' /\ Left' /\ Whole'
    BY <2>1, <2>2 DEF TInv, Fronted, Concluded, Left, Whole
  <2> QED
    BY <2>1, <2>3, StillKeeps DEF TInv
<1>2. CASE HNext
  BY <1>2, PublishTold, StoreTold, WaveTold, IdleTold, LoopTold, DeathTold, TakeUpTold,
     AttemptTold, VerifierEndsTold, PassTold, ReviseTold, RefusalTold DEF HNext
<1> QED
  BY <1>1, <1>2

\* Of numbers one is the least.
LEMMA OneIsLeast ==
  ASSUME NEW B, B \subseteq Nat, B # {}
  PROVE  \E b \in B : \A d \in B : b <= d
<1> DEFINE Less == OpToRel(<, Nat)
<1>1. IsWellFoundedOn(Less, Nat)
  BY NatLessThanWellFounded
<1>2. \A x, y \in Nat : x < y => <<x, y>> \in Less
  BY DEF OpToRel
<1> HIDE DEF Less
<1>3. PICK b \in B : \A d \in B : ~(<<d, b>> \in Less)
  BY <1>1, WFMin
<1>4. ASSUME NEW d \in B PROVE b <= d
  <2>1. b \in Nat /\ d \in Nat /\ ~(d < b)
    BY <1>2, <1>3
  <2> QED
    BY <2>1
<1> QED
  BY <1>4

\* Of verdicts one is the last.
LEMMA OneIsLast ==
  ASSUME Opined, NEW S \in SUBSET DOMAIN judged, S # {}
  PROVE  LastOf(S) \in S /\ \A j \in S : j <= LastOf(S)
<1>1. Len(judged) \in Nat /\ DOMAIN judged = 1..Len(judged)
  BY DEF Opined
<1> DEFINE B == {Len(judged) - j : j \in S}
<1>2. B \subseteq Nat /\ B # {}
  BY <1>1
<1>3. PICK b \in B : \A d \in B : b <= d
  <2> HIDE DEF B
  <2> QED
    BY <1>2, OneIsLeast
<1>4. PICK i \in S : b = Len(judged) - i
  OBVIOUS
<1>5. ASSUME NEW j \in S PROVE j <= i
  <2>1. b <= Len(judged) - j /\ b \in Nat
    BY <1>2, <1>3
  <2> QED
    BY <1>1, <1>4, <2>1
<1> QED
  BY <1>5 DEF LastOf

\* A criterion of a node is shown as one of four states.
LEMMA Claims ==
  ASSUME TInv, NEW n \in NodeIds, NEW c
  PROVE  /\ CriterionStatus(n, c, judged, RequiredOf(order, n)) \in {"NOT_PROVEN", "PROVEN", "FAILED"}
         /\ CriterionStatus(n, c, judged, RequiredOf(order, n)) = "PROVEN" =>
              /\ c \in order.mapped
              /\ \E i \in DOMAIN judged : judged[i].by \in Verifying /\ judged[i].passed
         /\ CriterionStatus(n, c, judged, RequiredOf(order, n)) = "FAILED" => Reworked
         /\ c \notin order.mapped => CriterionStatus(n, c, judged, RequiredOf(order, n)) = "NOT_PROVEN"
<1> DEFINE said == IF ClaimsOn(n, c, judged) # {} THEN ClaimsOn(n, c, judged)
                   ELSE ClaimsBy(n, c, judged)
           L == LastClaim(n, c, judged)
<1>1. \A i \in said : i \in DOMAIN judged /\ c \in DOMAIN judged[i].claims
  BY DEF ClaimsOn, ClaimsBy
<1>2. L = IF said = {} THEN "NOT_PROVEN" ELSE judged[LastOf(said)].claims[c]
  BY DEF LastClaim
<1>3. ASSUME NEW i \in DOMAIN judged, c \in DOMAIN judged[i].claims
      PROVE  /\ c \in order.mapped /\ judged[i].by \in Verifying
             /\ judged[i].claims[c] = IF judged[i].passed THEN "PROVEN" ELSE "FAILED"
             /\ judged[i].passed \/ Reworked
  <2>1. judged[i] \in Opinions
    BY DEF TInv, Opined
  <2>2. judged[i].claims = [d \in order.mapped |-> IF judged[i].passed THEN "PROVEN" ELSE "FAILED"]
        /\ judged[i].by \in Verifying
    BY <1>3, <2>1, OpinionForms
  <2> QED
    BY <1>3, <2>2 DEF TInv, Revised
<1> HIDE DEF said, L
<1>4. CASE said = {}
  <2>1. L = "NOT_PROVEN"
    BY <1>2, <1>4
  <2> QED
    BY <2>1 DEF CriterionStatus, L
<1>5. CASE said # {}
  <2>1. LastOf(said) \in said
    BY <1>1, <1>5, OneIsLast DEF TInv
  <2> DEFINE i == LastOf(said)
  <2>2. i \in DOMAIN judged /\ c \in DOMAIN judged[i].claims /\ L = judged[i].claims[c]
    BY <1>1, <1>2, <1>5, <2>1
  <2> HIDE DEF i
  <2>3. /\ c \in order.mapped /\ judged[i].by \in Verifying
        /\ L = IF judged[i].passed THEN "PROVEN" ELSE "FAILED"
        /\ judged[i].passed \/ Reworked
    BY <1>3, <2>2
  <2>4. CriterionStatus(n, c, judged, RequiredOf(order, n)) \in {L, "NOT_PROVEN"}
    BY DEF CriterionStatus, L
  <2> QED
    BY <2>2, <2>3, <2>4
<1> QED
  BY <1>4, <1>5

\* A verifier that passed claims all it is mapped to.
LEMMA PassClaims ==
  ASSUME TInv, NEW n \in Verifying, state[n] = "passed", NEW c \in order.mapped
  PROVE  CriterionStatus(n, c, judged, RequiredOf(order, n)) = "PROVEN"
<1>1. n \in NodeIds
  BY Names
<1>2. PICK k \in DOMAIN judged : judged[k].by = n
  BY <1>1 DEF TInv, Backed
<1>3. \A i \in DOMAIN judged : judged[i] \in Opinions
  BY DEF TInv, Opined
<1>4. ClaimsOn(n, c, judged) = {}
  BY <1>3, OpinionForms DEF ClaimsOn
<1>5. ASSUME NEW i \in DOMAIN judged, judged[i].by = n
      PROVE  c \in DOMAIN judged[i].claims /\ judged[i].claims[c] = "PROVEN"
  <2>1. judged[i].passed \in BOOLEAN /\ state[n] = Fate(judged[i].passed)
    BY <1>3, <1>5, OpinionForms DEF TInv, Agreed
  <2>2. judged[i].passed
    BY <2>1 DEF Fate
  <2>3. judged[i].claims = [d \in order.mapped |-> IF judged[i].passed THEN "PROVEN" ELSE "FAILED"]
    BY <1>3, <1>5, OpinionForms, Names
  <2> QED
    BY <2>2, <2>3
<1> DEFINE S == ClaimsBy(n, c, judged)
<1>6. S \in SUBSET DOMAIN judged /\ k \in S /\ \A i \in S : judged[i].by = n
  BY <1>2, <1>5 DEF ClaimsBy
<1> HIDE DEF S
<1>7. LastOf(S) \in S
  BY <1>6, OneIsLast DEF TInv
<1>8. judged[LastOf(S)].claims[c] = "PROVEN"
  BY <1>5, <1>6, <1>7
<1>9. LastClaim(n, c, judged) = "PROVEN"
  BY <1>4, <1>6, <1>8 DEF LastClaim, S
<1> QED
  BY <1>9 DEF CriterionStatus, RequiredOf

\* The weightiest of some states is one of them.
LEMMA WeightiestIs ==
  ASSUME NEW S \in SUBSET {"NOT_PROVEN", "PROVEN", "FAILED"}, S # {}
  PROVE  /\ Weightiest(S) \in S
         /\ "PROVEN" \in S => Weightiest(S) # "NOT_PROVEN"
<1>1. Weight("NOT_PROVEN") = 1 /\ Weight("PROVEN") = 2 /\ Weight("FAILED") = 3
  BY DEF Weight
<1>2. \E s \in S : \A t \in S : Weight(t) <= Weight(s)
  <2>1. \A t \in S : t = "NOT_PROVEN" \/ t = "PROVEN" \/ t = "FAILED"
    OBVIOUS
  <2>2. CASE "FAILED" \in S
    <3>1. \A t \in S : Weight(t) <= Weight("FAILED")
      BY <1>1, <2>1
    <3> QED
      BY <2>2, <3>1
  <2>3. CASE "FAILED" \notin S /\ "PROVEN" \in S
    <3>1. \A t \in S : Weight(t) <= Weight("PROVEN")
      BY <1>1, <2>1, <2>3
    <3> QED
      BY <2>3, <3>1
  <2>4. CASE "FAILED" \notin S /\ "PROVEN" \notin S
    <3>1. \A t \in S : Weight(t) = 1
      BY <1>1, <2>1, <2>4
    <3>2. \A s, t \in S : Weight(t) <= Weight(s)
      BY <1>1, <3>1
    <3> QED
      BY <3>2
  <2> QED
    BY <2>2, <2>3, <2>4
<1>3. Weightiest(S) \in S /\ \A t \in S : Weight(t) <= Weight(Weightiest(S))
  BY <1>2 DEF Weightiest
<1> QED
  BY <1>1, <1>3

\* What is shown of a criterion
LEMMA ShownIs ==
  ASSUME HInv, TInv, log = "published", NEW c
  PROVE  /\ Shown(c) \in {"NOT_PROVEN", "PROVEN", "FAILED"}
         /\ \E n \in Present :
              n \in NodeIds /\ Shown(c) = CriterionStatus(n, c, judged, RequiredOf(order, n))
         /\ \A n \in Present \cap Verifying :
              state[n] = "passed" /\ c \in order.mapped => Shown(c) # "NOT_PROVEN"
<1>1. Present # {} /\ \A n \in Present : n \in NodeIds
  <2>1. NodesOf(order) # {}
    BY Names DEF NodesOf, Implements, Profile
  <2> QED
    BY <2>1 DEF TInv, Whole, Present
<1> DEFINE S == Declared(c)
<1>2. \A s \in S : \E n \in Present : s = CriterionStatus(n, c, judged, RequiredOf(order, n))
  BY DEF Declared
<1>3. \A n \in Present : CriterionStatus(n, c, judged, RequiredOf(order, n)) \in S
  BY DEF Declared
<1>4. Shown(c) = Weightiest(S)
  BY DEF Shown
<1> HIDE DEF S
<1>5. S \in SUBSET {"NOT_PROVEN", "PROVEN", "FAILED"} /\ S # {}
  BY <1>1, <1>2, <1>3, Claims
<1>6. Shown(c) \in S /\ ("PROVEN" \in S => Shown(c) # "NOT_PROVEN")
  BY <1>4, <1>5, WeightiestIs
<1>7. \A n \in Present \cap Verifying : state[n] = "passed" /\ c \in order.mapped => "PROVEN" \in S
  BY <1>3, PassClaims
<1> QED
  BY <1>1, <1>2, <1>5, <1>6, <1>7

\* Who asks stays the same.
LEMMA OrderStays == [HNext]_hvars => UNCHANGED order
BY DEF HNext, hvars, CreateRun, PublishGraph, StoreSpec, StorePlan, StoreCommands, StoreFile,
       AdvanceWave, IdleWave, Settle, LeaveLoop, ShellDies, ResumeRun, RunAgain, AttemptEnds,
       VerifierUnarmed, VerifierTimesOut, VerifierPasses, VerifierRevises, RevisionRefused,
       WaveMoves

\* What is shown PROVEN is mapped to the command, and it has passed.
LEMMA ProvenIsProven ==
  ASSUME HInv, TInv, log = "published", NEW c, Shown(c) = "PROVEN"
  PROVE  /\ c \in order.mapped
         /\ \E i \in DOMAIN judged : judged[i].by \in Verifying /\ judged[i].passed
<1>1. PICK n \in NodeIds : CriterionStatus(n, c, judged, RequiredOf(order, n)) = "PROVEN"
  BY ShownIs
<1> QED
  BY <1>1, Claims

\* Of a run that succeeds, every mapped criterion is shown proven.
LEMMA SuccessProves ==
  ASSUME HInv, TInv, ended = "succeeded", Implements(order), NEW c \in order.mapped
  PROVE  Shown(c) = "PROVEN" \/ (Reworked /\ Shown(c) = "FAILED")
<1>1. log = "published"
  BY DEF TInv, Concluded
<1>2. \E n \in Present \cap Verifying : state[n] = "passed"
  <2>1. CASE Reworked
    <3>1. "v1:rework:1" \in Present
      BY <2>1, Names DEF TInv, Revised, Present
    <3>2. "v1:rework:1" \in Standing /\ "v1:rework:1" \in Verifying
      BY <2>1, <3>1, Names DEF Standing
    <3> QED
      BY <3>1, <3>2 DEF TInv, Concluded
  <2>2. CASE ~Reworked
    <3>1. "v1" \in NodesOf(order)
      BY DEF NodesOf
    <3>2. "v1" \in Present /\ "v1" \in Standing /\ "v1" \in Verifying
      BY <1>1, <2>2, <3>1, Names DEF TInv, Whole, Standing
    <3> QED
      BY <3>2 DEF TInv, Concluded
  <2> QED
    BY <2>1, <2>2
<1>3. Shown(c) # "NOT_PROVEN"
  BY <1>1, <1>2, ShownIs
<1>4. PICK n \in NodeIds : Shown(c) = CriterionStatus(n, c, judged, RequiredOf(order, n))
  BY <1>1, ShownIs
<1>5. Shown(c) = "FAILED" => Reworked
  BY <1>4, Claims
<1> QED
  BY <1>1, <1>3, <1>5, ShownIs

\* Without a rework, the requirements are shown as what the command covers.
LEMMA SuccessMeetsRequirements ==
  ASSUME HInv, TInv, ended = "succeeded", Implements(order), ~Reworked,
         order.mapped \subseteq order.criteria
  PROVE  RequirementsStatus({Shown(c) : c \in order.criteria})
           = IF order.criteria = {} THEN "not_declared"
             ELSE IF order.mapped = order.criteria THEN "proven" ELSE "not_proven"
<1>1. log = "published"
  BY DEF TInv, Concluded
<1>2. \A c \in order.mapped : Shown(c) = "PROVEN"
  BY SuccessProves
<1>3. ASSUME NEW c, c \notin order.mapped PROVE Shown(c) = "NOT_PROVEN"
  <2>1. PICK n \in NodeIds : Shown(c) = CriterionStatus(n, c, judged, RequiredOf(order, n))
    BY <1>1, ShownIs
  <2> QED
    BY <1>3, <2>1, Claims
<1> DEFINE R == {Shown(c) : c \in order.criteria}
<1>4. /\ R = {} <=> order.criteria = {}
      /\ "FAILED" \notin R
      /\ R \subseteq {"PROVEN", "NOT_APPLICABLE"} <=> order.criteria \subseteq order.mapped
  BY <1>2, <1>3
<1> HIDE DEF R
<1>5. RequirementsStatus(R)
        = IF order.criteria = {} THEN "not_declared"
          ELSE IF order.mapped = order.criteria THEN "proven" ELSE "not_proven"
  BY <1>4 DEF RequirementsStatus
<1> QED
  BY <1>5 DEF R

\* And every team is shown as done.
LEMMA SuccessCompletesTeams ==
  ASSUME HInv, TInv, ended = "succeeded", ~Reworked, NEW t \in Teams
  PROVE  ShownTeam(t) \in {"complete", "omitted"}
<1>1. \A n \in Present : state[n] = "passed"
  BY DEF TInv, Concluded, Standing
<1> DEFINE own == {n \in Present : TeamOf(n) = t}
           states == {state[n] : n \in own}
<1>2. states = {} \/ states = {"passed"}
  BY <1>1
<1>3. ~\E n \in own : HeldBack(n)
  BY <1>1 DEF HeldBack
<1>4. ShownTeam(t) = TeamStatus(states, \E n \in own : HeldBack(n), \E n \in own : CanStart(n))
  BY DEF ShownTeam
<1>5. states \cap BlockedStates = {}
  BY <1>2 DEF BlockedStates
<1> HIDE DEF own, states
<1>6. TeamStatus(states, \E n \in own : HeldBack(n), \E n \in own : CanStart(n)) \in {"complete", "omitted"}
  BY <1>2, <1>3, <1>5 DEF TeamStatus
<1> QED
  BY <1>4, <1>6

\* The verdict shown of a node is the one its state comes from.
LEMMA VerdictsTell ==
  ASSUME HInv, TInv, NEW n \in Present \ Verifying
  PROVE  /\ ShownVerification(n) = "pass" <=> state[n] = "passed"
         /\ ShownVerification(n) = "revise" => state[n] = "failed" /\ (Reworked \/ gated)
         /\ ShownVerification(n) = "pending" <=> state[n] = "awaiting_verification"
<1>1. n \in NodeIds
  BY DEF Present
<1> DEFINE S == VerdictsOn(n, judged)
<1>2. S \in SUBSET DOMAIN judged /\ \A i \in S : n \in judged[i].targets
  BY DEF VerdictsOn
<1>3. S # {} => LastOf(S) \in S
  <2> HIDE DEF S
  <2> QED
    BY <1>2, OneIsLast DEF TInv
<1>4. state[n] = "passed" => S # {}
  <2> SUFFICES ASSUME state[n] = "passed" PROVE S # {}
    OBVIOUS
  <2>1. PICK i \in DOMAIN judged : n = judged[i].by \/ n \in judged[i].targets
    BY <1>1 DEF TInv, Backed
  <2>2. judged[i] \in Opinions
    BY DEF TInv, Opined
  <2>3. n \in judged[i].targets
    BY <2>1, <2>2, OpinionForms
  <2> QED
    BY <2>3 DEF VerdictsOn
<1>5. LastVerdict(n, judged)
        = IF S = {} THEN "none" ELSE IF judged[LastOf(S)].passed THEN "pass" ELSE "revise"
  BY DEF LastVerdict
<1>6. ShownVerification(n)
        = IF LastVerdict(n, judged) # "none" THEN LastVerdict(n, judged)
          ELSE IF state[n] = "awaiting_verification" THEN "pending"
          ELSE IF n \notin Verifying \cup Built THEN "not_required" ELSE "not_started"
  BY DEF ShownVerification, VerificationOf
<1> HIDE DEF S
<1>7. CASE S = {}
  BY <1>4, <1>5, <1>6, <1>7
<1>8. CASE S # {}
  <2> DEFINE i == LastOf(S)
  <2>1. i \in DOMAIN judged /\ n \in judged[i].targets
    BY <1>2, <1>3, <1>8
  <2>2. LastVerdict(n, judged) = IF judged[i].passed THEN "pass" ELSE "revise"
    BY <1>5, <1>8
  <2> HIDE DEF i
  <2>3. state[n] = Fate(judged[i].passed) /\ (judged[i].passed \/ Reworked)
    BY <2>1 DEF TInv, Agreed, Revised
  <2>4. CASE judged[i].passed
    BY <1>6, <2>2, <2>3, <2>4 DEF Fate
  <2>5. CASE ~judged[i].passed
    BY <1>6, <2>2, <2>3, <2>5 DEF Fate
  <2> QED
    BY <2>4, <2>5
<1> QED
  BY <1>7, <1>8

\* The run is shown as it stands.
LEMMA RunTells ==
  ASSUME HInv, TInv
  PROVE  /\ ShownRun = "waiting_approval" <=> gated
         /\ shell = "gone" /\ kills = 0 /\ state["v1"] # "awaiting_verification"
              => ShownRun # "running"
<1> DEFINE states == {state[n] : n \in Present}
<1>1. StandsStill => "outcome_unknown" \in states \/ "blocked" \in states \/ "failed" \in states
  BY DEF StandsStill
<1>2. ShownRun = RunStatus(ended, gated, states)
  BY DEF ShownRun
<1> HIDE DEF states
<1>3. /\ ended \in {"none", "succeeded", "failed", "blocked"} /\ (ended # "none" => ~gated)
      /\ shell = "gone" /\ kills = 0 /\ state["v1"] # "awaiting_verification"
           => ended # "none" \/ gated \/ StandsStill
  BY DEF TInv, Concluded, Left
<1> QED
  BY <1>1, <1>2, <1>3 DEF RunStatus

\* What `graphori run' and `graphori status' show agrees with what was run: a
\* criterion is PROVEN only by a command that passed, a run that succeeded shows
\* all that was mapped as proven and its teams as done, a node shows the verdict
\* its state comes from, and a run nobody works on is not shown as running unless
\* its process died or a verdict was refused (projection.py; product_cli.py,
\* execute_product; execution_engine.py, _settle).
THEOREM SuccessIsAlwaysProven == HSpec => []SuccessIsProven
<1>1. HInv /\ TInv /\ order \in Orders => SuccessIsProven
  <2> SUFFICES ASSUME HInv, TInv, order \in Orders PROVE SuccessIsProven
    OBVIOUS
  <2>1. order.mapped \subseteq order.criteria
    BY ProductAssumption
  <2>2. log = "published" => \A c \in order.criteria : Shown(c) = "PROVEN" =>
          /\ c \in order.mapped
          /\ \E i \in DOMAIN judged : judged[i].by \in Verifying /\ judged[i].passed
    BY ProvenIsProven
  <2>3. ended = "succeeded" /\ Implements(order) =>
          /\ \A c \in order.mapped : Shown(c) = "PROVEN" \/ (Reworked /\ Shown(c) = "FAILED")
          /\ ~Reworked =>
               /\ RequirementsStatus({Shown(c) : c \in order.criteria})
                    = IF order.criteria = {} THEN "not_declared"
                      ELSE IF order.mapped = order.criteria THEN "proven" ELSE "not_proven"
               /\ \A t \in Teams : ShownTeam(t) \in {"complete", "omitted"}
    BY <2>1, SuccessProves, SuccessMeetsRequirements, SuccessCompletesTeams
  <2>4. \A n \in Present \ Verifying :
          /\ ShownVerification(n) = "pass" <=> state[n] = "passed"
          /\ ShownVerification(n) = "revise" => state[n] = "failed" /\ (Reworked \/ gated)
          /\ ShownVerification(n) = "pending" <=> state[n] = "awaiting_verification"
    BY VerdictsTell
  <2> QED
    BY <2>2, <2>3, <2>4, RunTells DEF SuccessIsProven
<1>2. HInit => order \in Orders
  BY DEF HInit
<1>3. order \in Orders /\ [HNext]_hvars => (order \in Orders)'
  BY OrderStays
<1> QED
  BY <1>1, <1>2, <1>3, InitH, HStep, InitT, TStep, PTL DEF HSpec
-----------------------------------------------------------------------------
(* Types, for any orders and bounds.                                       *)

Shells == {"new", "publishing", "storing spec", "storing plan", "storing commands", "gone"}
          \cup Looping

\* The types of what the invariants of a product run leave open.
Ranges ==
  /\ order \in Orders /\ bounded \in BOOLEAN /\ gated \in BOOLEAN
  /\ shell \in Shells /\ log \in {"empty", "created", "published"}
  /\ armed \subseteq Verifying /\ retried \subseteq NodeIds
  /\ kills \in 0..MaxKills /\ reruns \in 0..MaxReruns
HTypes == HInv /\ TInv /\ Ranges

\* The types hold at the start.
LEMMA HTypesInit == HInit => HTypes
<1> SUFFICES ASSUME HInit PROVE HTypes
  OBVIOUS
<1>1. kills \in 0..MaxKills /\ reruns \in 0..MaxReruns
  BY ProductAssumption DEF HInit
<1>2. Ranges
  BY <1>1 DEF HInit, Ranges, Shells
<1> QED
  BY <1>2, InitH, InitT DEF HTypes

\* The end of an attempt keeps the ranges.
LEMMA RangesOfWave ==
  ASSUME Ranges, WaveMoves, NEW n \in NodeIds, retried' \in {retried, retried \cup {n}},
         gated' \in BOOLEAN
  PROVE  Ranges'
BY DEF Ranges, WaveMoves, Shells, Looping

\* Every step keeps the types.
LEMMA HTypesStep == HTypes /\ [HNext]_hvars => HTypes'
<1> SUFFICES ASSUME HTypes, [HNext]_hvars PROVE Ranges'
  BY HStep, TStep DEF HTypes
<1> USE DEF HTypes
<1>1. CASE UNCHANGED hvars
  BY <1>1 DEF hvars, journaled, Ranges
<1>2. CASE CreateRun \/ PublishGraph
  BY <1>2 DEF CreateRun, PublishGraph, CommandsOf, Ranges, Shells, journaled
<1>3. CASE StoreSpec \/ StorePlan \/ StoreCommands
  BY <1>3 DEF StoreSpec, StorePlan, StoreCommands, StoreFile, Ranges, Shells, Looping, journaled
<1>4. CASE AdvanceWave \/ IdleWave \/ Settle \/ LeaveLoop
  BY <1>4 DEF AdvanceWave, IdleWave, Settle, LeaveLoop, Ranges, Shells, Looping, journaled
<1>5. CASE ShellDies
  <2>1. kills' \in 0..MaxKills
    BY <1>5, ProductAssumption DEF ShellDies, Ranges
  <2> QED
    BY <1>5, <2>1 DEF ShellDies, Ranges, Shells, journaled
<1>6. CASE ResumeRun
  BY <1>6 DEF ResumeRun, CommandsOf, Ranges, Shells, Looping
<1>7. CASE RunAgain
  <2>1. reruns' \in 0..MaxReruns
    <3>1. reruns' = reruns + 1 /\ reruns < MaxReruns
      BY <1>7 DEF RunAgain
    <3> QED
      BY <3>1, ProductAssumption DEF Ranges
  <2> QED
    BY <1>7, <2>1 DEF RunAgain, CommandsOf, Ranges, Shells
<1>8. ASSUME NEW n \in NodeIds, NEW ending \in Endings, AttemptEnds(n, ending) PROVE Ranges'
  <2>1. retried' \in {retried, retried \cup {n}} /\ gated' = gated /\ WaveMoves
    BY <1>8 DEF AttemptEnds
  <2> QED
    BY <2>1, RangesOfWave DEF Ranges
<1>9. ASSUME NEW n \in NodeIds, VerifierUnarmed(n) \/ VerifierTimesOut(n) \/ VerifierPasses(n)
      PROVE  Ranges'
  <2>1. retried' \in {retried, retried \cup {n}} /\ gated' = gated /\ WaveMoves
    BY <1>9 DEF VerifierUnarmed, VerifierTimesOut, VerifierPasses
  <2> QED
    BY <2>1, RangesOfWave DEF Ranges
<1>10. ASSUME NEW n \in NodeIds, VerifierRevises(n) PROVE Ranges'
  <2>1. retried' = retried /\ gated' = Reworked /\ WaveMoves
    BY <1>10 DEF VerifierRevises
  <2>2. gated' \in BOOLEAN
    BY <2>1 DEF Reworked
  <2> QED
    BY <2>1, <2>2, RangesOfWave
<1>11. ASSUME NEW n \in NodeIds, RevisionRefused(n) PROVE Ranges'
  BY <1>11 DEF RevisionRefused, Ranges, Shells
<1> QED
  BY <1>1, <1>2, <1>3, <1>4, <1>5, <1>6, <1>7, <1>8, <1>9, <1>10, <1>11 DEF HNext

\* The types are those the run checks.
LEMMA HTypesAre == HTypes => HTypeOK
<1> SUFFICES ASSUME HTypes PROVE HTypeOK
  OBVIOUS
<1>1. Ranges /\ Shaped /\ Concluded /\ Opined
  BY DEF HTypes, HInv, TInv
<1>2. DOMAIN files = {"spec", "plan", "commands"}
  BY <1>1 DEF Shaped
<1>3. Shells = {"new", "publishing", "driving", "waiting", "settling", "settling last", "gone"}
               \cup {Storing(name) : name \in DOMAIN files}
  <2>1. /\ Storing("spec") = "storing spec"
        /\ Storing("plan") = "storing plan"
        /\ Storing("commands") = "storing commands"
    BY DEF Storing
  <2>2. {Storing(name) : name \in DOMAIN files}
          = {"storing spec", "storing plan", "storing commands"}
    <3> HIDE DEF Storing
    <3>1. {Storing(name) : name \in {"spec", "plan", "commands"}}
            = {Storing("spec"), Storing("plan"), Storing("commands")}
      OBVIOUS
    <3> QED
      BY <1>2, <2>1, <3>1
  <2> QED
    BY <2>2, Zenon DEF Shells, Looping
<1>4. \A i \in DOMAIN judged : judged[i].by \in NodeIds /\ judged[i].targets \subseteq NodeIds
  <2> SUFFICES ASSUME NEW i \in DOMAIN judged
               PROVE  judged[i].by \in NodeIds /\ judged[i].targets \subseteq NodeIds
    OBVIOUS
  <2>1. judged[i] \in Opinions
    BY <1>1 DEF Opined
  <2> QED
    BY <2>1, OpinionForms
<1> QED
  BY <1>1, <1>2, <1>3, <1>4 DEF HTypeOK, Ranges, Shaped, Concluded, Present, NodeStates, FileStates
=============================================================================
