-------------------------------- MODULE Sprout --------------------------------
(***************************************************************************)
(* The proof frontier (graphori_core/sprout.py): which nodes to run for    *)
(* the proofs an artifact lacks, whether piloting them pays, and when a    *)
(* plan may grow.  A grown plan is a RunPlan and has to pass its           *)
(* validation (graphori_core/run_plan.py).                                 *)
(*                                                                         *)
(* A scope is the set of places below it, so that two paths overlap if one *)
(* is the other or lies below it.  A digest is what it was computed from.  *)
(* The caller routes, runs what it was given, records results, has them    *)
(* journaled and trusted, and expands, in any order the calls allow.       *)
(***************************************************************************)
EXTENDS Integers, FiniteSets, Sequences, FiniteSetsExt

CONSTANTS Obligations,   \* proofs the artifact declares
          NodeOf,        \* [Ids -> NodeSpec]: the nodes there are
          BasePlan,      \* ids of the committed plan
          Offers,        \* the sets of candidates a caller may offer
          Settings,      \* its choices of budget, lanes, target count and static route
          MaxCandidates, \* ProofFrontier.max_candidates
          MaxInput,      \* max_candidates * 8
          MaxBranches,   \* ProofFrontier.max_branch_budget
          MinGain, MinGainPercent, Overhead,  \* of route_if_profitable
          MaxRounds      \* bound on routing calls

Ids == DOMAIN NodeOf

ASSUME SproutAssumption ==
  /\ Ids \subseteq Nat
  /\ \A n \in Ids : NodeOf[n].cost \in Nat
  /\ BasePlan \subseteq Ids
  /\ \A k \in {MaxCandidates, MaxBranches, MaxRounds} : k \in Nat \ {0}
  /\ MaxInput \in Nat /\ MaxInput >= MaxCandidates
  /\ Offers \subseteq SUBSET Ids /\ \A o \in Offers : IsFiniteSet(o)
  /\ Settings \subseteq [budget : Nat \ {0}, wip : Nat \ {0}, targets : Nat \ {0},
                          static : SUBSET Ids]
  /\ \A k \in {MinGain, MinGainPercent, Overhead} : k \in Nat

VARIABLES
  artifact,  \* ProofCarryingArtifact: results, journal_ref, claims
  offered,   \* candidates of the calls
  setting,   \* branch_budget, max_wip, target_count and static_nodes
  decision,  \* the last GrowthDecision
  trusted,   \* trusted_artifact_digests
  plan,      \* the node ids and the version of the RunPlan
  grown,     \* history: the artifacts whose authority let it grow
  rounds     \* bound

gvars == <<artifact, offered, setting, decision, trusted, plan, grown, rounds>>

States == {"open", "passed", "failed", "unknown"}
InState(a, s) == {o \in Obligations : a.results[o] = s}
Qualified(a) == Obligations # {} /\ InState(a, "passed") = Obligations

-----------------------------------------------------------------------------
(* Schedules.                                                              *)

\* _wave_latency: every node several times, the costliest first, each time on
\* the least loaded lane
Cheapest(nodes) == CHOOSE n \in nodes : \A m \in nodes : NodeOf[n].cost <= NodeOf[m].cost
Lightest(load)  == CHOOSE l \in DOMAIN load : \A m \in DOMAIN load : load[l] <= load[m]

Place(n, repetitions, load) ==
  LET after[k \in 0..repetitions] ==
        IF k = 0 THEN load
        ELSE LET before == after[k - 1]
             IN  [before EXCEPT ![Lightest(before)] = @ + NodeOf[n].cost]
  IN  after[repetitions]

WaveLatency(nodes, repetitions, lanes) ==
  LET Itself(n) == n
      PlaceAll(n, load) == Place(n, repetitions, load)
      loads == MapThenFoldSet(PlaceAll, [l \in 1..lanes |-> 0], Itself, Cheapest, nodes)
  IN  Max({loads[l] : l \in 1..lanes})

Meet(s, t) == s \cap t # {}
ScopeConflict(m, n) ==
  \/ Meet(NodeOf[m].writes, NodeOf[n].writes)
  \/ Meet(NodeOf[m].writes, NodeOf[n].reads)
  \/ Meet(NodeOf[m].reads, NodeOf[n].writes)

\* nodes that can all run in one wave
Combinable(nodes) ==
  /\ \A n \in nodes : NodeOf[n].deps = {}
  /\ \A m, n \in nodes : m # n => ~ScopeConflict(m, n)

Closes(nodes) == UNION {NodeOf[n].closes : n \in nodes}
TotalCost(nodes) == MapThenSumSet(LAMBDA n : NodeOf[n].cost, nodes)

-----------------------------------------------------------------------------
(* route.                                                                  *)

\* failed proofs are retried before open ones are attempted
Targets(a) == IF InState(a, "failed") # {} THEN InState(a, "failed") ELSE InState(a, "open")

Relevant(targets, nodes) == {n \in nodes : Meet(NodeOf[n].closes, targets)}

Dominates(m, n, targets) ==
  /\ m # n
  /\ NodeOf[n].closes \cap targets \subseteq NodeOf[m].closes
  /\ \/ NodeOf[n].cost > NodeOf[m].cost
     \/ NodeOf[n].cost = NodeOf[m].cost /\ m < n

\* _relevant_candidates
Undominated(targets, nodes) ==
  LET relevant == Relevant(targets, nodes)
  IN  {n \in relevant : \A m \in relevant : ~Dominates(m, n, targets)}

Covers(targets, nodes, budget) ==
  {s \in SUBSET nodes : /\ Cardinality(s) \in 1..budget
                        /\ Combinable(s)
                        /\ targets \subseteq Closes(s)}

\* the key of _cover: latency, cost, size, and the ids in order
Precedes(s, t, wip) ==
  LET ls == WaveLatency(s, 1, wip)
      lt == WaveLatency(t, 1, wip)
      cs == TotalCost(s)
      ct == TotalCost(t)
      Differ == (s \ t) \cup (t \ s)
  IN  \/ ls < lt
      \/ ls = lt /\ cs < ct
      \/ ls = lt /\ cs = ct /\ Cardinality(s) < Cardinality(t)
      \/ /\ ls = lt /\ cs = ct /\ Cardinality(s) = Cardinality(t)
         /\ \E n \in s \ t : \A m \in Differ : n <= m

Best(covers, wip) == CHOOSE s \in covers : \A t \in covers \ {s} : Precedes(s, t, wip)

Decided(action, nodes, targets, reason) ==
  [action |-> action, nodes |-> nodes, targets |-> targets, reason |-> reason]

Route(a, nodes, budget, wip) ==
  LET targets == Targets(a)
      kept    == Undominated(targets, nodes)
      covers  == Covers(targets, kept, budget)
      Escalated(reason) == Decided("escalate", {}, targets, reason)
  IN  IF InState(a, "unknown") # {}
      THEN Decided("escalate", {}, InState(a, "unknown"), "unknown_proof")
      ELSE IF targets = {} THEN Decided("stop", {}, {}, "proofs_closed")
      ELSE IF Cardinality(Relevant(targets, nodes)) > MaxInput
      THEN Escalated("candidate_input_exceeded")
      ELSE IF Cardinality(kept) > MaxCandidates \/ budget > MaxBranches
      THEN Escalated("search_budget_exceeded")
      ELSE IF covers = {} THEN Escalated("no_candidate_cover")
      ELSE Decided(IF InState(a, "failed") # {} THEN "retry" ELSE "spawn",
                   Best(covers, wip), targets, "lowest_latency_proof_cover")

-----------------------------------------------------------------------------
(* Whether a pilot pays: one target first, then all of them, against the   *)
(* static nodes for all of them at once.                                   *)

StaticLatency(s) == WaveLatency(s.static, s.targets, s.wip)
PilotLatency(nodes, s) ==
  WaveLatency(nodes, 1, s.wip) + WaveLatency(nodes, s.targets, s.wip) + Overhead
Threshold(s) ==
  LET relative == (StaticLatency(s) * MinGainPercent) \div 100
  IN  IF relative > MinGain THEN relative ELSE MinGain
Profitable(nodes, s) == StaticLatency(s) > PilotLatency(nodes, s) + Threshold(s)

Written(nodes) == \E n \in nodes : NodeOf[n].writes # {}
UseStatic(d, s, reason) == Decided("use_static", s.static, d.targets, reason)
SearchFailed == {"no_candidate_cover", "search_budget_exceeded", "candidate_input_exceeded"}

\* route_if_profitable, given what route decided
RouteIfProfitable(d, s) ==
  LET covered == d.targets \subseteq Closes(s.static)
  IN  IF d.action # "spawn"
      THEN IF d.reason \in SearchFailed /\ covered
           THEN UseStatic(d, s, "pilot_schedule_uncertain") ELSE d
      ELSE IF ~covered THEN Decided("escalate", {}, d.targets, "static_route_incomplete")
      ELSE IF (s.targets > 1 /\ Written(d.nodes)) \/ ~Combinable(d.nodes)
      THEN UseStatic(d, s, "pilot_schedule_uncertain")
      ELSE IF ~Profitable(d.nodes, s) THEN UseStatic(d, s, "pilot_not_profitable")
      ELSE d

\* _plan_with_shadow: the first reason not to activate what route proposes
Reservations(a, d, s, independent) ==
  LET required == Targets(a)
      selected == IF d.action = "spawn" THEN d.nodes ELSE {}
      static   == Closes(s.static) \cap required
      Sessions(nodes) == Cardinality({n \in nodes : NodeOf[n].ai})
  IN  << <<"planning_uncertain", independent = "unknown">>,
         <<"target_count_below_four", s.targets < 4>>,
         <<"targets_not_independent", independent = "no">>,
         <<d.reason, d.action # "spawn">>,
         <<"pilot_schedule_uncertain", ~Combinable(selected) \/ Written(selected)>>,
         <<"proof_coverage_reduced",
           ~(required \subseteq static /\ static \subseteq Closes(selected))>>,
         <<"ai_session_count_increased",
           Sessions(selected) * (s.targets + 1) > Sessions(s.static) * s.targets>>,
         <<"pilot_not_profitable", ~Profitable(selected, s)>> >>

PlanConditionally(a, d, s, independent) ==
  LET all  == Reservations(a, d, s, independent)
      held == {i \in DOMAIN all : all[i][2]}
  IN  IF held = {} THEN d
      ELSE Decided("use_static", s.static, Targets(a), all[Min(held)][1])

-----------------------------------------------------------------------------
(* Authority, and the plans RunPlan accepts.                               *)

AuthorizedUntrusted(authority, a, irreversible) ==  \* mutation: any journaled artifact will do
  a.journaled /\ a.claimed /\ Qualified(a) /\ ~(authority = "commit" /\ irreversible)

Authorized(authority, a, irreversible) ==
  /\ a.journaled
  /\ a \in trusted
  /\ a.claimed
  /\ Qualified(a)
  /\ ~(authority = "commit" /\ irreversible)

DepProofs(n) == Closes(NodeOf[n].deps)

\* RunPlan.__post_init__ under a proof policy
ValidPlan(nodes) ==
  /\ \A n \in nodes : NodeOf[n].deps \subseteq nodes
  /\ \A m, n \in nodes : m # n => ~Meet(NodeOf[m].closes, NodeOf[n].closes)
  /\ \A n \in nodes : NodeOf[n].requires \subseteq Closes(nodes)
  /\ \A n \in nodes : Cardinality(NodeOf[n].deps) > 1 =>
       /\ \A m \in NodeOf[n].deps : NodeOf[m].closes # {}
       /\ DepProofs(n) \subseteq NodeOf[n].requires
  /\ \A n \in nodes : NodeOf[n].external =>
       /\ DepProofs(n) # {} /\ DepProofs(n) \subseteq NodeOf[n].requires
       /\ NodeOf[n].reversible
  /\ \A s \in (SUBSET nodes) \ {{}} : \E n \in s : NodeOf[n].deps \cap s = {}

-----------------------------------------------------------------------------
Blank == [o \in Obligations |-> "open"]
Undecided == Decided("none", {}, {}, "")

GInit ==
  /\ artifact = [results |-> Blank, journaled |-> FALSE, claimed |-> TRUE]
  /\ offered \in Offers
  /\ setting \in Settings
  /\ decision = Undecided
  /\ trusted = {}
  /\ plan = [nodes |-> BasePlan, version |-> 1]
  /\ grown = {}
  /\ rounds = 0

\* one of the three planning calls
Plan ==
  /\ rounds < MaxRounds /\ rounds' = rounds + 1
  /\ LET d == Route(artifact, offered, setting.budget, setting.wip) IN
       \/ decision' \in {d, RouteIfProfitable(d, setting)}
       \/ \E independent \in {"yes", "no", "unknown"} :
            decision' = PlanConditionally(artifact, d, setting, independent)
  /\ UNCHANGED <<artifact, offered, setting, trusted, plan, grown>>

\* what was run for a target ends with a result: an artifact with a new digest
Record(o) ==
  /\ decision.action \in {"spawn", "retry", "use_static"} /\ o \in decision.targets
  /\ artifact.results[o] \in {"open", "failed"}
  /\ \E s \in States \ {"open"} : artifact' = [artifact EXCEPT !.results[o] = s]
  /\ decision' = [decision EXCEPT !.targets = @ \ {o}]
  /\ UNCHANGED <<offered, setting, trusted, plan, grown, rounds>>

\* the artifact is written down, with its claims or without
Journal ==
  /\ ~artifact.journaled
  /\ \E c \in BOOLEAN : artifact' = [artifact EXCEPT !.journaled = TRUE, !.claimed = c]
  /\ UNCHANGED <<offered, setting, decision, trusted, plan, grown, rounds>>

Trust ==
  /\ trusted = {}
  /\ trusted' = {artifact}
  /\ UNCHANGED <<artifact, offered, setting, decision, plan, grown, rounds>>

\* expand_plan; a refusal changes nothing
Expand(nodes) ==
  /\ Authorized("expand", artifact, FALSE)
  /\ nodes # {} /\ nodes \cap plan.nodes = {}
  /\ \A n \in nodes : NodeOf[n].closes # {}
  /\ ValidPlan(plan.nodes \cup nodes)
  /\ plan' = [nodes |-> plan.nodes \cup nodes, version |-> plan.version + 1]
  /\ grown' = grown \cup {artifact}
  /\ UNCHANGED <<artifact, offered, setting, decision, trusted, rounds>>

GNext ==
  \/ Plan \/ Journal \/ Trust
  \/ \E o \in Obligations : Record(o)
  \/ \E nodes \in SUBSET offered : Expand(nodes)

GSpec == GInit /\ [][GNext]_gvars

-----------------------------------------------------------------------------
(* Properties.                                                             *)

Artifacts == [results : [Obligations -> States], journaled : BOOLEAN, claimed : BOOLEAN]

Reasons ==
  {"", "unknown_proof", "proofs_closed", "lowest_latency_proof_cover", "static_route_incomplete",
   "pilot_schedule_uncertain", "pilot_not_profitable", "planning_uncertain",
   "target_count_below_four", "targets_not_independent", "proof_coverage_reduced",
   "ai_session_count_increased"} \cup SearchFailed

GTypeOK ==
  /\ artifact \in Artifacts /\ trusted \subseteq Artifacts
  /\ offered \in Offers /\ setting \in Settings
  /\ decision \in [action : {"none", "spawn", "retry", "use_static", "stop", "escalate"},
                   nodes : SUBSET Ids, targets : SUBSET Obligations, reason : Reasons]
  /\ plan \in [nodes : SUBSET Ids, version : Nat]
  /\ plan.version \in 1..Cardinality(plan.nodes \ BasePlan) + 1
  /\ rounds \in 0..MaxRounds

\* what may be started closes every target, and can run in one wave
Legal(d, targets) ==
  d.action \in {"spawn", "retry"} =>
    /\ d.nodes \subseteq offered /\ Cardinality(d.nodes) <= setting.budget
    /\ targets \subseteq Closes(d.nodes) /\ Combinable(d.nodes)
    /\ \A n \in d.nodes : Meet(NodeOf[n].closes, targets)
    /\ d.action = "retry" <=> InState(artifact, "failed") # {}
    /\ InState(artifact, "unknown") = {}

\* discarding dominated candidates loses nothing, provided that all the
\* candidates that matter could run together
Optimal(d, targets) ==
  Combinable(Relevant(targets, offered)) =>
    LET all == Covers(targets, offered, setting.budget) IN
    /\ d.action \in {"spawn", "retry"} =>
         \A s \in all : WaveLatency(d.nodes, 1, setting.wip) <= WaveLatency(s, 1, setting.wip)
    /\ d.reason = "no_candidate_cover" => all = {}

\* Whichever call plans, what it starts covers all proofs it is started for,
\* without conflicts and within the budget, and is the fastest such choice
\* although most candidates are discarded unseen; and a plan has only grown
\* under artifacts whose proofs had all passed, that were in the journal and
\* that had not changed since they were trusted.
GrowthIsSound ==
  /\ [][rounds' # rounds => /\ Legal(decision', Targets(artifact))
                            /\ Optimal(decision', Targets(artifact))]_gvars
  /\ [](\A a \in grown : Qualified(a) /\ a.journaled /\ a.claimed /\ a \in trusted)
=============================================================================
