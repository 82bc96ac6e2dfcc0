------------------------------- MODULE Routing -------------------------------
(***************************************************************************)
(* Model routing and premium approval (graphori_core/model_routing.py),    *)
(* with the parts of product.py that route a plan and the parts of         *)
(* execution_engine.py and projection.py that open a premium gate, resolve *)
(* it and run the route that is left.                                      *)
(*                                                                         *)
(* The plan has an implementation and, when asked for, a review by another *)
(* provider.  When the implementation is sent back its rework runs next,   *)
(* with the route the implementation had in the end.                       *)
(***************************************************************************)
EXTENDS Naturals, FiniteSets, Sequences

CONSTANTS
  Catalog,    \* the candidates: one record for each model and effort [provider,
              \* model, effort, premium, skills, score, wall, rank, place]; score
              \* and wall are 0 where no benchmark is bound, rank is the order of
              \* what breaks ties (cost, reliability, names), place that of the
              \* catalog
  Kinds,      \* task kinds tried for the first node
  Margin,     \* quality_equivalence_margin
  Blends,     \* availabilities tried: sets of models that are available
  Preferred   \* preferred_runtime_model_id values tried

\* _QUALITY_FLOORS and _CAPABILITIES, by task kind
Floor ==
  [routine |-> 42, research |-> 0, bounded_implementation |-> 48,
   general_implementation |-> 56, complex_implementation |-> 56, design |-> 56,
   verification |-> 56, critical_synthesis |-> 64]
Skills ==
  [routine |-> {"research", "coding"}, research |-> {"research"},
   bounded_implementation |-> {"coding"}, general_implementation |-> {"coding"},
   complex_implementation |-> {"coding"}, design |-> {"design"},
   verification |-> {"verification"}, critical_synthesis |-> {"design"}]

Models  == {c.model : c \in Catalog}
NoRoute == [provider |-> "none", model |-> "none", effort |-> 0, premium |-> FALSE]

ASSUME RoutingAssumption ==
  /\ IsFiniteSet(Catalog)
  /\ \A c \in Catalog : /\ {c.effort, c.score, c.wall, c.rank, c.place} \subseteq Nat
                       /\ c.premium \in BOOLEAN /\ c.provider # "none"
  /\ \A c, d \in Catalog : c.rank = d.rank \/ c.place = d.place => c = d
  /\ Blends \subseteq SUBSET Models
  /\ Kinds \subseteq DOMAIN Floor

RoutedNodes == {"implementation", "review", "rework"}

VARIABLES
  supply,    \* models that were discovered to be available
  ask,       \* what the implementation requires of its route
  routing,  \* [node -> RoutingDecision], its primary route and its first fallback
  gate,      \* [node -> state of its premium gate]
  envelope,  \* [node -> the PremiumApprovalEnvelope that approved it]
  route,     \* [node -> the route in the effective plan]
  ran        \* nodes that were launched

rvars == <<supply, ask, routing, gate, envelope, route, ran>>

NoRouting == [primary |-> NoRoute, fallback |-> NoRoute]
NoEnvelope == [node |-> "nobody"]

-----------------------------------------------------------------------------
(* Choosing a route.  f: TaskFeatures [kind, adapters, excluded, quality,   *)
(* preferred]; adapters and providers stand one for one.                    *)

Required(f) == Floor[f.kind] + (IF f.quality /\ f.kind # "critical_synthesis" THEN Margin ELSE 0)

Capable(f, c) ==
  /\ c.skills \cap Skills[f.kind] # {}
  /\ f.adapters = {} \/ c.provider \in f.adapters
  /\ c.provider # f.excluded

Supplied     == {c \in Catalog : c.model \in supply}
Available(f) == {c \in Supplied : Capable(f, c)}

\* benchmark_qualified, and the unscored ones where the task allows them or
\* where there is nothing else
QualifiedRoutes(f) ==
  LET scored  == {c \in Available(f) : c.score > 0 /\ c.score >= Required(f)}
      partial == {c \in Available(f) : c.score = 0}
      allowed == f.kind \in {"research", "design", "verification"}
  IN  IF allowed \/ scored = {} THEN scored \cup partial ELSE scored

\* _latency_key, _fallback_key and the order of `qualified': what is unknown
\* comes last
Before(s, t) == \E i \in DOMAIN s : s[i] < t[i] /\ \A j \in 1..(i - 1) : s[j] = t[j]
Late(c)      == IF c.wall = 0 THEN 1 ELSE 0
Unscored(c)  == IF c.score = 0 THEN 1 ELSE 0
Quicker(c, d)  == Before(<<Late(c), c.wall, c.rank>>, <<Late(d), d.wall, d.rank>>)
Stronger(c, d) == Before(<<d.score, Late(c), c.wall, c.rank>>, <<c.score, Late(d), d.wall, d.rank>>)
Earlier(c, d)  == Before(<<Unscored(c), c.place>>, <<Unscored(d), d.place>>)

Fastest(C)   == CHOOSE c \in C : \A d \in C \ {c} : Quicker(c, d)
Strongest(C) == CHOOSE c \in C : \A d \in C \ {c} : Stronger(c, d)
Earliest(C)  == CHOOSE c \in C : \A d \in C \ {c} : Earlier(c, d)

Normal(C) == {c \in C : ~c.premium}
PoolOfAll(f) == QualifiedRoutes(f)  \* mutation: normal models are not preferred to premium ones
Pool(f) == IF Normal(QualifiedRoutes(f)) # {} THEN Normal(QualifiedRoutes(f)) ELSE QualifiedRoutes(f)

\* CURRENT_ROUTE_WITHIN_HYSTERESIS: a preferred model keeps the work unless
\* the fastest route saves a tenth of its time
Hysteresis(f, primary) ==
  LET same == {c \in Pool(f) : c.model = f.preferred}
  IN  IF /\ same # {} /\ Earliest(same).wall > 0 /\ primary.wall > 0
         /\ 10 * primary.wall > 9 * Earliest(same).wall
      THEN Earliest(same) ELSE primary

Target(c) == [provider |-> c.provider, model |-> c.model, effort |-> c.effort, premium |-> c.premium]

\* a premium route falls back on any normal one first, the strongest first;
\* only the first fallback is published
Fallback(f, primary) ==
  LET cheap == Normal(Available(f))
      rest  == QualifiedRoutes(f) \ {primary}
  IN  IF primary.premium /\ cheap # {} THEN Target(Strongest(cheap))
      ELSE IF rest # {} THEN Target(Earliest(rest))
      ELSE NoRoute

\* ModelRouter.route, where some model qualifies (LookupError otherwise)
Routable(f) == QualifiedRoutes(f) # {}
Routed(f) ==
  LET primary == Hysteresis(f, Fastest(Pool(f)))
  IN  [primary |-> Target(primary), fallback |-> Fallback(f, primary)]

\* the features of the two nodes; the review excludes the provider that the
\* plan gave to the implementation
ForImplementation(a) ==
  [kind |-> a.kind, adapters |-> a.adapters, excluded |-> "none", quality |-> a.quality,
   preferred |-> a.preferred]
ForReview(a, provider) ==
  [kind |-> "verification", adapters |-> {}, excluded |-> provider, quality |-> a.quality,
   preferred |-> a.preferred]

-----------------------------------------------------------------------------
RInit ==
  /\ supply \in Blends
  /\ ask = [kind |-> "none"]
  /\ routing = [n \in RoutedNodes |-> NoRouting]
  /\ gate = [n \in RoutedNodes |-> "none"]
  /\ envelope = [n \in RoutedNodes |-> NoEnvelope]
  /\ route = [n \in RoutedNodes |-> NoRoute]
  /\ ran = {}

\* ProductPlanCompiler.compile and route_plan, with the gates that start opens
RoutePlan(a) ==
  /\ ask.kind = "none"
  /\ Routable(ForImplementation(a))
  /\ LET d == Routed(ForImplementation(a))
         r == ForReview(a, d.primary.provider)
         both == a.review /\ Cardinality({c.provider : c \in Supplied}) > 1
         made == [n \in RoutedNodes |-> CASE n = "implementation" -> d
                                    [] n = "review" /\ both -> Routed(r)
                                    [] OTHER -> NoRouting]
     IN  /\ both => Routable(r)
         /\ routing' = made
         /\ route' = [n \in RoutedNodes |-> made[n].primary]
         /\ gate' = [n \in RoutedNodes |-> IF made[n].primary.premium THEN "open" ELSE "none"]
  /\ ask' = a
  /\ UNCHANGED <<supply, envelope, ran>>

-----------------------------------------------------------------------------
(* resolve_premium_gate                                                    *)

EnvelopeFor(n, plan) == [node |-> n, provider |-> route[n].provider, model |-> route[n].model,
                         effort |-> route[n].effort, plan |-> plan]

\* PremiumApprovalEnvelope.covers, on a plan of version 1
EnvelopeCovers(e, n) ==
  /\ e.plan <= 1
  /\ e.node = n
  /\ e.provider = route[n].provider /\ e.model = route[n].model
  /\ route[n].effort <= e.effort

Approve(n, e) ==
  /\ gate[n] = "open" /\ EnvelopeCovers(e, n)
  /\ gate' = [gate EXCEPT ![n] = "approve"]
  /\ envelope' = [envelope EXCEPT ![n] = e]
  /\ UNCHANGED <<supply, ask, routing, route, ran>>

\* the fallback of a rework is the one its original was published with
UseFallback(n) ==
  LET of == IF n = "rework" THEN "implementation" ELSE n IN
  /\ gate[n] = "open"
  /\ routing[of].fallback # NoRoute /\ ~routing[of].fallback.premium
  /\ gate' = [gate EXCEPT ![n] = "use_fallback"]
  /\ route' = [route EXCEPT ![n] = routing[of].fallback]
  /\ UNCHANGED <<supply, ask, routing, envelope, ran>>

Skip(n) ==
  /\ gate[n] = "open"
  /\ gate' = [gate EXCEPT ![n] = "skip"]
  /\ UNCHANGED <<supply, ask, routing, envelope, route, ran>>

\* the scheduler launches a node whose route needs no approval or has it
Launch(n) ==
  /\ route[n] # NoRoute /\ n \notin ran
  /\ gate[n] \in {"none", "approve", "use_fallback"}
  /\ n = "review" => "implementation" \in ran
  /\ ran' = ran \cup {n}
  /\ UNCHANGED <<supply, ask, routing, gate, envelope, route>>

\* rework_created: the rework has the route of the effective plan, and a
\* premium gate of its own when that route still needs approval
CreateRework ==
  /\ "implementation" \in ran /\ route["rework"] = NoRoute
  /\ route' = [route EXCEPT !["rework"] = route["implementation"]]
  /\ gate' = [gate EXCEPT !["rework"] = IF route["implementation"].premium THEN "open" ELSE "none"]
  /\ UNCHANGED <<supply, ask, routing, envelope, ran>>

Asks == [kind : Kinds, adapters : {{}} \cup {{c.provider} : c \in Catalog},
         quality : BOOLEAN, preferred : Preferred, review : BOOLEAN]
Envelopes == {EnvelopeFor(n, plan) : n \in {m \in RoutedNodes : gate[m] # "none"}, plan \in {1, 2}}

RNext ==
  \/ \E a \in Asks : RoutePlan(a)
  \/ \E n \in RoutedNodes, e \in Envelopes : Approve(n, e)
  \/ \E n \in RoutedNodes : UseFallback(n) \/ Skip(n) \/ Launch(n)
  \/ CreateRework

RSpec == RInit /\ [][RNext]_rvars

-----------------------------------------------------------------------------
RTypeOK ==
  /\ supply \in Blends
  /\ DOMAIN routing = RoutedNodes /\ ran \subseteq RoutedNodes
  /\ gate \in [RoutedNodes -> {"none", "open", "approve", "use_fallback", "skip"}]
  /\ \A n \in RoutedNodes : /\ route[n] = NoRoute \/ \E c \in Catalog : route[n] = Target(c)
                            /\ envelope[n].node \in {"nobody", n}

\* What fits a node by the catalog alone: available, with the capability, from
\* an allowed provider, and not known to be below the floor.
Fit(f) == {c \in Catalog : /\ c.model \in supply /\ Capable(f, c)
                           /\ c.score = 0 \/ c.score >= Required(f)}
PlannedFor(n) ==
  IF n = "review" THEN ForReview(ask, routing["implementation"].primary.provider)
                  ELSE ForImplementation(ask)

(***************************************************************************)
(* Premium work happens only where it must and where a person agreed.      *)
(* A premium route is planned only where no normal model with a score      *)
(* meets the floor, and, where unscored models may do the work, no         *)
(* unscored normal one either, whatever route is preferred; its fallback   *)
(* is a normal route whenever a capable one is available, so declining the *)
(* premium model never asks for another one; a node that runs on a premium *)
(* route, the rework of an approved one included, was approved for that    *)
(* node, that model and at least that effort; and the review runs on a     *)
(* provider other than the one planned for the implementation (route,      *)
(* covers, resolve_premium_gate and rework_created).                       *)
(***************************************************************************)
PremiumJustified ==
  \A n \in RoutedNodes :
    /\ (n # "rework" /\ routing[n].primary.premium) =>
         LET f == PlannedFor(n)
             unscored == f.kind \in {"research", "design", "verification"}
         IN  /\ \A c \in Fit(f) : c.premium \/ (c.score = 0 /\ ~unscored)
             /\ (\E c \in Catalog : c.model \in supply /\ Capable(f, c) /\ ~c.premium)
                  => routing[n].fallback # NoRoute /\ ~routing[n].fallback.premium
    /\ (n \in ran /\ route[n].premium) =>
         /\ gate[n] = "approve" /\ envelope[n].node = n
         /\ envelope[n].model = route[n].model /\ envelope[n].effort >= route[n].effort
    /\ n \in ran /\ n = "review" =>
         route[n].provider # routing["implementation"].primary.provider
=============================================================================
