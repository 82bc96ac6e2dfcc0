------------------------------- MODULE MCParts -------------------------------
(***************************************************************************)
(* The parts of Graphori that do not share state with one another, checked *)
(* in one run: a behaviour picks one of them, its scene, and the others    *)
(* stay as they are.  The instances are given here.                        *)
(***************************************************************************)
EXTENDS ProcessAdapter, LiveVerify, OrcaAdapter, ProviderCli, Sprout, Routing, Topology,
        SkillStore, ProductRun, Dashboard

CONSTANTS Scenes, a1, a2, f1, f2, n1, n2, w1, w2, c1, c2

ASSUME ScenesAssumption ==
  Scenes \subseteq {"process", "live", "orca", "cli", "sprout", "routing", "topology", "skills",
                    "product", "dashboard"}

VARIABLE scene

Still(name, vars) == scene # name => UNCHANGED vars

\* the first state of a part that is not the scene; contents of files are
\* interchangeable, so that one of them stands for all at first
First(S) == CHOOSE x \in S : TRUE
Idle(name, fixed) == scene # name => fixed

MCInit ==
  /\ scene \in Scenes
  /\ PInit /\ \A a \in Attempts : file[a] = IF a \in VerdictFile THEN "old" ELSE "absent"
  /\ LInit /\ \A f \in Files : ws[f] = First(Contents)
  /\ GInit /\ Idle("sprout", offered = First(Offers) /\ setting = First(Settings))
  /\ RInit /\ Idle("routing", supply = First(Blends))
  /\ TInit /\ Idle("topology", task.about = First(Tasks) /\ task.risk = "low")
  /\ HInit /\ Idle("product", order = First(Orders))
  /\ OInit /\ CInit /\ KInit /\ DInit

MCNext ==
  /\ \/ scene = "process"  /\ PNext
     \/ scene = "live"     /\ LNext
     \/ scene = "orca"     /\ ONext
     \/ scene = "cli"      /\ CNext
     \/ scene = "sprout"   /\ GNext
     \/ scene = "routing"  /\ RNext
     \/ scene = "topology" /\ TNext
     \/ scene = "skills"   /\ KNext
     \/ scene = "product"  /\ HNext
     \/ scene = "dashboard" /\ DNext
  /\ Still("process", pvars) /\ Still("live", lvars) /\ Still("orca", ovars)
  /\ Still("cli", cvars) /\ Still("sprout", gvars) /\ Still("routing", rvars)
  /\ Still("topology", tvars) /\ Still("skills", kvars) /\ Still("product", hvars)
  /\ Still("dashboard", dvars)
  /\ UNCHANGED scene

mcvars == <<scene, pvars, lvars, ovars, cvars, gvars, rvars, tvars, kvars, hvars, dvars>>

\* PFairness, LFairness and DFairness, of the part that is the scene
MCFairness ==
  /\ WF_pvars(scene = "process" /\ Threads)
  /\ WF_lvars(scene = "live" /\ Verifier)
  /\ \A i \in 1..Launches : WF_lvars(scene = "live" /\ Watcher(i))
  /\ WF_dvars(scene = "dashboard" /\ Handler) /\ WF_dvars(scene = "dashboard" /\ Page)
  /\ \A c \in Fetches : WF_dvars(scene = "dashboard" /\ Fetched(c))

MCSpec == MCInit /\ [][MCNext]_mcvars /\ MCFairness

\* the type invariant of each part, evaluated where the part can have changed
TypeOK ==
  CASE scene = "process" -> PTypeOK  [] scene = "live"     -> LTypeOK
    [] scene = "orca"    -> OTypeOK  [] scene = "cli"      -> CTypeOK
    [] scene = "sprout"  -> GTypeOK  [] scene = "routing"  -> RTypeOK
    [] scene = "topology" -> TTypeOK [] scene = "skills"  -> KTypeOK
    [] scene = "product" -> HTypeOK  [] scene = "dashboard" -> DTypeOK

-----------------------------------------------------------------------------
(* Provider CLIs: two workers, each with a file of its own.                *)

MCScope == [w \in {w1, w2} |-> IF w = w1 THEN {f1} ELSE {f2}]

-----------------------------------------------------------------------------
(* Sprout: nodes that close the proofs p and q at different costs.         *)

Close(closes, cost, deps, from, to) ==
  [closes |-> closes, cost |-> cost, deps |-> deps, requires |-> {}, reads |-> from,
   writes |-> to, ai |-> TRUE, external |-> FALSE, reversible |-> TRUE]

MCNodeOf == <<
  Close({"p"}, 2, {}, {}, {}),
  Close({"p"}, 3, {}, {"x"}, {}),
  Close({"q"}, 2, {}, {}, {"x"}),
  Close({"q"}, 4, {}, {}, {}),
  Close({"p", "q"}, 5, {}, {}, {}),
  Close({"p", "q"}, 3, {1}, {}, {}),
  [Close({"r"}, 1, {1, 3}, {}, {}) EXCEPT !.requires = {"p", "q"}, !.external = TRUE] >>

MCOffers == {{6}, {2, 3}, {1, 2, 4}, {3, 5, 6}, {1, 3, 7}, {1, 3, 4, 5}}
Choice(budget, wip, targets, static) ==
  [budget |-> budget, wip |-> wip, targets |-> targets, static |-> static]
MCSettings == {Choice(2, 2, 4, {2, 4}), Choice(2, 1, 1, {2})}

-----------------------------------------------------------------------------
(* Routing: the order of the default catalog, with times rounded.          *)

Offer(provider, model, effort, premium, skills, score, wall, rank) ==
  [provider |-> provider, model |-> model, effort |-> effort, premium |-> premium,
   skills |-> skills, score |-> score, wall |-> wall, rank |-> rank, place |-> rank]

MCCatalog ==
  LET Code == {"coding", "design", "verification"} IN {
  Offer("openai", "luna", 1, FALSE, {"coding", "research", "design"}, 42, 20, 1),
  Offer("openai", "luna", 2, FALSE, {"coding", "research", "design"}, 51, 34, 2),
  Offer("openai", "terra", 2, FALSE, Code, 56, 37, 3),
  Offer("openai", "sol", 1, TRUE, Code, 61, 31, 4),
  Offer("openai", "sol", 2, TRUE, Code, 64, 38, 5),
  Offer("anthropic", "sonnet", 2, FALSE, Code \cup {"research"}, 0, 0, 6),
  Offer("anthropic", "opus", 3, TRUE, {"design", "verification"}, 67, 141, 7)}

MCKinds == {"bounded_implementation", "complex_implementation", "critical_synthesis"}
MCBlends == SUBSET Models

-----------------------------------------------------------------------------
(* Topology: tasks around the limits of each mode, and roles that are      *)
(* independent or share one thing.                                         *)

Said(uncertainty, scope, tagged, effect, usage, contained, review, approve, parallel, provider) ==
  [uncertainty |-> uncertainty, scope |-> scope, tagged |-> tagged, effect |-> effect,
   budget |-> TRUE, usage |-> usage, contained |-> contained, review |-> review, gate |-> approve,
   parallel |-> parallel,
   worker |-> [provider |-> provider, model |-> provider, checkout |-> "", session |-> "s"]]

MCTasks ==
  {Said(0, 0, FALSE, "no", "known", TRUE, r, g, FALSE, "p") : r \in BOOLEAN, g \in BOOLEAN}
  \cup {Said(0, 2, FALSE, "no", "known", FALSE, r, FALSE, FALSE, "p") : r \in BOOLEAN}
  \cup {Said(0, 0, TRUE, "no", "known", TRUE, FALSE, FALSE, par, "p") : par \in BOOLEAN}
  \cup {Said(1, 2, FALSE, "unknown", "estimate", TRUE, FALSE, FALSE, FALSE, "p"),
        Said(2, 0, FALSE, "no", "known", TRUE, FALSE, FALSE, TRUE, "q"),
        Said(0, 0, FALSE, "yes", "known", TRUE, FALSE, FALSE, TRUE, "target-provider")}

Checker(name, provider, model, checkout, session) ==
  Actor("verifier", name, provider, model, checkout, session)
MCVerifiers == {<<>>,
                <<Checker("v", "q", "q", "", ""), Checker("w", "q", "r", "", "")>>,
                <<Checker("v", "p", "p", "", "s")>>,
                <<Checker("v", "p", "p", "c", ""), Checker("w", "p", "p", "d", "")>>}
MCPools == {<<>>, <<GateRole("a")>>,
            <<Actor("human_gate", "g", "q", "q", "k", ""), Actor("human_gate", "h", "g", "h", "l", "")>>}

MCRevisionNode == <<"revision-1", "revision-2", "revision-3">>

-----------------------------------------------------------------------------
(* Skills: one that needs another.                                         *)

Says(kind, deps) ==
  [kind |-> kind, deps |-> deps, conflicts |-> {}, needs |-> {}, hosts |-> {},
   nested |-> FALSE, interactive |-> FALSE, strong |-> FALSE]
MCAbout == [ponytail |-> Says("discipline", {"research"}), research |-> Says("reference", {})]
MCContexts == {[host |-> "codex", given |-> {}, risky |-> FALSE]}

-----------------------------------------------------------------------------
(* Product runs: one order of each profile, with and without a review,     *)
(* and one without criteria.                                               *)

Order(profile, policy, doubt, ready, about) ==
  [research |-> "research" \in profile, write |-> "write" \in profile, bug |-> "bug" \in profile,
   design |-> "design" \in profile, review |-> policy, unsure |-> doubt,
   sensitive |-> FALSE, broad |-> FALSE, ready |-> ready,
   criteria |-> {"c1", "c2"}, mapped |-> about]

MCOrders ==
  LET Both == {"openai", "anthropic"} IN {
  Order({"write", "bug"}, "never", FALSE, Both, {"c1"}),
  Order({"write", "bug"}, "auto", TRUE, Both, {"c1"}),
  Order({"write", "design"}, "auto", FALSE, {"openai"}, {"c1", "c2"}),
  Order({"research", "write"}, "always", FALSE, Both, {"c2"}),
  Order({"research"}, "auto", FALSE, Both, {}),
  [Order({"write"}, "auto", FALSE, {"openai"}, {}) EXCEPT !.criteria = {}]}
=============================================================================
