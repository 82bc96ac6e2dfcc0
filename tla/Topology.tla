------------------------------ MODULE Topology ------------------------------
(***************************************************************************)
(* The risk and topology compiler (graphori_core/compiler.py): the risk of *)
(* a task, the graph and the roles that its mode asks for, and the         *)
(* revisions of the compiled graph, one automatic and then a human gate.   *)
(*                                                                         *)
(* A task may be compiled again, with another mode and other roles:        *)
(* compile_topology writes the risk and the mode it finds into the task.   *)
(***************************************************************************)
EXTENDS Integers, FiniteSets, Sequences

CONSTANTS
  Tasks,         \* what a task says of itself, see Metadata below
  Requested,     \* modes asked for explicitly, with "none"
  Verifiers,     \* tuples of verifier roles that may be supplied
  GatePools,     \* tuples of human-gate roles that may be supplied
  OriginalNode,  \* node of the graph that is the task's own: Task.task_id
  RevisionNode,  \* the nodes of its revisions: <task_id>:revision-<k>
  MaxRevisions,  \* RevisionController.max_revisions
  MaxCompiles, MaxVerdicts  \* bounds

VARIABLES
  task,      \* the Task: its metadata, risk, mode and state
  graph,     \* [nodes, edges] of the compiled graph
  crew,      \* [node -> Role], the actors that were bound to it
  revised,   \* RevisionController.revise_count
  escalated, \* RevisionController.gate is set
  refused,   \* the last compilation raised
  compiles, verdicts  \* bounds

tvars == <<task, graph, crew, revised, escalated, refused, compiles, verdicts>>

Unset    == ""
NoGraph  == [nodes |-> {}, edges |-> {}]
ModeRank == [none |-> 0, fast |-> 1, standard |-> 2, critical |-> 3]
RiskRank == [low |-> 0, medium |-> 1, high |-> 2, critical |-> 3]

\* Metadata of a task: uncertainty and scope; whether it has a hard tag, an
\* external effect ("yes", "no", "unknown"), a budget that suffices; its usage
\* status; contained: known to be local and reversible; review, gate and
\* parallel: what it asks of verification; and the worker's own resources.
ASSUME TopologyAssumption ==
  /\ \A t \in Tasks : /\ {t.uncertainty, t.scope} \subseteq Nat
                       /\ {t.tagged, t.budget, t.contained, t.review, t.gate,
                           t.parallel} \subseteq BOOLEAN
  /\ Requested \subseteq DOMAIN ModeRank
  /\ \A pool \in GatePools : Len(pool) \in Nat /\ DOMAIN pool = 1..Len(pool)
  /\ MaxRevisions \in Nat /\ MaxCompiles \in Nat /\ MaxVerdicts \in Nat

-----------------------------------------------------------------------------
(* compile_risk                                                            *)

Score(t) == 3 * RiskRank[t.risk] + 2 * t.about.uncertainty + 2 * t.about.scope
HardTriggers(t) == \/ t.risk = "critical" \/ t.about.uncertainty >= 2 \/ t.about.tagged
                   \/ t.about.effect = "yes" \/ ~t.about.budget
\* whatever keeps a task from Fast: unknown is never good news
Doubt(t) == \/ t.about.usage # "known" \/ t.about.uncertainty > 0
            \/ ~t.about.contained \/ t.about.effect # "no"

CompiledRisk(t) == CASE HardTriggers(t)                             -> "critical"
                     [] ~HardTriggers(t) /\ (Score(t) >= 7 \/ RiskRank[t.risk] >= 2) -> "high"
                     [] ~HardTriggers(t) /\ Score(t) \in 3..6 /\ RiskRank[t.risk] < 2 -> "medium"
                     [] OTHER                                       -> "low"
CompiledMode(t) == CASE HardTriggers(t) -> "critical"
                     [] ~HardTriggers(t) /\ (Doubt(t) \/ CompiledRisk(t) # "low") -> "standard"
                     [] OTHER -> "fast"

\* the mode of compile_topology: asked for, or kept from before, or compiled
ReviewTriggered(t) == t.about.review \/ t.about.gate
SelectedAsAsked(t, asked) ==  \* mutation: a mode that is asked for wins over the risk
  IF asked # "none" THEN asked ELSE CompiledMode(t)
Selected(t, asked) ==
  LET found  == CompiledMode(t)
      wanted == IF asked # "none" THEN asked ELSE IF t.mode # "none" THEN t.mode ELSE found
  IN  IF found = "critical" THEN "critical"
      ELSE IF wanted # "fast" THEN wanted
      ELSE IF found # "fast" THEN found
      ELSE IF ReviewTriggered(t) THEN "standard" ELSE "fast"

-----------------------------------------------------------------------------
(* Roles                                                                   *)

Actor(kind, name, provider, model, checkout, session) ==
  [kind |-> kind, identity |-> name, provider |-> provider, model |-> model,
   checkout |-> checkout, session |-> session]

\* _independent: no identity and no assigned resource in common, and in the
\* contexts of the compiler not the same model either
Apart(a, b) == /\ a.identity # b.identity
               /\ \A r \in {"checkout", "session"} : a[r] = Unset \/ a[r] # b[r]
IndependentWorker(a, b) ==
  Apart(a, b) /\ <<a.provider, a.model, a.checkout>> # <<b.provider, b.model, b.checkout>>
IndependentModel(a, b) == Apart(a, b) /\ <<a.provider, a.model>> # <<b.provider, b.model>>

Builder(t) == Actor("worker", "worker", t.about.worker.provider, t.about.worker.model,
                    t.about.worker.checkout, t.about.worker.session)
Dispatcher == Actor("router", "router", "router-provider", "router-model", "router-checkout",
                    "router-session")
GateRole(x) == Actor("human_gate", "human-gate-" \o x, "gate-provider-" \o x, "gate-model-" \o x,
                     "gate-checkout-" \o x, Unset)
DefaultPool == <<GateRole("a"), GateRole("b")>>
DefaultVerifier(x) == Actor("verifier", x \o "-verifier", x \o "-provider", x \o "-model",
                            x \o "-checkout", Unset)

\* _validate_gate_pool
PoolFits(pool, workers) ==
  /\ Cardinality(DOMAIN pool) >= 2
  /\ \A i \in DOMAIN pool :
       /\ pool[i].kind = "human_gate"
       /\ \A j \in DOMAIN pool : j > i => IndependentModel(pool[i], pool[j])
       /\ \A w \in workers \cup {Dispatcher} : IndependentModel(pool[i], w)

-----------------------------------------------------------------------------
(* Graphs                                                                  *)

KindOf(n) == CASE n = "router" -> "router" [] n = "observer" -> "observer"
               [] n \in {"verifier", "verifier_normal", "verifier_adversarial",
                         "verifier_fanin"} -> "verifier"
               [] n \in {"human_gate", "escalation"} -> "human_gate"
               [] OTHER -> "worker"

Arc(a, b, kind) == [from |-> a, to |-> b, kind |-> kind]
\* a worker's output goes to its verifier, which verifies it
Checked(a, v) == {Arc(a, v, "requires"), Arc(v, a, "verifies")}
\* a graph that ends with an observer of its last node
Observed(nodes, edges, terminal) ==
  [nodes |-> nodes \cup {"router", "worker", "observer"},
   edges |-> edges \cup {Arc("router", "worker", "requires"), Arc(terminal, "observer", "observes")}]

Plain == Observed({}, {}, "worker")
WithVerifier(gated) ==
  IF gated THEN Observed({"verifier", "human_gate"},
                      Checked("worker", "verifier") \cup {Arc("verifier", "human_gate", "requires_gate")},
                      "human_gate")
           ELSE Observed({"verifier"}, Checked("worker", "verifier"), "verifier")
InParallel ==
  Observed({"verifier_normal", "verifier_adversarial", "verifier_fanin", "human_gate"},
        (UNION {Checked("worker", v) \cup Checked(v, "verifier_fanin") :
                  v \in {"verifier_normal", "verifier_adversarial"}})
          \cup {Arc("verifier_fanin", "human_gate", "requires_gate")},
        "human_gate")

\* no cycle of edges of these kinds: of any nodes one can leave, one leads away
Acyclic(edges, kinds) ==
  LET E == {e \in edges : e.kind \in kinds}
  IN  \A S \in (SUBSET {e.from : e \in E}) \ {{}} :
        \E n \in S : \A e \in E : e.from = n => e.to \notin S

\* validate_graph, for the graph of this state
ValidGraph ==
  /\ \A e \in graph.edges : {e.from, e.to} \subseteq graph.nodes /\ e.from # e.to
  /\ Acyclic(graph.edges, {"rework_of"})
  /\ Acyclic(graph.edges, {"requires", "requires_gate"})
  /\ \A n \in graph.nodes : KindOf(n) = "verifier" =>
       \E e \in graph.edges : /\ e.kind = "verifies" /\ e.from = n
                              /\ KindOf(e.to) = IF n = "verifier_fanin" THEN "verifier" ELSE "worker"

-----------------------------------------------------------------------------
TInit ==
  /\ task \in {[about |-> t, risk |-> r, mode |-> "none", state |-> "planned"] :
                 t \in Tasks, r \in {"low", "medium", "critical"}}
  /\ graph = NoGraph /\ crew = [n \in {} |-> Dispatcher]
  /\ revised = 0 /\ escalated = FALSE /\ refused = FALSE
  /\ compiles = 0 /\ verdicts = 0

Bound(nodes, roles) == [n \in nodes |-> roles[n]]

\* what compile_topology makes of the task, and whether the checks of
\* independence, which come after the task was written, let it return
Compilation(asked, supplied, pool) ==
  LET mode     == Selected(task, asked)
      builder  == Builder(task)
      Given(i, name) == IF i \in DOMAIN supplied THEN supplied[i] ELSE DefaultVerifier(name)
      gates    == IF pool = <<>> THEN DefaultPool ELSE pool
      gated    == mode = "critical" \/ task.about.gate
      double   == mode = "critical" /\ task.about.parallel
      alone    == mode = "fast" \/ (mode = "standard" /\ ~ReviewTriggered(task))
      first    == Given(1, IF double THEN "normal" ELSE IF mode = "critical" THEN "critical" ELSE "target")
      second   == Given(2, "adversarial")
      checkers == IF alone THEN {} ELSE IF double THEN {first, second} ELSE {first}
  IN  [task  |-> [task EXCEPT !.mode = mode, !.risk = CompiledRisk(task)],
       graph |-> IF alone THEN Plain ELSE IF double THEN InParallel ELSE WithVerifier(gated),
       roles |-> [router |-> Dispatcher, worker |-> builder, verifier |-> first,
                  verifier_normal |-> first, verifier_adversarial |-> second,
                  human_gate |-> gates[1]],
       fits  |-> /\ \A v \in checkers : v.kind = "verifier" /\ IndependentWorker(builder, v)
                 /\ double => IndependentModel(first, second)
                 /\ (~alone /\ gated) => PoolFits(gates, {builder} \cup checkers)]

\* a graph under revision is not replaced
MayCompile == compiles < MaxCompiles /\ revised = 0 /\ ~escalated

Compile(asked, supplied, pool) ==
  LET made == Compilation(asked, supplied, pool) IN
  /\ MayCompile /\ compiles' = compiles + 1
  /\ made.fits
  /\ task' = made.task
  /\ graph' = made.graph
  /\ crew' = Bound(made.graph.nodes \cap DOMAIN made.roles, made.roles)
  /\ refused' = FALSE
  /\ UNCHANGED <<revised, escalated, verdicts>>

\* IndependenceError: the task keeps the mode and the risk, the caller its graph
CompileRefused(asked, supplied, pool) ==
  LET made == Compilation(asked, supplied, pool) IN
  /\ MayCompile /\ compiles' = compiles + 1
  /\ ~made.fits
  /\ task' = made.task
  /\ refused' = TRUE
  /\ UNCHANGED <<graph, crew, revised, escalated, verdicts>>

\* the node the task points at after k revisions; all of them are workers'
Revision(k) == IF k = 0 THEN OriginalNode ELSE RevisionNode[k]
ASSUME NamesAssumption == \A k \in 0..MaxRevisions : KindOf(Revision(k)) = "worker"

ReviseUnlimited ==  \* mutation: revise_count is not compared with max_revisions
  /\ graph # NoGraph /\ verdicts < MaxVerdicts /\ verdicts' = verdicts + 1
  /\ Revision(revised) \in graph.nodes
  /\ revised' = revised + 1
  /\ task' = [task EXCEPT !.state = "ready"]
  /\ graph' = [nodes |-> graph.nodes \cup {Revision(revised + 1)},
               edges |-> graph.edges \cup {Arc(Revision(revised + 1), Revision(revised), "rework_of")}]
  /\ UNCHANGED <<crew, escalated, refused, compiles>>

(* RevisionController.record("revise", task, graph)                        *)
Revise ==
  /\ graph # NoGraph /\ verdicts < MaxVerdicts /\ verdicts' = verdicts + 1
  /\ revised < MaxRevisions
  /\ Revision(revised) \in graph.nodes /\ Revision(revised + 1) \notin graph.nodes
  /\ revised' = revised + 1
  /\ task' = [task EXCEPT !.state = "ready"]
  /\ graph' = [nodes |-> graph.nodes \cup {Revision(revised + 1)},
               edges |-> graph.edges \cup {Arc(Revision(revised + 1), Revision(revised), "rework_of")}]
  /\ UNCHANGED <<crew, escalated, refused, compiles>>

Escalate ==
  /\ graph # NoGraph /\ verdicts < MaxVerdicts /\ verdicts' = verdicts + 1
  /\ revised >= MaxRevisions
  /\ Revision(revised) \in graph.nodes
  /\ escalated' = TRUE
  /\ task' = [task EXCEPT !.state = "escalated"]
  /\ graph' = [nodes |-> graph.nodes \cup {"escalation"},
               edges |-> graph.edges \cup {Arc(Revision(revised), "escalation", "requires_gate")}]
  /\ UNCHANGED <<crew, revised, refused, compiles>>

TaskTransitions ==
  [planned |-> {"ready", "blocked"}, ready |-> {"running", "blocked"},
   running |-> {"succeeded", "failed", "blocked", "escalated"}, failed |-> {"escalated"},
   blocked |-> {"ready", "escalated"}, succeeded |-> {}, escalated |-> {"blocked", "ready"}]

\* transition_task
TransitionTask(to) ==
  /\ graph # NoGraph
  /\ to \in TaskTransitions[task.state]
  /\ task' = [task EXCEPT !.state = to]
  /\ UNCHANGED <<graph, crew, revised, escalated, refused, compiles, verdicts>>

TNext ==
  \/ \E asked \in Requested, vs \in Verifiers, pool \in GatePools :
       Compile(asked, vs, pool) \/ CompileRefused(asked, vs, pool)
  \/ Revise \/ Escalate
  \/ \E to \in DOMAIN TaskTransitions : TransitionTask(to)

TSpec == TInit /\ [][TNext]_tvars

-----------------------------------------------------------------------------
TTypeOK ==
  /\ task.risk \in DOMAIN RiskRank /\ task.mode \in DOMAIN ModeRank
  /\ task.state \in DOMAIN TaskTransitions
  /\ revised \in 0..MaxRevisions /\ {escalated, refused} \subseteq BOOLEAN
  /\ DOMAIN crew \subseteq graph.nodes

Demanding == task.mode = "critical" \/ (task.mode = "standard" /\ task.about.gate)

ReviewStands ==
  graph # NoGraph =>
    /\ ValidGraph
    /\ \A n \in DOMAIN crew, m \in DOMAIN crew \ {"router"} :
         crew[n].kind # crew[m].kind => Apart(crew[n], crew[m]) \/ n = "router"
    /\ (Demanding /\ ~refused) => \A e \in graph.edges :
         /\ e.to = "observer" => e.from = "human_gate"
         /\ e.to = "human_gate" => KindOf(e.from) = "verifier"
    /\ escalated => \E e \in graph.edges : e.from = Revision(MaxRevisions) /\ e.to = "escalation"
    /\ Cardinality({e \in graph.edges : e.kind = "rework_of"}) <= MaxRevisions

NeverDowngraded ==
  /\ RiskRank[task'.risk] >= RiskRank[task.risk]
  /\ task'.mode # task.mode =>
       /\ ModeRank[task'.mode] >= ModeRank[CompiledMode(task)]
       /\ ModeRank[task'.mode] >= ModeRank[CompiledMode(task')]

(***************************************************************************)
(* However often a task is compiled and whatever mode and roles are asked  *)
(* for, its risk is never lowered and its mode is never below what its     *)
(* risk compiles to, before or after the compilation has written it back,  *)
(* a refused compilation included; what the last topology of a critical    *)
(* task (or of one with a human gate) hands over has passed a verifier and *)
(* then the gate, each apart from the worker and from one another; and     *)
(* revisions keep the graph acyclic, stay within the limit, and end at a   *)
(* human gate on the latest revision (compile_risk, compile_topology,      *)
(* validate_graph and RevisionController.record).                          *)
(***************************************************************************)
TopologyHolds == [][NeverDowngraded]_tvars /\ []ReviewStands
=============================================================================
