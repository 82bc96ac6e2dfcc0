------------------------------ MODULE Reducer -------------------------------
(***************************************************************************)
(* The canonical state of a run: what StateReducer (graphori_core/         *)
(* reducer.py) computes from the journal, with the transition tables of    *)
(* compiler.py and the effective plan of projection.py.  A ledger is the   *)
(* result of replaying a journal; Legal(L, e) says that the reducer        *)
(* accepts event e after it, Applied(L, e) is the ledger then.  The engine *)
(* replays the whole journal before every append, so the ledger is all a   *)
(* restarted engine knows.                                                 *)
(*                                                                         *)
(* The nodes of the run are pairs: <<b, 0>> is node b of the published     *)
(* plan and <<b, 1>> its one rework revision, "b:rework:1".                *)
(***************************************************************************)
EXTENDS Integers, Sequences, FiniteSets

CONSTANTS
  Base,           \* node ids of the published plan
  Verifiers,      \* those of kind verifier
  Deps,           \* per node: the nodes it depends on
  Reviewers,      \* nodes with reviews_unverified_dependencies
  Deterministic,  \* nodes whose verification_policy is deterministic
  Premium,        \* nodes published with approval_required
  Fallback        \* premium nodes with a fallback that needs no approval

(* RunPlan refuses a plan with unknown dependencies or a dependency cycle *)
ASSUME PlanAssumption ==
  /\ IsFiniteSet(Base)
  /\ Verifiers \subseteq Base /\ Reviewers \subseteq Base
  /\ Deterministic \subseteq Base \ Verifiers
  /\ Fallback \subseteq Premium /\ Premium \subseteq Base
  /\ Deps \in [Base -> SUBSET Base]
  /\ \A b \in Base : b \notin Deps[b]

Ids       == Base \X {0, 1}
Planned   == Base \X {0}
Rework(n) == <<n[1], 1>>
IsVerifier(n) == n[1] \in Verifiers

(* Dependencies in the effective plan: a rework verifier depends on the     *)
(* rework worker, a rework worker on what the original depended on.         *)
DepsOf(n) ==
  {<<d, IF IsVerifier(n) THEN n[2] ELSE 0>> : d \in Deps[n[1]]}

NodeState ==
  {"absent", "pending", "ready", "assigned", "running", "awaiting_verification",
   "outcome_unknown", "passed", "failed", "cancelled", "inconclusive", "blocked"}

(* NODE_TRANSITIONS, without the states the engine never records *)
NodeMoves(s) ==
  CASE s = "pending"  -> {"ready", "blocked"}
    [] s = "ready"    -> {"assigned", "cancelled", "blocked"}
    [] s = "assigned" -> {"running", "cancelled", "outcome_unknown", "blocked"}
    [] s = "running"  -> {"awaiting_verification", "failed", "cancelled",
                          "outcome_unknown", "blocked"}
    [] s = "awaiting_verification" -> {"passed", "failed", "inconclusive", "blocked"}
    [] s = "outcome_unknown" -> {"ready", "cancelled", "blocked"}
    [] s = "blocked"  -> {"ready", "cancelled"}
    [] OTHER          -> {}

InFlight     == {"dispatched", "running"}
AttemptState == InFlight \cup {"succeeded", "failed", "cancelled", "outcome_unknown"}

(* worker_finished: what an outcome makes of the attempt and of its node;   *)
(* the attempt passes through timed_out or lost on its way to unknown.      *)
AttemptAfterVerbatim(outcome) == outcome  \* mutation: timed_out is kept as it is
AttemptAfter(outcome) ==
  IF outcome \in {"succeeded", "failed", "cancelled"} THEN outcome ELSE "outcome_unknown"
NodeAfterLenient(outcome) ==  \* mutation: failed work goes to verification, too
  CASE outcome \in {"succeeded", "failed"} -> "awaiting_verification"
    [] outcome = "cancelled"              -> "cancelled"
    [] OTHER                              -> "outcome_unknown"
NodeAfter(outcome) ==
  CASE outcome = "succeeded"             -> "awaiting_verification"
    [] outcome \in {"failed", "cancelled"} -> outcome
    [] OTHER                              -> "outcome_unknown"

(* verdict_recorded: what a verdict makes of each target *)
JudgedMildly(verdict) ==  \* mutation: work to be revised has not failed
  CASE verdict = "pass"   -> "passed"
    [] verdict = "reject" -> "failed"
    [] OTHER              -> "inconclusive"
Judged(verdict) ==
  CASE verdict = "pass"             -> "passed"
    [] verdict \in {"revise", "reject"} -> "failed"
    [] verdict = "inconclusive"     -> "inconclusive"

Verdicts  == {"pass", "revise", "reject", "inconclusive"}
Decisions == {"approve", "use_fallback", "skip", "cancelled"}
Terminals == {"succeeded", "failed", "blocked", "cancelled"}

Ledger ==
  [phase     : {"none", "run_created", "graph_published"},
   node      : [Ids -> NodeState],
   attempts  : [Ids -> Seq(AttemptState)],
   retried   : SUBSET Ids,                        \* retry_counts
   gate      : [Ids -> {"none", "open"} \cup Decisions],  \* premium gates
   exhausted : SUBSET Base,                       \* rework-exhausted gates, open
   verdict   : [Ids -> {"none"} \cup Verdicts],   \* last verdict a node published
   terminal  : {"none"} \cup Terminals]

EmptyLedger ==
  [phase     |-> "none",
   node      |-> [n \in Ids |-> IF n \in Planned THEN "pending" ELSE "absent"],
   attempts  |-> [n \in Ids |-> << >>],
   retried   |-> {},
   gate      |-> [n \in Ids |-> "none"],
   exhausted |-> {},
   verdict   |-> [n \in Ids |-> "none"],
   terminal  |-> "none"]
-----------------------------------------------------------------------------
(* Derived from the ledger *)

Nodes(L) == {n \in Ids : L.node[n] # "absent"}

(* A node that was revised is history: rework_of edges and rework_counts *)
Reworked(L, n)   == n[2] = 0 /\ L.node[Rework(n)] # "absent"
Unreplaced(L)    == {n \in Nodes(L) : ~Reworked(L, n)}

OpenGates(L) == {n \in Ids : L.gate[n] = "open"}
Approved(L)  == {n \in Ids : L.gate[n] \in {"approve", "use_fallback"}}

(* approval_required in the effective plan: a fallback clears it, also for *)
(* the rework of the node *)
NeedsApproval(L, n) ==
  n[1] \in Premium /\ "use_fallback" \notin {L.gate[n], L.gate[<<n[1], 0>>]}

HasAttemptInFlight(L, n) ==
  L.attempts[n] # << >> /\ L.attempts[n][Len(L.attempts[n])] \in InFlight

(* transition_node: staying put is allowed *)
CanMove(L, n, s) == L.node[n] = s \/ s \in NodeMoves(L.node[n])
Moved(L, n, s)   == [L EXCEPT !.node[n] = s]

WithAttempt(L, n, s) == [L EXCEPT !.attempts[n][Len(L.attempts[n])] = s]
-----------------------------------------------------------------------------
(* Events, as the engine appends them *)

Created              == [type |-> "run_created"]
Published            == [type |-> "graph_published"]
Status(n, s)         == [type |-> "node_status_changed", node |-> n, status |-> s]
Running(n)           == [type |-> "running", node |-> n]  \* status running, of an attempt
Dispatched(n)        == [type |-> "attempt_dispatched", node |-> n]
Finished(n, o)       == [type |-> "worker_finished", node |-> n, outcome |-> o]
Reconciled(n)        == [type |-> "reconciled", node |-> n]
Retried(n)           == [type |-> "retry_created", node |-> n]
ReworkOf(n, v)       == [type |-> "rework_created", node |-> n, verifier |-> v]
GateOpened(n)        == [type |-> "gate_created", node |-> n]
GateExhausted(n)     == [type |-> "rework_exhausted", node |-> n]
GateResolved(n, d)   == [type |-> "gate_resolved", node |-> n, decision |-> d]
Verdict(n, ts, k)    == [type |-> "verdict_recorded", node |-> n, targets |-> ts, verdict |-> k]
Terminal(s)          == [type |-> "run_terminal", status |-> s]

(* The verifier's own state follows its verdict unless it judges itself     *)
(* (role_deterministic_verifier) or is already settled.                     *)
FollowsVerdict(L, e) ==
  /\ e.targets # {e.node}
  /\ L.node[e.node] \in {"running", "awaiting_verification"}
OwnState(e) == IF e.verdict = "pass" THEN "passed" ELSE "failed"

MayEnd(L, status) ==
  status = "succeeded" => \A n \in Unreplaced(L) : L.node[n] = "passed"

(* What the reducer asks of each event, once the graph is published *)

MayChangeStatus(L, e) == CanMove(L, e.node, e.status)

(* a status of an attempt: it must be an attempt of the node *)
MayStart(L, e) == L.attempts[e.node] # << >> /\ CanMove(L, e.node, "running")

MayDispatch(L, e) == CanMove(L, e.node, "assigned")

MayFinish(L, e) ==
  HasAttemptInFlight(L, e.node) /\ CanMove(L, e.node, NodeAfter(e.outcome))

MayReconcile(L, e) ==
  HasAttemptInFlight(L, e.node) /\ CanMove(L, e.node, "outcome_unknown")

(* one automatic retry of a node that has been attempted *)
MayRetry(L, e) ==
  /\ L.attempts[e.node] # << >>
  /\ e.node \notin L.retried
  /\ CanMove(L, e.node, "ready")

(* one rework of a node, asked for by a verifier that has not asked before *)
MayRework(L, e) ==
  /\ ~Reworked(L, e.node)
  /\ IsVerifier(e.verifier)
  /\ L.node[Rework(e.verifier)] = "absent"

MayOpenGate(L, e) == L.gate[e.node] = "none"

MayExhaust(L, e) == e.node[1] \notin L.exhausted

MayResolve(L, e) == L.gate[e.node] = "open"

(* A verifier judges what it depends on, deterministic work judges itself *)
MayJudge(L, e) ==
  /\ e.targets \subseteq IF IsVerifier(e.node) THEN DepsOf(e.node) ELSE {e.node}
  /\ \A t \in e.targets : CanMove(L, t, Judged(e.verdict))
  /\ FollowsVerdict(L, e) => CanMove(L, e.node, OwnState(e))

LegalWhenPublished(L, e) ==
  \/ e.type = "node_status_changed" /\ MayChangeStatus(L, e)
  \/ e.type = "running"             /\ MayStart(L, e)
  \/ e.type = "attempt_dispatched"  /\ MayDispatch(L, e)
  \/ e.type = "worker_finished"     /\ MayFinish(L, e)
  \/ e.type = "reconciled"          /\ MayReconcile(L, e)
  \/ e.type = "retry_created"       /\ MayRetry(L, e)
  \/ e.type = "rework_created"      /\ MayRework(L, e)
  \/ e.type = "gate_created"        /\ MayOpenGate(L, e)
  \/ e.type = "rework_exhausted"    /\ MayExhaust(L, e)
  \/ e.type = "gate_resolved"       /\ MayResolve(L, e)
  \/ e.type = "verdict_recorded"    /\ MayJudge(L, e)
  \/ e.type = "run_terminal"        /\ MayEnd(L, e.status)

LegalAfterTerminal(L, e) ==   \* mutation: the terminal guard is missing
  \/ e.type = "run_created" /\ L.phase = "none"
  \/ e.type = "graph_published" /\ L.phase = "run_created"
  \/ L.phase = "graph_published" /\ LegalWhenPublished(L, e)

Legal(L, e) == L.terminal = "none" /\ LegalAfterTerminal(L, e)

(* worker_finished, and reconciled with an outcome nobody knows *)
Ended(L, n, outcome) ==
  Moved(WithAttempt(L, n, AttemptAfter(outcome)), n, NodeAfter(outcome))

Judgement(L, e) ==
  LET own  == IF FollowsVerdict(L, e) THEN {e.node} ELSE {}
  IN  [L EXCEPT
        !.node = [n \in Ids |-> IF n \in e.targets THEN Judged(e.verdict)
                                ELSE IF n \in own THEN OwnState(e) ELSE @[n]],
        !.verdict[e.node] = e.verdict]

(* a new attempt, bound to its node *)
Assigned(L, n) ==
  [Moved(L, n, "assigned") EXCEPT !.attempts[n] = Append(@, "dispatched")]

(* the revision of a node and that of its verifier join the graph *)
Revised(L, n, v) == Moved(Moved(L, Rework(n), "pending"), Rework(v), "pending")

Applied(L, e) ==
  CASE e.type = "run_created"         -> [L EXCEPT !.phase = "run_created"]
    [] e.type = "graph_published"     -> [L EXCEPT !.phase = "graph_published"]
    [] e.type = "node_status_changed" -> Moved(L, e.node, e.status)
    [] e.type = "running"             -> Moved(WithAttempt(L, e.node, "running"), e.node, "running")
    [] e.type = "attempt_dispatched"  -> Assigned(L, e.node)
    [] e.type = "worker_finished"     -> Ended(L, e.node, e.outcome)
    [] e.type = "reconciled"          -> Ended(L, e.node, "outcome_unknown")
    [] e.type = "retry_created"       -> [Moved(L, e.node, "ready") EXCEPT !.retried = @ \cup {e.node}]
    [] e.type = "rework_created"      -> Revised(L, e.node, e.verifier)
    [] e.type = "gate_created"        -> [L EXCEPT !.gate[e.node] = "open"]
    [] e.type = "rework_exhausted"    -> [L EXCEPT !.exhausted = @ \cup {e.node[1]}]
    [] e.type = "gate_resolved"       -> [L EXCEPT !.gate[e.node] = e.decision]
    [] e.type = "verdict_recorded"    -> Judgement(L, e)
    [] e.type = "run_terminal"        -> [L EXCEPT !.terminal = e.status]
=============================================================================
