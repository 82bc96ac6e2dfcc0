---------------------------- MODULE EngineLedger ----------------------------
(***************************************************************************)
(* What the reducer keeps true of a ledger, whoever appends: a node's      *)
(* state and its attempts agree, a verdict, a revision, a dispatch and a   *)
(* gate leave the marks they should.  Sound(L) is that agreement, Safe(L,  *)
(* e) what the one who appends e has to see to, because the reducer does   *)
(* not; SoundKept says that a ledger stays sound under legal, safe events. *)
(***************************************************************************)
EXTENDS Engine, FiniteSetTheorems, TLAPS

Event ==
  {Created, Published}
    \cup {Status(n, s)         : n \in Ids, s \in {"ready", "cancelled", "blocked"}}
    \cup {Running(n)           : n \in Ids}
    \cup {Dispatched(n)        : n \in Ids}
    \cup {Finished(n, o)       : n \in Ids, o \in Outcomes}
    \cup {Reconciled(n)        : n \in Ids}
    \cup {Retried(n)           : n \in Ids}
    \cup {ReworkOf(n, v)       : n \in Ids, v \in Ids}
    \cup {GateOpened(n)        : n \in Ids}
    \cup {GateExhausted(n)     : n \in Ids}
    \cup {GateResolved(n, d)   : n \in Ids, d \in Decisions}
    \cup {Verdict(n, ts, k)    : n \in Ids, ts \in SUBSET Ids, k \in Verdicts}
    \cup {Terminal(s)          : s \in Terminals}

LastState(L, n) ==
  IF L.attempts[n] = << >> THEN "never" ELSE L.attempts[n][Len(L.attempts[n])]

(* How the last attempt of a node in state s may stand *)
Left(s) ==
  CASE s \in {"absent", "pending"} -> {"never"}
    [] s = "ready"                 -> {"never", "outcome_unknown"}
    [] s = "assigned"              -> {"dispatched"}
    [] s = "running"               -> {"running"}
    [] s = "failed"                -> {"succeeded", "failed"}
    [] s \in {"awaiting_verification", "passed", "inconclusive"} -> {"succeeded"}
    [] s \in {"outcome_unknown", "blocked"} -> {"outcome_unknown"}
    [] s = "cancelled"             -> {"never", "outcome_unknown", "cancelled"}

(* a node a dispatch would give its first attempt, or its recorded retry *)
Fresh(L, n) ==
  L.attempts[n] = << >> \/ (Len(L.attempts[n]) = 1 /\ n \in L.retried)

AttemptsFit(L, n) ==
  /\ LastState(L, n) \in Left(L.node[n])
  /\ Len(L.attempts[n]) <= IF n \in L.retried THEN 2 ELSE 1
  /\ \A i \in 1 .. Len(L.attempts[n]) - 1 : L.attempts[n][i] = "outcome_unknown"
  /\ n \in L.retried => L.attempts[n] # << >> /\ L.attempts[n][1] = "outcome_unknown"
  /\ L.node[n] = "ready" => Fresh(L, n)
  /\ L.node[n] = "blocked" => n \in L.retried

Proven(L, n) ==
  L.node[n] = "passed" =>
    \/ (IsVerifier(n) \/ n[1] \in Deterministic) /\ L.verdict[n] = "pass"
    \/ \E v \in Ids : IsVerifier(v) /\ n \in DepsOf(v) /\ L.verdict[v] = "pass"

VerdictFits(L, n) ==
  /\ L.verdict[n] # "none" => L.node[n] \in {"passed", "failed"}
  /\ L.verdict[n] = "revise" => L.node[n] = "failed"

Looks(n) == IsVerifier(n) \/ n[1] \in Reviewers

(* a dependency of n is done, and stays done *)
DepSettled(L, n, d) ==
  \/ L.node[d] = "passed"
  \/ /\ Looks(n)
     /\ L.node[d] \in {"awaiting_verification", "failed", "inconclusive"}
     /\ LastState(L, d) = "succeeded"
DepsSettled(L, n) == \A d \in DepsOf(n) : DepSettled(L, n, d)

RevisionFits(L, n) ==
  Reworked(L, n) =>
    /\ L.node[n] = "failed"
    /\ ~IsVerifier(n) =>
         \E v \in Planned : IsVerifier(v) /\ n \in DepsOf(v) /\ L.verdict[v] = "revise"

Unstarted == {"pending", "ready", "cancelled"}
GateFits(L, n) ==
  L.gate[n] = "open" =>
    NeedsApproval(L, n) /\ L.attempts[n] = << >> /\ L.node[n] \in Unstarted

Unpublished(L) == L.phase # "graph_published" => L = [EmptyLedger EXCEPT !.phase = L.phase]

Sound(L) ==
  /\ L \in Ledger
  /\ \A n \in Ids :
       /\ AttemptsFit(L, n) /\ Proven(L, n) /\ VerdictFits(L, n)
       /\ RevisionFits(L, n) /\ GateFits(L, n)
       /\ L.attempts[n] # << >> => DepsSettled(L, n)
  /\ Unpublished(L)

Safe(L, e) ==
  /\ e.type = "node_status_changed" =>
       \/ e.status = "ready" /\ L.node[e.node] = "pending"
       \/ e.status = "cancelled" /\ L.node[e.node] \notin {"assigned", "running"}
       \/ e.status = "blocked" /\ L.node[e.node] = "outcome_unknown" /\ e.node \in L.retried
  /\ e.type = "attempt_dispatched" =>
       /\ L.node[e.node] # "assigned" /\ L.gate[e.node] # "open"
       /\ DepsSettled(L, e.node)
  /\ e.type = "rework_created" =>
       /\ e.node \in Planned /\ e.verifier \in Planned
       /\ e.node \in DepsOf(e.verifier)
       /\ L.node[e.node] = "failed" /\ L.node[e.verifier] = "failed"
       /\ L.verdict[e.verifier] = "revise"
  /\ e.type = "gate_created" =>
       /\ NeedsApproval(L, e.node) /\ L.attempts[e.node] = << >>
       /\ L.node[e.node] \in Unstarted
  /\ e.type = "verdict_recorded" =>
       /\ L.verdict[e.node] = "none"
       /\ \/ /\ IsVerifier(e.node) /\ e.targets = DepsOf(e.node)
             /\ L.node[e.node] \in {"awaiting_verification", "failed"}
             /\ DepsSettled(L, e.node)
          \/ /\ e.node[1] \in Deterministic /\ e.targets = {e.node}
             /\ e.verdict = "pass" /\ L.node[e.node] = "awaiting_verification"
-----------------------------------------------------------------------------
\* A node is a pair of a base and a revision number, and never depends on itself.
LEMMA NodePairs ==
  \A n \in Ids :
    /\ n = <<n[1], n[2]>> /\ n[1] \in Base /\ n[2] \in {0, 1}
    /\ Rework(n) \in Ids /\ <<n[1], 0>> \in Planned
    /\ DepsOf(n) \subseteq Ids /\ n \notin DepsOf(n)
BY PlanAssumption DEF Ids, Planned, Rework, DepsOf, IsVerifier

\* The published plan is the nodes that are no revision.
LEMMA PlannedAreNodes == Planned \subseteq Ids /\ (\A n \in Ids : n \in Planned <=> n[2] = 0)
<1>1. Planned \subseteq Ids
  <2> SUFFICES ASSUME NEW x \in Planned PROVE x \in Ids
    OBVIOUS
  <2>1. x = <<x[1], 0>> /\ x[1] \in Base
    BY DEF Planned
  <2>2. <<x[1], 0>> \in Ids
    BY <2>1 DEF Ids
  <2> QED
    BY <2>1, <2>2
<1>2. ASSUME NEW b \in Base, NEW r \in {0, 1} PROVE <<b, r>> \in Planned <=> r = 0
  BY DEF Planned
<1>3. ASSUME NEW n \in Ids PROVE n \in Planned <=> n[2] = 0
  <2>1. n = <<n[1], n[2]>> /\ n[1] \in Base /\ n[2] \in {0, 1}
    BY NodePairs
  <2>2. <<n[1], n[2]>> \in Planned <=> n[2] = 0
    BY <2>1, <1>2
  <2> QED
    BY <2>1, <2>2, Zenon
<1> QED
  BY <1>1, <1>3

(* The events by type, with the fields of each *)
LEMMA EventFields ==
  ASSUME NEW e \in Event
  PROVE  \/ e = Created \/ e = Published
         \/ \E n \in Ids : \/ \E s \in {"ready", "cancelled", "blocked"} : e = Status(n, s)
                           \/ e = Running(n) \/ e = Dispatched(n)
                           \/ \E o \in Outcomes : e = Finished(n, o)
                           \/ e = Reconciled(n) \/ e = Retried(n)
                           \/ \E v \in Ids : e = ReworkOf(n, v)
                           \/ e = GateOpened(n) \/ e = GateExhausted(n)
                           \/ \E d \in Decisions : e = GateResolved(n, d)
                           \/ \E ts \in SUBSET Ids, k \in Verdicts : e = Verdict(n, ts, k)
         \/ \E s \in Terminals : e = Terminal(s)
BY DEF Event

(* What a step of a node, an attempt and a gate do to a ledger *)

\* Moving a node changes its state and nothing else of the ledger.
LEMMA MovedFields ==
  ASSUME NEW L \in Ledger, NEW n \in Ids, NEW s \in NodeState
  PROVE  /\ Moved(L, n, s) \in Ledger
         /\ Moved(L, n, s).node = [L.node EXCEPT ![n] = s]
         /\ Moved(L, n, s).attempts = L.attempts /\ Moved(L, n, s).retried = L.retried
         /\ Moved(L, n, s).gate = L.gate /\ Moved(L, n, s).exhausted = L.exhausted
         /\ Moved(L, n, s).verdict = L.verdict /\ Moved(L, n, s).phase = L.phase
         /\ Moved(L, n, s).terminal = L.terminal
BY DEF Moved, Ledger

\* Moving an attempt changes the last attempt of the node and nothing else.
LEMMA WithAttemptFields ==
  ASSUME NEW L \in Ledger, NEW n \in Ids, NEW s \in AttemptState, L.attempts[n] # << >>
  PROVE  /\ WithAttempt(L, n, s) \in Ledger
         /\ WithAttempt(L, n, s).attempts =
               [L.attempts EXCEPT ![n] = [@ EXCEPT ![Len(L.attempts[n])] = s]]
         /\ WithAttempt(L, n, s).node = L.node /\ WithAttempt(L, n, s).retried = L.retried
         /\ WithAttempt(L, n, s).gate = L.gate /\ WithAttempt(L, n, s).exhausted = L.exhausted
         /\ WithAttempt(L, n, s).verdict = L.verdict /\ WithAttempt(L, n, s).phase = L.phase
         /\ WithAttempt(L, n, s).terminal = L.terminal
<1>1. L.attempts[n] \in Seq(AttemptState)
  BY DEF Ledger
<1>2. [L.attempts[n] EXCEPT ![Len(L.attempts[n])] = s] \in Seq(AttemptState)
  BY <1>1
<1>3. WithAttempt(L, n, s) =
        [L EXCEPT !.attempts = [L.attempts EXCEPT ![n] = [@ EXCEPT ![Len(L.attempts[n])] = s]]]
  BY DEF WithAttempt, Ledger
<1>4. [L.attempts EXCEPT ![n] = [@ EXCEPT ![Len(L.attempts[n])] = s]] \in [Ids -> Seq(AttemptState)]
  BY <1>2 DEF Ledger
<1> QED
  BY <1>3, <1>4 DEF Ledger

\* What the reducer makes of each kind of event.
LEMMA AppliedForms ==
  ASSUME NEW L
  PROVE  /\ Applied(L, Created)   = [L EXCEPT !.phase = "run_created"]
         /\ Applied(L, Published) = [L EXCEPT !.phase = "graph_published"]
         /\ \A s : Applied(L, Terminal(s)) = [L EXCEPT !.terminal = s]
         /\ \A n : /\ \A s : Applied(L, Status(n, s)) = Moved(L, n, s)
                   /\ Applied(L, Running(n)) = Moved(WithAttempt(L, n, "running"), n, "running")
                   /\ Applied(L, Dispatched(n)) = Assigned(L, n)
                   /\ \A o : Applied(L, Finished(n, o)) = Ended(L, n, o)
                   /\ Applied(L, Reconciled(n)) = Ended(L, n, "outcome_unknown")
                   /\ Applied(L, Retried(n)) =
                         [Moved(L, n, "ready") EXCEPT !.retried = @ \cup {n}]
                   /\ \A v : Applied(L, ReworkOf(n, v)) = Revised(L, n, v)
                   /\ Applied(L, GateOpened(n)) = [L EXCEPT !.gate[n] = "open"]
                   /\ Applied(L, GateExhausted(n)) = [L EXCEPT !.exhausted = @ \cup {n[1]}]
                   /\ \A d : Applied(L, GateResolved(n, d)) = [L EXCEPT !.gate[n] = d]
                   /\ \A ts, k : Applied(L, Verdict(n, ts, k)) = Judgement(L, Verdict(n, ts, k))
BY DEF Applied, Created, Published, Terminal, Status, Running, Dispatched, Finished, Reconciled,
       Retried, ReworkOf, GateOpened, GateExhausted, GateResolved, Verdict
-----------------------------------------------------------------------------
(* What no event ever takes back *)
Advances(L, M) ==
  \A n \in Ids :
    /\ L.node[n] \in {"passed", "failed", "inconclusive", "cancelled"} => M.node[n] = L.node[n]
    /\ L.node[n] = "awaiting_verification" =>
         M.node[n] \in {"awaiting_verification", "passed", "failed", "inconclusive"}
    /\ L.node[n] \in {"passed", "failed", "inconclusive", "awaiting_verification"} =>
         LastState(M, n) = LastState(L, n)
    /\ L.node[n] # "absent" => M.node[n] # "absent"
    /\ L.verdict[n] # "none" => M.verdict[n] = L.verdict[n]
    /\ L.gate[n] \notin {"none", "open"} => M.gate[n] = L.gate[n]
    /\ Len(L.attempts[n]) <= Len(M.attempts[n])

\* A settled dependency stays settled when nodes only advance.
LEMMA SettledKept ==
  ASSUME NEW L \in Ledger, NEW M \in Ledger, Advances(L, M), NEW n \in Ids, DepsSettled(L, n)
  PROVE  DepsSettled(M, n)
BY NodePairs DEF Advances, DepsSettled, DepSettled

\* The last attempt is in flight exactly when the node has one in flight.
LEMMA LastStates ==
  ASSUME NEW L \in Ledger, NEW n \in Ids
  PROVE  /\ LastState(L, n) \in AttemptState \cup {"never"}
         /\ LastState(L, n) = "never" <=> L.attempts[n] = << >>
         /\ LastState(L, n) \in InFlight <=> HasAttemptInFlight(L, n)
         /\ Len(L.attempts[n]) \in Nat
         /\ L.attempts[n] = << >> <=> Len(L.attempts[n]) = 0
<1>1. L.attempts[n] \in Seq(AttemptState)
  BY DEF Ledger
<1>2. L.attempts[n] # << >> => L.attempts[n][Len(L.attempts[n])] \in AttemptState
  BY <1>1
<1>3. Len(L.attempts[n]) \in Nat /\ (L.attempts[n] = << >> <=> Len(L.attempts[n]) = 0)
  BY <1>1
<1> QED
  BY <1>2, <1>3 DEF LastState, HasAttemptInFlight, AttemptState, InFlight

\* A node whose state and attempts stay keeps its agreement of the two.
LEMMA SameFits ==
  ASSUME NEW L \in Ledger, NEW M \in Ledger, NEW n \in Ids, AttemptsFit(L, n),
         M.node[n] = L.node[n], M.attempts[n] = L.attempts[n], n \in M.retried <=> n \in L.retried
  PROVE  AttemptsFit(M, n)
BY DEF AttemptsFit, LastState, Fresh

\* Everything but the agreement of attempts follows from monotonicity
LEMMA SoundByParts ==
  ASSUME NEW L, Sound(L), NEW M \in Ledger, Advances(L, M),
         M.phase = "graph_published",
         \A m \in Ids : AttemptsFit(M, m),
         \A m \in Ids : M.node[m] = "passed" => L.node[m] = "passed" \/ Proven(M, m),
         \A m \in Ids : M.verdict[m] # "none" => L.verdict[m] # "none" \/ VerdictFits(M, m),
         \A m \in Planned : M.node[Rework(m)] # "absent" =>
                            L.node[Rework(m)] # "absent" \/ RevisionFits(M, m),
         \A m \in Ids : GateFits(M, m),
         \A m \in Ids : M.attempts[m] # << >> => L.attempts[m] # << >> \/ DepsSettled(L, m)
  PROVE  Sound(M)
<1>1. ASSUME NEW m \in Ids PROVE Proven(M, m)
  BY NodePairs DEF Sound, Proven, Advances
<1>2. ASSUME NEW m \in Ids PROVE VerdictFits(M, m)
  BY DEF Sound, VerdictFits, Advances
<1>3. ASSUME NEW m \in Ids PROVE RevisionFits(M, m)
  <2>1. CASE m \in Planned /\ L.node[Rework(m)] = "absent"
    BY <2>1, NodePairs DEF RevisionFits, Reworked
  <2>2. CASE m \in Planned /\ L.node[Rework(m)] # "absent"
    <3>1. Reworked(L, m) /\ RevisionFits(L, m)
      BY <2>2, PlannedAreNodes DEF Sound, Reworked
    <3> QED
      BY <3>1, PlannedAreNodes DEF RevisionFits, Advances
  <2>3. CASE m \notin Planned
    BY <2>3, PlannedAreNodes DEF RevisionFits, Reworked
  <2> QED BY <2>1, <2>2, <2>3
<1>4. ASSUME NEW m \in Ids, M.attempts[m] # << >> PROVE DepsSettled(M, m)
  BY <1>4, SettledKept DEF Sound
<1> QED
  BY <1>1, <1>2, <1>3, <1>4 DEF Sound, Unpublished

Final == {"passed", "failed", "inconclusive", "cancelled"}

\* A step of one node that is not final and waits for no verdict
LEMMA OneNode ==
  ASSUME NEW L, Sound(L), NEW M \in Ledger, NEW n \in Ids,
         L.phase = "graph_published", M.phase = "graph_published",
         M.gate = L.gate, M.verdict = L.verdict,
         \A m \in Ids \ {n} :
           /\ M.node[m] = L.node[m] /\ M.attempts[m] = L.attempts[m]
           /\ m \in M.retried <=> m \in L.retried,
         L.node[n] \notin Final \cup {"awaiting_verification", "absent"},
         M.node[n] \notin {"passed", "absent"},
         AttemptsFit(M, n), GateFits(M, n),
         Len(L.attempts[n]) <= Len(M.attempts[n]),
         M.attempts[n] # << >> => L.attempts[n] # << >> \/ DepsSettled(L, n)
  PROVE  Sound(M) /\ Advances(L, M)
<1>0. ASSUME NEW m \in Ids
      PROVE  \/ m = n
             \/ /\ M.node[m] = L.node[m] /\ M.attempts[m] = L.attempts[m]
                /\ m \in M.retried <=> m \in L.retried
  OBVIOUS
<1>1. Advances(L, M)
  <2>1. ASSUME NEW m \in Ids PROVE Len(L.attempts[m]) <= Len(M.attempts[m])
    <3>1. Len(L.attempts[m]) \in Nat
      BY LastStates DEF Sound
    <3> QED
      BY <1>0, <3>1
  <2> QED
    BY <1>0, <2>1 DEF Advances, Final, LastState
<1>2. ASSUME NEW m \in Ids PROVE AttemptsFit(M, m)
  BY <1>0, SameFits DEF Sound
<1>3. ASSUME NEW m \in Ids PROVE GateFits(M, m)
  BY <1>0 DEF Sound, GateFits, NeedsApproval
<1>4. ASSUME NEW m \in Planned, M.node[Rework(m)] # "absent"
      PROVE  L.node[Rework(m)] # "absent"
  BY <1>0, <1>4, PlannedAreNodes, NodePairs
<1> QED
  BY <1>1, <1>2, <1>3, <1>4, SoundByParts

\* Where the ledger of a sound run stands before an event other than the first two
LEMMA LegalPublished ==
  ASSUME NEW L, NEW e \in Event, Legal(L, e), e # Created, e # Published
  PROVE  L.phase = "graph_published" /\ L.terminal = "none" /\ LegalWhenPublished(L, e)
BY EventFields DEF Legal, LegalAfterTerminal, Created, Published, Status, Running, Dispatched, Finished,
     Reconciled, Retried, ReworkOf, GateOpened, GateExhausted, GateResolved, Verdict, Terminal

\* When the reducer accepts each kind of event, once the graph is published.
LEMMA LegalForms ==
  ASSUME NEW L
  PROVE  /\ \A s : LegalWhenPublished(L, Terminal(s)) <=> MayEnd(L, s)
         /\ \A n : /\ \A s : LegalWhenPublished(L, Status(n, s)) <=> CanMove(L, n, s)
                   /\ LegalWhenPublished(L, Running(n)) <=>
                        L.attempts[n] # << >> /\ CanMove(L, n, "running")
                   /\ LegalWhenPublished(L, Dispatched(n)) <=> CanMove(L, n, "assigned")
                   /\ \A o : LegalWhenPublished(L, Finished(n, o)) <=>
                        HasAttemptInFlight(L, n) /\ CanMove(L, n, NodeAfter(o))
                   /\ LegalWhenPublished(L, Reconciled(n)) <=>
                        HasAttemptInFlight(L, n) /\ CanMove(L, n, "outcome_unknown")
                   /\ LegalWhenPublished(L, Retried(n)) <=>
                        L.attempts[n] # << >> /\ n \notin L.retried /\ CanMove(L, n, "ready")
                   /\ \A v : LegalWhenPublished(L, ReworkOf(n, v)) <=>
                        /\ ~Reworked(L, n) /\ IsVerifier(v)
                        /\ L.node[Rework(v)] = "absent"
                   /\ LegalWhenPublished(L, GateOpened(n)) <=> L.gate[n] = "none"
                   /\ LegalWhenPublished(L, GateExhausted(n)) <=> n[1] \notin L.exhausted
                   /\ \A d : LegalWhenPublished(L, GateResolved(n, d)) <=> L.gate[n] = "open"
                   /\ \A ts, k : LegalWhenPublished(L, Verdict(n, ts, k)) <=>
                        MayJudge(L, Verdict(n, ts, k))
<1>1. \A s : LegalWhenPublished(L, Terminal(s)) <=> MayEnd(L, s)
  BY DEF LegalWhenPublished, Terminal
<1>2. \A n, s : LegalWhenPublished(L, Status(n, s)) <=> CanMove(L, n, s)
  BY DEF LegalWhenPublished, Status, MayChangeStatus
<1>3. \A n : LegalWhenPublished(L, Running(n)) <=>
          L.attempts[n] # << >> /\ CanMove(L, n, "running")
  BY DEF LegalWhenPublished, Running, MayStart
<1>4. \A n : LegalWhenPublished(L, Dispatched(n)) <=> CanMove(L, n, "assigned")
  BY DEF LegalWhenPublished, Dispatched, MayDispatch
<1>5. \A n, o : LegalWhenPublished(L, Finished(n, o)) <=>
          HasAttemptInFlight(L, n) /\ CanMove(L, n, NodeAfter(o))
  BY DEF LegalWhenPublished, Finished, MayFinish
<1>6. \A n : LegalWhenPublished(L, Reconciled(n)) <=>
          HasAttemptInFlight(L, n) /\ CanMove(L, n, "outcome_unknown")
  BY DEF LegalWhenPublished, Reconciled, MayReconcile
<1>7. \A n : LegalWhenPublished(L, Retried(n)) <=>
          L.attempts[n] # << >> /\ n \notin L.retried /\ CanMove(L, n, "ready")
  BY DEF LegalWhenPublished, Retried, MayRetry
<1>8. \A n, v : LegalWhenPublished(L, ReworkOf(n, v)) <=>
          /\ ~Reworked(L, n) /\ IsVerifier(v)
          /\ L.node[Rework(v)] = "absent"
  BY DEF LegalWhenPublished, ReworkOf, MayRework
<1>9. \A n : LegalWhenPublished(L, GateOpened(n)) <=> L.gate[n] = "none"
  BY DEF LegalWhenPublished, GateOpened, MayOpenGate
<1>10. \A n : LegalWhenPublished(L, GateExhausted(n)) <=> n[1] \notin L.exhausted
  BY DEF LegalWhenPublished, GateExhausted, MayExhaust
<1>11. \A n, d : LegalWhenPublished(L, GateResolved(n, d)) <=> L.gate[n] = "open"
  BY DEF LegalWhenPublished, GateResolved, MayResolve
<1>12. \A n, ts, k : LegalWhenPublished(L, Verdict(n, ts, k)) <=>
          MayJudge(L, Verdict(n, ts, k))
  BY DEF LegalWhenPublished, Verdict
<1> QED
  BY <1>1, <1>2, <1>3, <1>4, <1>5, <1>6, <1>7, <1>8, <1>9, <1>10, <1>11, <1>12
-----------------------------------------------------------------------------
(* One lemma per event: a legal, safe event leaves a sound ledger *)

\* node_status_changed keeps a ledger sound.
LEMMA StatusSound ==
  ASSUME NEW L, Sound(L), NEW n \in Ids, NEW s \in {"ready", "cancelled", "blocked"},
         L.phase = "graph_published", CanMove(L, n, s), Safe(L, Status(n, s))
  PROVE  Sound(Moved(L, n, s)) /\ Advances(L, Moved(L, n, s))
<1> DEFINE M == Moved(L, n, s)
<1>1. L \in Ledger /\ s \in NodeState
  BY DEF Sound, NodeState
<1>2. /\ M \in Ledger /\ M.node = [L.node EXCEPT ![n] = s]
      /\ M.attempts = L.attempts /\ M.retried = L.retried /\ M.gate = L.gate
      /\ M.verdict = L.verdict /\ M.phase = L.phase
  BY <1>1, MovedFields
<1>3. \/ s = "ready" /\ L.node[n] = "pending"
      \/ s = "cancelled" /\ L.node[n] \notin {"assigned", "running"}
      \/ s = "blocked" /\ L.node[n] = "outcome_unknown" /\ n \in L.retried
  BY DEF Safe, Status
<1>4. L.node[n] \in {"pending", "ready", "outcome_unknown", "blocked", "cancelled"}
  BY <1>1, <1>3 DEF CanMove, NodeMoves, Ledger, NodeState
<1>5. M.node[n] = s /\ \A m \in Ids \ {n} : M.node[m] = L.node[m]
  BY <1>1, <1>2 DEF Ledger
<1>6. AttemptsFit(L, n) /\ GateFits(L, n)
  BY DEF Sound
<1>7. LastState(M, n) = LastState(L, n) /\ (Fresh(M, n) <=> Fresh(L, n))
  BY <1>2 DEF LastState, Fresh
<1>8. AttemptsFit(M, n)
  <2>1. LastState(L, n) \in Left(s)
    BY <1>3, <1>4, <1>6, <1>7 DEF AttemptsFit, Left
  <2>2. s = "ready" => Fresh(L, n)
    BY <1>1, <1>3, <1>6, LastStates DEF AttemptsFit, Left, Fresh
  <2> HIDE DEF M
  <2> QED
    BY <1>2, <1>3, <1>5, <1>6, <1>7, <2>1, <2>2 DEF AttemptsFit
<1>9. CASE L.node[n] = "cancelled"
  <2>1. M.node = L.node
    BY <1>1, <1>2, <1>3, <1>9 DEF Ledger
  <2>2. M = L
    BY <1>1, <1>2, <1>3, <1>9 DEF Moved, Ledger
  <2> QED
    BY <2>2 DEF Advances
<1>10. CASE L.node[n] # "cancelled"
  <2>1. GateFits(M, n)
    BY <1>2, <1>3, <1>4, <1>5, <1>6, <1>10 DEF GateFits, NeedsApproval, Unstarted
  <2>2. Len(L.attempts[n]) <= Len(M.attempts[n])
    BY <1>1, <1>2, LastStates
  <2> QED
    BY <1>2, <1>4, <1>5, <1>8, <1>10, <2>1, <2>2, OneNode DEF Final
<1> QED
  BY <1>9, <1>10

\* running keeps a ledger sound.
LEMMA RunningSound ==
  ASSUME NEW L, Sound(L), NEW n \in Ids,
         L.phase = "graph_published", L.attempts[n] # << >>, CanMove(L, n, "running")
  PROVE  /\ Sound(Applied(L, Running(n)))
         /\ Advances(L, Applied(L, Running(n)))
<1> DEFINE K == WithAttempt(L, n, "running")
           M == Moved(K, n, "running")
<1>1. L \in Ledger
  BY DEF Sound
<1>2. /\ K \in Ledger /\ K.node = L.node
      /\ K.attempts = [L.attempts EXCEPT ![n] = [@ EXCEPT ![Len(L.attempts[n])] = "running"]]
      /\ K.retried = L.retried /\ K.gate = L.gate
      /\ K.verdict = L.verdict /\ K.phase = L.phase
  <2>1. "running" \in AttemptState
    BY DEF AttemptState, InFlight
  <2> QED
    BY <1>1, <2>1, WithAttemptFields, Zenon
<1>3. /\ M \in Ledger /\ M.node = [L.node EXCEPT ![n] = "running"]
      /\ M.attempts = K.attempts /\ M.retried = L.retried /\ M.gate = L.gate
      /\ M.verdict = L.verdict /\ M.phase = L.phase
  <2>1. "running" \in NodeState
    BY DEF NodeState
  <2> HIDE DEF K
  <2> QED
    BY <1>2, <2>1, MovedFields
<1>4. L.node[n] \in {"assigned", "running"}
  BY <1>1 DEF CanMove, NodeMoves, Ledger, NodeState
<1>5. M.node[n] = "running" /\ \A m \in Ids \ {n} : M.node[m] = L.node[m] /\ M.attempts[m] = L.attempts[m]
  BY <1>1, <1>2, <1>3 DEF Ledger
<1>6. AttemptsFit(L, n) /\ GateFits(L, n)
  BY DEF Sound
<1>7. L.attempts[n] \in Seq(AttemptState) /\ M.attempts[n] = [L.attempts[n] EXCEPT ![Len(L.attempts[n])] = "running"]
  BY <1>1, <1>2, <1>3 DEF Ledger
<1>8. /\ M.attempts[n] # << >> /\ Len(M.attempts[n]) = Len(L.attempts[n])
      /\ M.attempts[n][Len(L.attempts[n])] = "running"
      /\ \A i \in 1 .. Len(L.attempts[n]) - 1 : M.attempts[n][i] = L.attempts[n][i]
  BY <1>7
<1>9. AttemptsFit(M, n)
  BY <1>3, <1>4, <1>5, <1>6, <1>7, <1>8 DEF AttemptsFit, Left, LastState
<1>10. GateFits(M, n)
  BY <1>3, <1>6 DEF GateFits
<1>11. Sound(M) /\ Advances(L, M)
  <2>1. Len(L.attempts[n]) <= Len(M.attempts[n])
    BY <1>7, <1>8
  <2> QED
    BY <1>3, <1>4, <1>5, <1>9, <1>10, <2>1, OneNode DEF Final
<1> QED
  BY <1>11, AppliedForms

\* attempt_dispatched keeps a ledger sound if the dependencies are settled.
LEMMA DispatchSound ==
  ASSUME NEW L, Sound(L), NEW n \in Ids,
         L.phase = "graph_published", CanMove(L, n, "assigned"), Safe(L, Dispatched(n))
  PROVE  Sound(Assigned(L, n)) /\ Advances(L, Assigned(L, n))
<1> DEFINE K == Moved(L, n, "assigned")
           M == Assigned(L, n)
<1>1. L \in Ledger /\ AttemptsFit(L, n) /\ GateFits(L, n)
  BY DEF Sound
<1>2. L.node[n] # "assigned" /\ L.gate[n] # "open" /\ DepsSettled(L, n)
  BY DEF Safe, Dispatched
<1>3. L.node[n] = "ready"
  BY <1>1, <1>2 DEF CanMove, NodeMoves, Ledger, NodeState
<1>4. /\ K \in Ledger /\ K.node = [L.node EXCEPT ![n] = "assigned"]
      /\ K.attempts = L.attempts /\ K.retried = L.retried /\ K.gate = L.gate
      /\ K.verdict = L.verdict /\ K.phase = L.phase
  <2>1. "assigned" \in NodeState
    BY DEF NodeState
  <2> QED
    BY <1>1, <2>1, MovedFields
<1>5. Append(L.attempts[n], "dispatched") \in Seq(AttemptState) /\ L.attempts[n] \in Seq(AttemptState)
  BY <1>1 DEF Ledger, AttemptState, InFlight
<1>6. /\ M \in Ledger /\ M.node = K.node /\ M.retried = L.retried /\ M.gate = L.gate
      /\ M.attempts = [L.attempts EXCEPT ![n] = Append(@, "dispatched")]
      /\ M.verdict = L.verdict /\ M.phase = L.phase
  <2> HIDE DEF K
  <2>1. M = [K EXCEPT !.attempts = [K.attempts EXCEPT ![n] = Append(@, "dispatched")]]
    BY <1>4 DEF Assigned, K, Ledger
  <2>2. [K.attempts EXCEPT ![n] = Append(@, "dispatched")] \in [Ids -> Seq(AttemptState)]
    BY <1>1, <1>4, <1>5 DEF Ledger
  <2> QED
    BY <1>4, <2>1, <2>2 DEF Ledger
<1>7. /\ M.node[n] = "assigned" /\ M.attempts[n] = Append(L.attempts[n], "dispatched")
      /\ \A m \in Ids \ {n} : M.node[m] = L.node[m] /\ M.attempts[m] = L.attempts[m]
  BY <1>1, <1>4, <1>6 DEF Ledger
<1>8. Fresh(L, n)
  BY <1>1, <1>3 DEF AttemptsFit
<1>9. /\ M.attempts[n] # << >> /\ M.attempts[n][Len(M.attempts[n])] = "dispatched"
      /\ Len(M.attempts[n]) = Len(L.attempts[n]) + 1
      /\ \A i \in 1 .. Len(L.attempts[n]) : M.attempts[n][i] = L.attempts[n][i]
  BY <1>5, <1>7
<1> HIDE DEF M
<1>10. AttemptsFit(M, n)
  <2>1. LastState(M, n) \in Left(M.node[n])
    BY <1>7, <1>9 DEF LastState, Left
  <2>2. CASE L.attempts[n] = << >>
    BY <1>1, <1>3, <1>6, <1>7, <1>9, <2>1, <2>2 DEF AttemptsFit
  <2>3. CASE Len(L.attempts[n]) = 1 /\ n \in L.retried
    BY <1>1, <1>3, <1>6, <1>7, <1>9, <2>1, <2>3 DEF AttemptsFit
  <2> QED
    BY <1>8, <2>2, <2>3 DEF Fresh
<1>11. GateFits(M, n)
  BY <1>2, <1>6 DEF GateFits
<1>12. Sound(M) /\ Advances(L, M)
  <2>1. Len(L.attempts[n]) <= Len(M.attempts[n])
    BY <1>5, <1>9
  <2> QED
    BY <1>2, <1>3, <1>4, <1>6, <1>7, <1>10, <1>11, <2>1, OneNode DEF Final
<1> QED
  BY <1>12 DEF M

\* worker_finished and reconciled keep a ledger sound.
LEMMA EndSound ==
  ASSUME NEW L, Sound(L), NEW n \in Ids, NEW o \in Outcomes,
         L.phase = "graph_published", HasAttemptInFlight(L, n), CanMove(L, n, NodeAfter(o))
  PROVE  Sound(Ended(L, n, o)) /\ Advances(L, Ended(L, n, o))
<1> DEFINE K == WithAttempt(L, n, AttemptAfter(o))
           M == Ended(L, n, o)
<1>1. L \in Ledger /\ AttemptsFit(L, n) /\ GateFits(L, n)
  BY DEF Sound
<1>2. L.node[n] \in {"assigned", "running"} /\ L.attempts[n] # << >>
  BY <1>1, LastStates DEF AttemptsFit, Left, Ledger, NodeState, InFlight, HasAttemptInFlight
<1>3. /\ AttemptAfter(o) \in AttemptState /\ NodeAfter(o) \in NodeState
      /\ AttemptAfter(o) \in Left(NodeAfter(o))
      /\ NodeAfter(o) \notin {"passed", "absent", "ready", "blocked"}
      /\ NodeAfter(o) \in Unstarted => AttemptAfter(o) # "never"
  BY DEF AttemptAfter, NodeAfter, AttemptState, NodeState, Outcomes, Left, Unstarted
<1>4. /\ K \in Ledger /\ K.node = L.node
      /\ K.attempts = [L.attempts EXCEPT ![n] = [@ EXCEPT ![Len(L.attempts[n])] = AttemptAfter(o)]]
      /\ K.retried = L.retried /\ K.gate = L.gate
      /\ K.verdict = L.verdict /\ K.phase = L.phase
  BY <1>1, <1>2, <1>3, WithAttemptFields, Zenon
<1>5. /\ M \in Ledger /\ M.node = [L.node EXCEPT ![n] = NodeAfter(o)]
      /\ M.attempts = K.attempts /\ M.retried = L.retried /\ M.gate = L.gate
      /\ M.verdict = L.verdict /\ M.phase = L.phase
  <2>1. M = Moved(K, n, NodeAfter(o))
    BY DEF Ended
  <2> HIDE DEF K, M
  <2> QED
    BY <1>3, <1>4, <2>1, MovedFields
<1>6. /\ M.node[n] = NodeAfter(o)
      /\ \A m \in Ids \ {n} : M.node[m] = L.node[m] /\ M.attempts[m] = L.attempts[m]
  BY <1>1, <1>4, <1>5 DEF Ledger
<1>7. /\ L.attempts[n] \in Seq(AttemptState)
      /\ M.attempts[n] = [L.attempts[n] EXCEPT ![Len(L.attempts[n])] = AttemptAfter(o)]
  BY <1>1, <1>4, <1>5 DEF Ledger
<1>8. /\ M.attempts[n] # << >> /\ Len(M.attempts[n]) = Len(L.attempts[n])
      /\ M.attempts[n][Len(L.attempts[n])] = AttemptAfter(o)
      /\ \A i \in 1 .. Len(L.attempts[n]) - 1 : M.attempts[n][i] = L.attempts[n][i]
  BY <1>2, <1>7
<1> HIDE DEF M
<1>9. L.attempts[n][1] = "outcome_unknown" => Len(L.attempts[n]) # 1
  BY <1>1, <1>2 DEF AttemptsFit, Left, LastState
<1>10. AttemptsFit(M, n)
  <2>1. LastState(M, n) \in Left(M.node[n])
    BY <1>3, <1>6, <1>8 DEF LastState
  <2>2. n \in L.retried => M.attempts[n][1] = "outcome_unknown"
    BY <1>1, <1>7, <1>8, <1>9 DEF AttemptsFit
  <2> QED
    BY <1>1, <1>3, <1>5, <1>6, <1>7, <1>8, <2>1, <2>2 DEF AttemptsFit
<1>11. GateFits(M, n)
  BY <1>1, <1>2, <1>5 DEF GateFits
<1>12. Sound(M) /\ Advances(L, M)
  <2>1. Len(L.attempts[n]) <= Len(M.attempts[n])
    BY <1>7, <1>8
  <2> QED
    BY <1>2, <1>3, <1>5, <1>6, <1>10, <1>11, <2>1, OneNode DEF Final
<1> QED
  BY <1>12 DEF M

\* retry_created keeps a ledger sound, and follows an unknown outcome only.
LEMMA RetrySound ==
  ASSUME NEW L, Sound(L), NEW n \in Ids,
         L.phase = "graph_published", L.attempts[n] # << >>, n \notin L.retried,
         CanMove(L, n, "ready")
  PROVE  /\ Sound(Applied(L, Retried(n))) /\ Advances(L, Applied(L, Retried(n)))
         /\ L.node[n] = "outcome_unknown"
<1> DEFINE K == Moved(L, n, "ready")
           M == [K EXCEPT !.retried = @ \cup {n}]
<1>1. L \in Ledger /\ AttemptsFit(L, n) /\ GateFits(L, n)
  BY DEF Sound
<1>2. L.node[n] = "outcome_unknown"
  BY <1>1, LastStates DEF CanMove, NodeMoves, Ledger, NodeState, AttemptsFit, Left, Fresh
<1>3. /\ K \in Ledger /\ K.node = [L.node EXCEPT ![n] = "ready"]
      /\ K.attempts = L.attempts /\ K.retried = L.retried /\ K.gate = L.gate
      /\ K.verdict = L.verdict /\ K.phase = L.phase
  <2>1. "ready" \in NodeState
    BY DEF NodeState
  <2> QED
    BY <1>1, <2>1, MovedFields
<1>4. /\ M \in Ledger /\ M.node = K.node /\ M.retried = L.retried \cup {n} /\ M.gate = L.gate
      /\ M.attempts = L.attempts /\ M.verdict = L.verdict /\ M.phase = L.phase
  <2> HIDE DEF K
  <2> QED
    BY <1>3 DEF Ledger
<1> HIDE DEF M
<1>5. M.node[n] = "ready" /\ \A m \in Ids \ {n} : M.node[m] = L.node[m]
  BY <1>1, <1>3, <1>4 DEF Ledger
<1>6. Len(L.attempts[n]) = 1 /\ L.attempts[n][1] = "outcome_unknown"
  <2>1. Len(L.attempts[n]) <= 1 /\ LastState(L, n) = "outcome_unknown"
    BY <1>1, <1>2 DEF AttemptsFit, Left
  <2>2. Len(L.attempts[n]) \in Nat /\ Len(L.attempts[n]) # 0
    BY <1>1, LastStates
  <2>3. Len(L.attempts[n]) = 1
    <3>1. ASSUME NEW k \in Nat, k # 0, k <= 1 PROVE k = 1
      BY <3>1
    <3> QED
      BY <2>1, <2>2, <3>1
  <2>4. LastState(L, n) = L.attempts[n][Len(L.attempts[n])]
    BY DEF LastState
  <2> QED
    BY <2>1, <2>3, <2>4
<1>7. AttemptsFit(M, n)
  BY <1>4, <1>5, <1>6 DEF AttemptsFit, Left, LastState, Fresh
<1>8. GateFits(M, n)
  BY <1>1, <1>4 DEF GateFits
<1>9. Sound(M) /\ Advances(L, M)
  BY <1>2, <1>3, <1>4, <1>5, <1>7, <1>8, OneNode DEF Final
<1>10. Applied(L, Retried(n)) = M
  BY DEF M, Applied, Retried
<1> QED
  BY <1>2, <1>9, <1>10

\* Gates, the rework-exhausted mark and the terminal leave nodes alone
LEMMA SameNodes ==
  ASSUME NEW L, Sound(L), NEW M \in Ledger, L.phase = "graph_published", M.phase = "graph_published",
         M.node = L.node, M.attempts = L.attempts, M.retried = L.retried, M.verdict = L.verdict,
         \A m \in Ids : L.gate[m] \notin {"none", "open"} => M.gate[m] = L.gate[m],
         \A m \in Ids : GateFits(M, m)
  PROVE  Sound(M) /\ Advances(L, M)
<1>1. Advances(L, M)
  <2>1. ASSUME NEW m \in Ids PROVE Len(L.attempts[m]) \in Nat
    BY LastStates DEF Sound
  <2> QED
    BY <2>1 DEF Advances, LastState
<1>2. ASSUME NEW m \in Ids PROVE AttemptsFit(M, m)
  BY SameFits DEF Sound
<1> QED
  BY <1>1, <1>2, PlannedAreNodes, SoundByParts

\* gate_created keeps a ledger sound if the node has not started.
LEMMA GateOpenedSound ==
  ASSUME NEW L, Sound(L), NEW n \in Ids, L.phase = "graph_published",
         L.gate[n] = "none", Safe(L, GateOpened(n))
  PROVE  /\ Sound([L EXCEPT !.gate[n] = "open"])
         /\ Advances(L, [L EXCEPT !.gate[n] = "open"])
<1> DEFINE M == [L EXCEPT !.gate[n] = "open"]
<1>1. L \in Ledger
  BY DEF Sound
<1>2. /\ M \in Ledger /\ M.node = L.node /\ M.attempts = L.attempts /\ M.retried = L.retried
      /\ M.gate = [L.gate EXCEPT ![n] = "open"] /\ M.verdict = L.verdict /\ M.phase = L.phase
  BY <1>1 DEF Ledger
<1> HIDE DEF M
<1>3. ASSUME NEW m \in Ids PROVE M.gate[m] = IF m = n THEN "open" ELSE L.gate[m]
  BY <1>1, <1>2 DEF Ledger
<1>4. NeedsApproval(L, n) /\ L.attempts[n] = << >> /\ L.node[n] \in Unstarted
  BY DEF Safe, GateOpened
<1>5. ASSUME NEW m \in Ids, NeedsApproval(L, m) PROVE NeedsApproval(M, m)
  BY <1>3, <1>5, NodePairs, PlannedAreNodes DEF NeedsApproval
<1>6. ASSUME NEW m \in Ids PROVE GateFits(M, m)
  BY <1>2, <1>3, <1>4, <1>5 DEF GateFits, Sound
<1>7. Sound(M) /\ Advances(L, M)
  BY <1>2, <1>3, <1>6, SameNodes
<1> QED
  BY <1>7 DEF M

\* gate_resolved keeps a ledger sound.
LEMMA GateResolvedSound ==
  ASSUME NEW L, Sound(L), NEW n \in Ids, NEW d \in Decisions, L.phase = "graph_published",
         L.gate[n] = "open"
  PROVE  /\ Sound([L EXCEPT !.gate[n] = d])
         /\ Advances(L, [L EXCEPT !.gate[n] = d])
<1> DEFINE M == [L EXCEPT !.gate[n] = d]
<1>1. L \in Ledger /\ d # "open"
  BY DEF Sound, Decisions
<1>2. /\ M \in Ledger /\ M.node = L.node /\ M.attempts = L.attempts /\ M.retried = L.retried
      /\ M.gate = [L.gate EXCEPT ![n] = d] /\ M.verdict = L.verdict /\ M.phase = L.phase
  BY <1>1 DEF Ledger
<1> HIDE DEF M
<1>3. ASSUME NEW m \in Ids PROVE M.gate[m] = IF m = n THEN d ELSE L.gate[m]
  BY <1>1, <1>2 DEF Ledger
<1>4. ASSUME NEW m \in Ids, M.gate[m] = "open" PROVE GateFits(M, m)
  <2>1. m # n /\ L.gate[m] = "open" /\ NeedsApproval(L, m)
    BY <1>1, <1>3, <1>4 DEF Sound, GateFits
  <2>2. L.attempts[m] = << >> /\ L.node[m] \in Unstarted
    BY <2>1 DEF Sound, GateFits
  <2>3. n # <<m[1], 0>>
    <3>1. SUFFICES ASSUME n = <<m[1], 0>> PROVE FALSE
      OBVIOUS
    <3>2. n \in Planned /\ Rework(n) = m
      BY <2>1, <3>1, NodePairs DEF Rework
    <3>3. Reworked(L, n)
      BY <2>2, <3>1, <3>2 DEF Reworked, Unstarted
    <3> QED
      BY <3>3 DEF Sound, RevisionFits, GateFits, Unstarted
  <2>4. <<m[1], 0>> \in Ids
    BY NodePairs, PlannedAreNodes
  <2> QED
    BY <1>2, <1>3, <2>1, <2>2, <2>3, <2>4 DEF GateFits, NeedsApproval
<1>5. ASSUME NEW m \in Ids PROVE GateFits(M, m)
  BY <1>4 DEF GateFits
<1>6. Sound(M) /\ Advances(L, M)
  BY <1>2, <1>3, <1>5, SameNodes
<1> QED
  BY <1>6 DEF M

\* Exhausting the rework of a node, and ending the run, touch no node.
LEMMA MarksSound ==
  ASSUME NEW L, Sound(L), L.phase = "graph_published"
  PROVE  /\ \A n \in Ids : /\ Sound([L EXCEPT !.exhausted = @ \cup {n[1]}])
                           /\ Advances(L, [L EXCEPT !.exhausted = @ \cup {n[1]}])
         /\ \A t \in Terminals : /\ Sound([L EXCEPT !.terminal = t])
                                 /\ Advances(L, [L EXCEPT !.terminal = t])
<1>0. L \in Ledger /\ \A m \in Ids : GateFits(L, m)
  BY DEF Sound
<1>1. ASSUME NEW M \in Ledger, M.phase = L.phase, M.node = L.node, M.attempts = L.attempts,
             M.retried = L.retried, M.verdict = L.verdict, M.gate = L.gate
      PROVE  Sound(M) /\ Advances(L, M)
  <2>1. ASSUME NEW m \in Ids PROVE GateFits(M, m)
    BY <1>0, <1>1 DEF GateFits, NeedsApproval
  <2> QED
    BY <1>1, <2>1, SameNodes
<1>2. ASSUME NEW n \in Ids
      PROVE  /\ Sound([L EXCEPT !.exhausted = @ \cup {n[1]}])
             /\ Advances(L, [L EXCEPT !.exhausted = @ \cup {n[1]}])
  <2> DEFINE M == [L EXCEPT !.exhausted = @ \cup {n[1]}]
  <2>1. /\ M \in Ledger /\ M.phase = L.phase /\ M.node = L.node /\ M.attempts = L.attempts
        /\ M.retried = L.retried /\ M.verdict = L.verdict /\ M.gate = L.gate
    BY <1>0, NodePairs DEF Ledger
  <2> HIDE DEF M
  <2>2. Sound(M) /\ Advances(L, M)
    BY <1>1, <2>1
  <2> QED
    BY <2>2 DEF M
<1>3. ASSUME NEW t \in Terminals
      PROVE  /\ Sound([L EXCEPT !.terminal = t])
             /\ Advances(L, [L EXCEPT !.terminal = t])
  <2> DEFINE M == [L EXCEPT !.terminal = t]
  <2>1. /\ M \in Ledger /\ M.phase = L.phase /\ M.node = L.node /\ M.attempts = L.attempts
        /\ M.retried = L.retried /\ M.verdict = L.verdict /\ M.gate = L.gate
    BY <1>0 DEF Ledger
  <2> HIDE DEF M
  <2>2. Sound(M) /\ Advances(L, M)
    BY <1>1, <2>1
  <2> QED
    BY <2>2 DEF M
<1> QED
  BY <1>2, <1>3

\* rework_created keeps a ledger sound if the verifier sent the failed work back.
LEMMA ReviseSound ==
  ASSUME NEW L, Sound(L), NEW n \in Ids, NEW v \in Ids, L.phase = "graph_published",
         ~Reworked(L, n), IsVerifier(v), L.node[Rework(v)] = "absent",
         Safe(L, ReworkOf(n, v))
  PROVE  Sound(Revised(L, n, v)) /\ Advances(L, Revised(L, n, v))
<1> DEFINE K == Moved(L, Rework(n), "pending")
           M == Revised(L, n, v)
<1>0. L \in Ledger /\ Rework(n) \in Ids /\ Rework(v) \in Ids /\ "pending" \in NodeState
  BY NodePairs DEF Sound, NodeState
<1>1. /\ n \in Planned /\ v \in Planned /\ n \in DepsOf(v)
      /\ L.node[n] = "failed" /\ L.node[v] = "failed" /\ L.verdict[v] = "revise"
  BY DEF Safe, ReworkOf
<1>2. L.node[Rework(n)] = "absent"
  BY <1>1, PlannedAreNodes DEF Reworked
<1>3. /\ K \in Ledger /\ K.node = [L.node EXCEPT ![Rework(n)] = "pending"]
      /\ K.attempts = L.attempts /\ K.retried = L.retried /\ K.gate = L.gate
      /\ K.verdict = L.verdict /\ K.phase = L.phase
  BY <1>0, MovedFields
<1>4. /\ M \in Ledger /\ M.node = [K.node EXCEPT ![Rework(v)] = "pending"]
      /\ M.attempts = L.attempts /\ M.retried = L.retried /\ M.gate = L.gate
      /\ M.verdict = L.verdict /\ M.phase = L.phase
  <2>1. M = Moved(K, Rework(v), "pending")
    BY DEF Revised
  <2> HIDE DEF K, M
  <2> QED
    BY <1>0, <1>3, <2>1, MovedFields
<1> HIDE DEF M
<1>5. ASSUME NEW m \in Ids
      PROVE  /\ M.node[m] = IF m \in {Rework(n), Rework(v)} THEN "pending" ELSE L.node[m]
             /\ m \in {Rework(n), Rework(v)} => L.node[m] = "absent"
  BY <1>0, <1>2, <1>3, <1>4 DEF Ledger
<1>6. Advances(L, M)
  BY <1>0, <1>4, <1>5, LastStates DEF Advances, LastState
<1>7. ASSUME NEW m \in Ids PROVE AttemptsFit(M, m)
  <2>1. AttemptsFit(L, m)
    BY DEF Sound
  <2>2. CASE m \in {Rework(n), Rework(v)}
    <3>1. L.attempts[m] = << >> /\ m \notin L.retried /\ LastState(L, m) = "never"
      BY <1>0, <1>5, <2>1, <2>2, LastStates DEF AttemptsFit, Left
    <3> QED
      BY <1>4, <1>5, <2>1, <2>2, <3>1 DEF AttemptsFit, Left, LastState
  <2>3. CASE m \notin {Rework(n), Rework(v)}
    BY <1>0, <1>4, <1>5, <2>1, <2>3, SameFits
  <2> QED BY <2>2, <2>3
<1>8. ASSUME NEW m \in Planned, M.node[Rework(m)] # "absent", L.node[Rework(m)] = "absent"
      PROVE  RevisionFits(M, m)
  <2>1. m \in Ids /\ Rework(m) \in Ids /\ m[2] = 0
    BY NodePairs, PlannedAreNodes
  <2>2. Rework(m) \in {Rework(n), Rework(v)}
    BY <1>5, <1>8, <2>1
  <2>3. m = n \/ m = v
    <3>1. m = <<m[1], m[2]>> /\ n = <<n[1], n[2]>> /\ v = <<v[1], v[2]>> /\ n[2] = 0 /\ v[2] = 0
      BY <1>1, <2>1, NodePairs, PlannedAreNodes
    <3>2. m[1] = n[1] \/ m[1] = v[1]
      BY <2>2 DEF Rework
    <3> QED
      BY <2>1, <3>1, <3>2, Zenon
  <2>4. M.node[m] = "failed" /\ M.verdict[v] = "revise"
    BY <1>1, <1>4, <1>5, <2>1, <2>3
  <2> QED
    BY <1>1, <2>3, <2>4 DEF RevisionFits
<1>9. ASSUME NEW m \in Ids PROVE GateFits(M, m)
  BY <1>4, <1>5 DEF Sound, GateFits, NeedsApproval, Unstarted
<1>10. Sound(M)
  <2>1. /\ \A m \in Ids : M.node[m] = "passed" => L.node[m] = "passed" \/ Proven(M, m)
        /\ \A m \in Ids : M.verdict[m] # "none" => L.verdict[m] # "none" \/ VerdictFits(M, m)
        /\ \A m \in Ids : M.attempts[m] # << >> => L.attempts[m] # << >> \/ DepsSettled(L, m)
        /\ M.phase = "graph_published"
    BY <1>4, <1>5
  <2> QED
    BY <1>4, <1>6, <1>7, <1>8, <1>9, <2>1, SoundByParts, Zenon
<1> QED
  BY <1>6, <1>10 DEF M

\* A verdict settles only work whose attempt succeeded
LEMMA JudgeSound ==
  ASSUME NEW L, Sound(L), NEW n \in Ids, NEW ts \in SUBSET Ids, NEW k \in Verdicts,
         L.phase = "graph_published", MayJudge(L, Verdict(n, ts, k)), Safe(L, Verdict(n, ts, k))
  PROVE  /\ Sound(Judgement(L, Verdict(n, ts, k)))
         /\ Advances(L, Judgement(L, Verdict(n, ts, k)))
<1> DEFINE M == Judgement(L, Verdict(n, ts, k))
           follows == ts # {n} /\ L.node[n] \in {"running", "awaiting_verification"}
           own == IF k = "pass" THEN "passed" ELSE "failed"
<1>0. L \in Ledger
  BY DEF Sound
<1>1. /\ L.verdict[n] = "none"
      /\ \/ /\ IsVerifier(n) /\ ts = DepsOf(n) /\ DepsSettled(L, n)
            /\ L.node[n] \in {"awaiting_verification", "failed"}
         \/ /\ n[1] \in Deterministic /\ ts = {n} /\ k = "pass"
            /\ L.node[n] = "awaiting_verification"
  BY DEF Safe, Verdict
<1>2. /\ \A t \in ts : CanMove(L, t, Judged(k))
      /\ follows => CanMove(L, n, own)
  BY DEF MayJudge, Verdict, FollowsVerdict, OwnState
<1>3. Judged(k) \in {"passed", "failed", "inconclusive"} /\ own \in {"passed", "failed"}
  BY DEF Judged, Verdicts
<1>4. /\ M \in Ledger
      /\ M.node = [m \in Ids |-> IF m \in ts THEN Judged(k)
                                 ELSE IF m = n /\ follows THEN own ELSE L.node[m]]
      /\ M.verdict = [L.verdict EXCEPT ![n] = k]
      /\ M.attempts = L.attempts /\ M.retried = L.retried /\ M.gate = L.gate /\ M.phase = L.phase
  <2> DEFINE N == [m \in Ids |-> IF m \in ts THEN Judged(k)
                                 ELSE IF m = n /\ follows THEN own ELSE L.node[m]]
  <2>1. M = [L EXCEPT !.node = N, !.verdict = [L.verdict EXCEPT ![n] = k]]
    BY <1>0 DEF Judgement, Verdict, FollowsVerdict, OwnState, Ledger
  <2>2. N \in [Ids -> NodeState]
    BY <1>0, <1>3 DEF Ledger, NodeState
  <2> HIDE DEF N
  <2>3. [L EXCEPT !.node = N, !.verdict = [L.verdict EXCEPT ![n] = k]] \in Ledger
    BY <1>0, <2>2 DEF Ledger
  <2> QED
    BY <1>0, <2>1, <2>3 DEF Ledger, N
<1> HIDE DEF M
<1>5. ASSUME NEW m \in Ids PROVE AttemptsFit(L, m) /\ GateFits(L, m)
  BY DEF Sound
<1>6. ASSUME NEW m \in ts
      PROVE  /\ m \in Ids /\ LastState(L, m) = "succeeded" /\ L.attempts[m] # << >>
             /\ L.node[m] \in {"awaiting_verification", "passed", "failed", "inconclusive"}
             /\ L.node[m] \in Final => Judged(k) = L.node[m]
  <2>1. /\ LastState(L, m) = "succeeded"
        /\ L.node[m] \in {"awaiting_verification", "passed", "failed", "inconclusive"}
    BY <1>1, <1>5 DEF DepsSettled, DepSettled, AttemptsFit, Left
  <2> QED
    BY <1>0, <1>2, <2>1, LastStates DEF CanMove, NodeMoves, Final
<1>7. ASSUME follows
      PROVE  /\ n \notin ts /\ LastState(L, n) = "succeeded" /\ L.attempts[n] # << >>
             /\ L.node[n] = "awaiting_verification" /\ IsVerifier(n)
  BY <1>0, <1>1, <1>5, <1>7, NodePairs, LastStates DEF AttemptsFit, Left
<1> HIDE DEF follows, own
<1>8. ASSUME NEW m \in Ids
      PROVE  \/ m \in ts /\ M.node[m] = Judged(k)
             \/ m = n /\ follows /\ M.node[m] = own
             \/ m \notin ts /\ M.node[m] = L.node[m] /\ ~(m = n /\ follows)
  BY <1>4
<1>9. ASSUME NEW m \in Ids
      PROVE  M.verdict[m] = IF m = n THEN k ELSE L.verdict[m]
  BY <1>0, <1>4 DEF Ledger
<1>10. Advances(L, M)
  <2>1. ASSUME NEW m \in Ids
        PROVE  /\ L.node[m] \in Final => M.node[m] = L.node[m]
               /\ L.node[m] = "awaiting_verification" =>
                    M.node[m] \in {"awaiting_verification", "passed", "failed", "inconclusive"}
               /\ L.node[m] # "absent" => M.node[m] # "absent"
    BY <1>3, <1>6, <1>7, <1>8 DEF Final
  <2> QED
    BY <1>0, <1>1, <1>4, <1>9, <2>1, LastStates DEF Advances, Final, LastState
<1>11. ASSUME NEW m \in Ids PROVE AttemptsFit(M, m)
  <2>1. CASE M.node[m] = L.node[m]
    BY <1>0, <1>4, <1>5, <2>1, SameFits
  <2>2. CASE M.node[m] # L.node[m]
    <3>1. LastState(L, m) = "succeeded" /\ M.node[m] \in {"passed", "failed", "inconclusive"}
      BY <1>3, <1>6, <1>7, <1>8, <2>2
    <3> QED
      BY <1>4, <1>5, <3>1 DEF AttemptsFit, Left, LastState
  <2> QED BY <2>1, <2>2
<1>12. ASSUME NEW m \in Ids, M.node[m] = "passed", L.node[m] # "passed" PROVE Proven(M, m)
  <2>1. k = "pass"
    BY <1>8, <1>12 DEF Judged, Verdicts, own
  <2>2. M.verdict[n] = "pass"
    BY <1>9, <2>1
  <2> QED
    BY <1>1, <1>7, <1>8, <1>12, <2>2 DEF Proven
<1>13. VerdictFits(M, n)
  <2>1. CASE IsVerifier(n) /\ ts = DepsOf(n) /\ L.node[n] = "awaiting_verification"
    <3>1. n \notin ts /\ follows
      BY <2>1, NodePairs DEF follows
    <3>2. M.node[n] = own
      BY <1>8, <3>1
    <3> QED
      BY <1>3, <1>9, <3>2 DEF VerdictFits, own
  <2>2. CASE IsVerifier(n) /\ ts = DepsOf(n) /\ L.node[n] = "failed"
    <3>1. M.node[n] = "failed"
      BY <1>10, <2>2 DEF Advances
    <3> QED
      BY <3>1 DEF VerdictFits
  <2>3. CASE ts = {n} /\ k = "pass"
    <3>1. M.node[n] = "passed"
      BY <1>7, <1>8, <2>3 DEF Judged
    <3> QED
      BY <1>9, <2>3, <3>1 DEF VerdictFits
  <2> QED BY <1>1, <2>1, <2>2, <2>3
<1>14. ASSUME NEW m \in Ids, M.verdict[m] # "none", L.verdict[m] = "none" PROVE VerdictFits(M, m)
  BY <1>9, <1>13, <1>14
<1>15. ASSUME NEW m \in Ids, M.node[m] # "absent" PROVE L.node[m] # "absent"
  BY <1>6, <1>7, <1>8, <1>15
<1>16. ASSUME NEW m \in Ids PROVE GateFits(M, m)
  BY <1>4, <1>5, <1>6, <1>7, <1>8 DEF GateFits, NeedsApproval
<1>17. ASSUME NEW m \in Planned, M.node[Rework(m)] # "absent" PROVE L.node[Rework(m)] # "absent"
  BY <1>15, <1>17, NodePairs, PlannedAreNodes
<1>18. Sound(M)
  <2>1. \A m \in Ids : M.attempts[m] # << >> => L.attempts[m] # << >> \/ DepsSettled(L, m)
    BY <1>4
  <2>2. M.phase = "graph_published"
    BY <1>4
  <2> QED
    BY <1>4, <1>10, <1>11, <1>12, <1>14, <1>16, <1>17, <2>1, <2>2, SoundByParts, Zenon
<1> QED
  BY <1>10, <1>18 DEF M

\* Nothing has happened yet, or the graph was just published
LEMMA BlankSound ==
  ASSUME NEW p \in {"none", "run_created", "graph_published"}
  PROVE  Sound([EmptyLedger EXCEPT !.phase = p])
<1> DEFINE M == [EmptyLedger EXCEPT !.phase = p]
<1>1. /\ M.phase = p /\ M.node = [n \in Ids |-> IF n \in Planned THEN "pending" ELSE "absent"]
      /\ M.attempts = [n \in Ids |-> << >>] /\ M.retried = {} /\ M.gate = [n \in Ids |-> "none"]
      /\ M.verdict = [n \in Ids |-> "none"]
  BY DEF EmptyLedger
<1>2. M \in Ledger
  <2>1. << >> \in Seq(AttemptState) /\ "pending" \in NodeState /\ "absent" \in NodeState
    BY DEF NodeState
  <2>2. /\ [n \in Ids |-> IF n \in Planned THEN "pending" ELSE "absent"] \in [Ids -> NodeState]
        /\ [n \in Ids |-> << >>] \in [Ids -> Seq(AttemptState)]
    BY <2>1
  <2> QED
    BY <2>2 DEF EmptyLedger, Ledger
<1>3. Unpublished(M)
  BY <1>1 DEF Unpublished
<1> HIDE DEF M
<1>4. ASSUME NEW n \in Ids
      PROVE  M.node[n] \in {"pending", "absent"} /\ M.attempts[n] = << >> /\ n \notin M.retried
  BY <1>1
<1>5. ASSUME NEW n \in Ids PROVE AttemptsFit(M, n)
  BY <1>2, <1>4, LastStates DEF AttemptsFit, LastState, Left
<1>6. ASSUME NEW n \in Ids
      PROVE  Proven(M, n) /\ VerdictFits(M, n) /\ GateFits(M, n)
  BY <1>1, <1>4 DEF Proven, VerdictFits, GateFits
<1>7. ASSUME NEW n \in Ids PROVE ~Reworked(M, n)
  <2>1. Rework(n) \in Ids /\ Rework(n)[2] = 1
    BY NodePairs DEF Rework
  <2>2. Rework(n) \notin Planned
    BY <2>1, PlannedAreNodes
  <2> QED
    BY <1>1, <2>1, <2>2 DEF Reworked
<1>8. Sound(M)
  BY <1>2, <1>3, <1>4, <1>5, <1>6, <1>7 DEF Sound, RevisionFits
<1> QED
  BY <1>8 DEF M

(* The reducer's guards, and the conditions of Safe on top of them, keep     *)
(* every ledger sound; and what one event has settled no later one unsettles.*)
LEMMA SoundKept ==
  ASSUME NEW L, Sound(L), NEW e \in Event, Legal(L, e), Safe(L, e)
  PROVE  Sound(Applied(L, e)) /\ Advances(L, Applied(L, e))
<1>1. CASE e = Created \/ e = Published
  <2>1. L.phase # "graph_published"
    BY <1>1 DEF Legal, LegalAfterTerminal, LegalWhenPublished, Created, Published
  <2>2. L = [EmptyLedger EXCEPT !.phase = L.phase]
    BY <2>1 DEF Sound, Unpublished
  <2>3. PICK p \in {"run_created", "graph_published"} : Applied(L, e) = [L EXCEPT !.phase = p]
    BY <1>1, AppliedForms, Zenon
  <2>4. [L EXCEPT !.phase = p] = [EmptyLedger EXCEPT !.phase = p]
    BY <2>2
  <2>5. Sound(Applied(L, e))
    BY <2>3, <2>4, BlankSound
  <2>6. L \in Ledger
    BY DEF Sound
  <2>7. [L EXCEPT !.phase = p].node = L.node /\ [L EXCEPT !.phase = p].attempts = L.attempts
        /\ [L EXCEPT !.phase = p].verdict = L.verdict /\ [L EXCEPT !.phase = p].gate = L.gate
    BY <2>6 DEF Ledger
  <2> QED
    BY <2>3, <2>5, <2>6, <2>7, LastStates DEF Advances, LastState
<1>2. CASE e # Created /\ e # Published
  <2>0. L.phase = "graph_published" /\ LegalWhenPublished(L, e)
    BY <1>2, LegalPublished
  <2>1. ASSUME NEW s \in Terminals, e = Terminal(s)
        PROVE  Sound(Applied(L, e)) /\ Advances(L, Applied(L, e))
    <3>1. Applied(L, e) = [L EXCEPT !.terminal = s]
      BY <2>1, AppliedForms
    <3> QED
      BY <2>0, <2>1, <3>1, MarksSound
  <2> SUFFICES ASSUME NEW n \in Ids,
                      \/ \E s \in {"ready", "cancelled", "blocked"} : e = Status(n, s)
                      \/ e = Running(n) \/ e = Dispatched(n)
                      \/ \E o \in Outcomes : e = Finished(n, o)
                      \/ e = Reconciled(n) \/ e = Retried(n)
                      \/ \E v \in Ids : e = ReworkOf(n, v)
                      \/ e = GateOpened(n) \/ e = GateExhausted(n)
                      \/ \E d \in Decisions : e = GateResolved(n, d)
                      \/ \E ts \in SUBSET Ids, k \in Verdicts : e = Verdict(n, ts, k)
               PROVE  Sound(Applied(L, e)) /\ Advances(L, Applied(L, e))
    BY <1>2, <2>1, EventFields, Zenon
  <2>2. ASSUME NEW s \in {"ready", "cancelled", "blocked"}, e = Status(n, s)
        PROVE  Sound(Applied(L, e)) /\ Advances(L, Applied(L, e))
    <3>1. Applied(L, e) = Moved(L, n, s)
      BY <2>2 DEF Applied, Status
    <3>2. CanMove(L, n, s)
      BY <2>0, <2>2, LegalForms
    <3> QED
      BY <2>0, <2>2, <3>1, <3>2, StatusSound
  <2>3. CASE e = Running(n)
    <3>2. L.attempts[n] # << >> /\ CanMove(L, n, "running")
      BY <2>0, <2>3, LegalForms
    <3> QED
      BY <2>0, <2>3, <3>2, RunningSound
  <2>4. CASE e = Dispatched(n)
    <3>1. Applied(L, e) = Assigned(L, n)
      <4>1. Applied(L, Dispatched(n)) = Assigned(L, n)
        BY DEF Applied, Dispatched
      <4> QED
        BY <2>4, <4>1
    <3>2. CanMove(L, n, "assigned")
      BY <2>0, <2>4, LegalForms
    <3> QED
      BY <2>0, <2>4, <3>1, <3>2, DispatchSound
  <2>5. ASSUME NEW o \in Outcomes, e = Finished(n, o)
        PROVE  Sound(Applied(L, e)) /\ Advances(L, Applied(L, e))
    <3>1. Applied(L, e) = Ended(L, n, o)
      BY <2>5 DEF Applied, Finished
    <3>2. HasAttemptInFlight(L, n) /\ CanMove(L, n, NodeAfter(o))
      BY <2>0, <2>5, LegalForms
    <3> QED
      BY <2>0, <2>5, <3>1, <3>2, EndSound
  <2>6. CASE e = Reconciled(n)
    <3>1. "outcome_unknown" \in Outcomes /\ NodeAfter("outcome_unknown") = "outcome_unknown"
      BY DEF Outcomes, NodeAfter
    <3>2. HasAttemptInFlight(L, n) /\ CanMove(L, n, "outcome_unknown")
      BY <2>0, <2>6, LegalForms
    <3>3. Applied(L, e) = Ended(L, n, "outcome_unknown")
      BY <2>6, AppliedForms
    <3> QED
      BY <2>0, <3>1, <3>2, <3>3, EndSound
  <2>7. CASE e = Retried(n)
    <3>2. L.attempts[n] # << >> /\ n \notin L.retried /\ CanMove(L, n, "ready")
      BY <2>0, <2>7, LegalForms
    <3> QED
      BY <2>0, <2>7, <3>2, RetrySound
  <2>8. ASSUME NEW v \in Ids, e = ReworkOf(n, v)
        PROVE  Sound(Applied(L, e)) /\ Advances(L, Applied(L, e))
    <3>1. Applied(L, e) = Revised(L, n, v)
      BY <2>8 DEF Applied, ReworkOf
    <3>2. ~Reworked(L, n) /\ IsVerifier(v) /\ L.node[Rework(v)] = "absent"
      BY <2>0, <2>8, LegalForms
    <3> QED
      BY <2>0, <2>8, <3>1, <3>2, ReviseSound
  <2>9. CASE e = GateOpened(n)
    <3>1. Applied(L, e) = [L EXCEPT !.gate[n] = "open"]
      BY <2>9, AppliedForms
    <3>2. L.gate[n] = "none"
      BY <2>0, <2>9, LegalForms
    <3> QED
      BY <2>0, <2>9, <3>1, <3>2, GateOpenedSound
  <2>10. CASE e = GateExhausted(n)
    <3>1. Applied(L, e) = [L EXCEPT !.exhausted = L.exhausted \cup {n[1]}]
      BY <2>10 DEF Applied, GateExhausted
    <3>2. /\ Sound([L EXCEPT !.exhausted = L.exhausted \cup {n[1]}])
          /\ Advances(L, [L EXCEPT !.exhausted = L.exhausted \cup {n[1]}])
      BY <2>0, MarksSound
    <3> QED
      BY <3>1, <3>2
  <2>11. ASSUME NEW d \in Decisions, e = GateResolved(n, d)
         PROVE  Sound(Applied(L, e)) /\ Advances(L, Applied(L, e))
    <3>1. Applied(L, e) = [L EXCEPT !.gate[n] = d]
      BY <2>11 DEF Applied, GateResolved
    <3>2. L.gate[n] = "open"
      BY <2>0, <2>11, LegalForms
    <3> QED
      BY <2>0, <2>11, <3>1, <3>2, GateResolvedSound
  <2>12. ASSUME NEW ts \in SUBSET Ids, NEW k \in Verdicts, e = Verdict(n, ts, k)
         PROVE  Sound(Applied(L, e)) /\ Advances(L, Applied(L, e))
    <3>1. Applied(L, e) = Judgement(L, Verdict(n, ts, k))
      BY <2>12 DEF Applied, Verdict
    <3>2. MayJudge(L, Verdict(n, ts, k))
      BY <2>0, <2>12, LegalForms
    <3> QED
      BY <2>0, <2>12, <3>1, <3>2, JudgeSound
  <2> QED
    BY <2>2, <2>3, <2>4, <2>5, <2>6, <2>7, <2>8, <2>9, <2>10, <2>11, <2>12
<1> QED
  BY <1>1, <1>2
-----------------------------------------------------------------------------
(* What an event changes, and what it leaves alone *)

\* What each event leaves alone besides the nodes.
LEMMA AppliedRest ==
  ASSUME NEW L \in Ledger, NEW e \in Event
  PROVE  /\ e.type # "run_terminal" => Applied(L, e).terminal = L.terminal
         /\ e.type \notin {"gate_created", "gate_resolved"} => Applied(L, e).gate = L.gate
         /\ e.type # "retry_created" => Applied(L, e).retried = L.retried
         /\ e.type \in {"gate_created", "gate_resolved", "rework_exhausted", "run_terminal",
                        "run_created", "graph_published"} =>
              Applied(L, e).node = L.node /\ Applied(L, e).attempts = L.attempts
<1> USE EventFields DEF Created, Published, Status, Running, Dispatched, Finished, Reconciled,
        Retried, ReworkOf, GateOpened, GateExhausted, GateResolved, Verdict, Terminal
<1>1. e.type # "run_terminal" => Applied(L, e).terminal = L.terminal
  BY DEF Applied, Ledger, Moved, WithAttempt, Assigned, Ended, Revised, Judgement
<1>2. e.type \notin {"gate_created", "gate_resolved"} => Applied(L, e).gate = L.gate
  BY DEF Applied, Ledger, Moved, WithAttempt, Assigned, Ended, Revised, Judgement
<1>3. e.type # "retry_created" => Applied(L, e).retried = L.retried
  BY DEF Applied, Ledger, Moved, WithAttempt, Assigned, Ended, Revised, Judgement
<1>4. e.type \in {"gate_created", "gate_resolved", "rework_exhausted", "run_terminal",
                  "run_created", "graph_published"} =>
        Applied(L, e).node = L.node /\ Applied(L, e).attempts = L.attempts
  BY DEF Applied, Ledger
<1> QED
  BY <1>1, <1>2, <1>3, <1>4

\* The node states after each event.
LEMMA AppliedNode ==
  ASSUME NEW L \in Ledger, NEW e \in Event
  PROVE  /\ e.type = "node_status_changed" =>
              Applied(L, e).node = [L.node EXCEPT ![e.node] = e.status]
         /\ e.type = "running" => Applied(L, e).node = [L.node EXCEPT ![e.node] = "running"]
         /\ e.type = "attempt_dispatched" =>
              Applied(L, e).node = [L.node EXCEPT ![e.node] = "assigned"]
         /\ e.type = "worker_finished" =>
              Applied(L, e).node = [L.node EXCEPT ![e.node] = NodeAfter(e.outcome)]
         /\ e.type = "reconciled" =>
              Applied(L, e).node = [L.node EXCEPT ![e.node] = "outcome_unknown"]
         /\ e.type = "retry_created" => Applied(L, e).node = [L.node EXCEPT ![e.node] = "ready"]
         /\ e.type = "rework_created" =>
              Applied(L, e).node = [L.node EXCEPT ![Rework(e.node)] = "pending",
                                                  ![Rework(e.verifier)] = "pending"]
BY EventFields DEF Applied, Ledger, Moved, WithAttempt, Assigned, Ended, Revised, NodeAfter,
   Created, Published, Status, Running, Dispatched, Finished, Reconciled, Retried, ReworkOf,
   GateOpened, GateExhausted, GateResolved, Verdict, Terminal

\* The attempts after each event: only those of its node can change.
LEMMA AppliedAttempts ==
  ASSUME NEW L \in Ledger, NEW e \in Event
  PROVE  /\ e.type \notin {"running", "attempt_dispatched", "worker_finished", "reconciled"} =>
              Applied(L, e).attempts = L.attempts
         /\ e.type \in {"running", "attempt_dispatched", "worker_finished", "reconciled"} =>
              /\ e.node \in Ids
              /\ \A m \in Ids : m # e.node => Applied(L, e).attempts[m] = L.attempts[m]
         /\ e.type = "attempt_dispatched" =>
              Applied(L, e).attempts[e.node] = Append(L.attempts[e.node], "dispatched")
         /\ e.type = "retry_created" => Applied(L, e).retried = L.retried \cup {e.node}
<1> USE EventFields DEF Created, Published, Status, Running, Dispatched, Finished, Reconciled,
        Retried, ReworkOf, GateOpened, GateExhausted, GateResolved, Verdict, Terminal
<1>1. e.type \notin {"running", "attempt_dispatched", "worker_finished", "reconciled"} =>
        Applied(L, e).attempts = L.attempts
  BY DEF Applied, Ledger, Moved, Revised, Judgement
<1>2. e.type \in {"running", "attempt_dispatched", "worker_finished", "reconciled"} =>
        /\ e.node \in Ids
        /\ \A m \in Ids : m # e.node => Applied(L, e).attempts[m] = L.attempts[m]
  BY DEF Applied, Ledger, Moved, WithAttempt, Ended, Assigned
<1>3. e.type = "attempt_dispatched" =>
        Applied(L, e).attempts[e.node] = Append(L.attempts[e.node], "dispatched")
  <2> SUFFICES ASSUME e.type = "attempt_dispatched"
               PROVE  Applied(L, e).attempts[e.node] = Append(L.attempts[e.node], "dispatched")
    OBVIOUS
  <2>1. e.node \in Ids /\ Applied(L, e) = Assigned(L, e.node)
    BY DEF Applied
  <2>2. Assigned(L, e.node).attempts = [L.attempts EXCEPT ![e.node] = Append(@, "dispatched")]
    BY <2>1 DEF Assigned, Moved, Ledger
  <2> QED
    BY <2>1, <2>2 DEF Ledger
<1>4. e.type = "retry_created" => Applied(L, e).retried = L.retried \cup {e.node}
  BY DEF Applied, Ledger, Moved
<1> QED
  BY <1>1, <1>2, <1>3, <1>4

\* The verdicts after each event, and the node states after a verdict.
LEMMA AppliedVerdict ==
  ASSUME NEW L \in Ledger, NEW e \in Event
  PROVE  /\ e.type # "verdict_recorded" => Applied(L, e).verdict = L.verdict
         /\ e.type = "verdict_recorded" =>
              /\ Applied(L, e).verdict = [L.verdict EXCEPT ![e.node] = e.verdict]
              /\ \A m \in Ids : Applied(L, e).node[m] =
                   IF m \in e.targets THEN Judged(e.verdict)
                   ELSE IF FollowsVerdict(L, e) /\ m = e.node THEN OwnState(e) ELSE L.node[m]
<1> USE EventFields DEF Created, Published, Status, Running, Dispatched, Finished, Reconciled,
        Retried, ReworkOf, GateOpened, GateExhausted, GateResolved, Verdict, Terminal
<1>1. e.type # "verdict_recorded" => Applied(L, e).verdict = L.verdict
  BY DEF Applied, Ledger, Moved, WithAttempt, Ended, Assigned, Revised
<1>2. ASSUME e.type = "verdict_recorded"
      PROVE  /\ Applied(L, e).verdict = [L.verdict EXCEPT ![e.node] = e.verdict]
             /\ \A m \in Ids : Applied(L, e).node[m] =
                   IF m \in e.targets THEN Judged(e.verdict)
                   ELSE IF FollowsVerdict(L, e) /\ m = e.node THEN OwnState(e) ELSE L.node[m]
  <2>1. Applied(L, e) = Judgement(L, e)
    BY <1>2 DEF Applied
  <2> QED
    BY <2>1 DEF Judgement, Ledger
<1> QED
  BY <1>1, <1>2

(* The nodes an event says something about *)
Touched(e) ==
  IF e.type \in {"node_status_changed", "running", "attempt_dispatched", "worker_finished",
                 "reconciled", "retry_created"} THEN {e.node}
  ELSE IF e.type = "verdict_recorded" THEN e.targets \cup {e.node}
  ELSE IF e.type = "rework_created" THEN {Rework(e.node), Rework(e.verifier)}
  ELSE {}

\* A node that an event does not name stays as it is.
LEMMA Untouched ==
  ASSUME NEW L \in Ledger, NEW e \in Event, NEW m \in Ids, m \notin Touched(e)
  PROVE  /\ Applied(L, e).node[m] = L.node[m]
         /\ Applied(L, e).attempts[m] = L.attempts[m]
         /\ Applied(L, e).verdict[m] = L.verdict[m]
         /\ m \in Applied(L, e).retried <=> m \in L.retried
<1> DEFINE M == Applied(L, e)
           single == {"node_status_changed", "running", "attempt_dispatched", "worker_finished",
                      "reconciled", "retry_created"}
           none == {"gate_created", "gate_resolved", "rework_exhausted", "run_terminal",
                    "run_created", "graph_published"}
<1>0. L.node \in [Ids -> NodeState] /\ L.verdict \in [Ids -> {"none"} \cup Verdicts]
  BY DEF Ledger
<1>1. e.type \in single \cup none \cup {"verdict_recorded", "rework_created"}
  BY EventFields DEF Created, Published, Status, Running, Dispatched, Finished, Reconciled,
     Retried, ReworkOf, GateOpened, GateExhausted, GateResolved, Verdict, Terminal
<1>2. /\ e.type \in single => m # e.node
      /\ e.type = "verdict_recorded" => m \notin e.targets /\ m # e.node
      /\ e.type = "rework_created" => m # Rework(e.node) /\ m # Rework(e.verifier)
  BY DEF Touched
<1>3. M.node[m] = L.node[m]
  <2>1. CASE e.type \in single
    <3>1. \/ M.node = [L.node EXCEPT ![e.node] = e.status]
          \/ \E s \in {"running", "assigned", "outcome_unknown", "ready"} :
               M.node = [L.node EXCEPT ![e.node] = s]
          \/ M.node = [L.node EXCEPT ![e.node] = NodeAfter(e.outcome)]
      <4> HIDE DEF M
      <4>1. M = Applied(L, e)
        BY DEF M
      <4> QED
        BY <2>1, <4>1, AppliedNode
    <3> QED
      BY <1>0, <1>2, <2>1, <3>1
  <2>2. CASE e.type = "verdict_recorded"
    <3>1. M.node[m] = IF m \in e.targets THEN Judged(e.verdict)
                      ELSE IF FollowsVerdict(L, e) /\ m = e.node THEN OwnState(e) ELSE L.node[m]
      BY <2>2, AppliedVerdict, Zenon
    <3> QED
      BY <1>2, <2>2, <3>1, Zenon
  <2>3. CASE e.type = "rework_created"
    <3>1. M.node = [L.node EXCEPT ![Rework(e.node)] = "pending", ![Rework(e.verifier)] = "pending"]
      BY <2>3, AppliedNode
    <3> QED
      BY <1>0, <1>2, <2>3, <3>1
  <2>4. CASE e.type \in none
    BY <2>4, AppliedRest
  <2> QED BY <1>1, <2>1, <2>2, <2>3, <2>4
<1>4. M.attempts[m] = L.attempts[m]
  BY <1>1, <1>2, AppliedAttempts
<1>5. M.verdict[m] = L.verdict[m]
  <2>1. CASE e.type # "verdict_recorded"
    BY <2>1, AppliedVerdict, Zenon
  <2>2. CASE e.type = "verdict_recorded"
    <3>1. M.verdict = [L.verdict EXCEPT ![e.node] = e.verdict]
      BY <2>2, AppliedVerdict, Zenon
    <3> HIDE DEF M
    <3> QED
      BY <1>0, <1>2, <2>2, <3>1
  <2> QED
    BY <2>1, <2>2
<1>6. m \in M.retried <=> m \in L.retried
  BY <1>2, AppliedRest, AppliedAttempts
<1> QED
  BY <1>3, <1>4, <1>5, <1>6

\* The same, event by event
LEMMA NodeEffects ==
  ASSUME NEW L \in Ledger, NEW n \in Ids
  PROVE  /\ \A s \in {"ready", "cancelled", "blocked"} :
              Applied(L, Status(n, s)).node = [L.node EXCEPT ![n] = s]
         /\ Applied(L, Running(n)).node = [L.node EXCEPT ![n] = "running"]
         /\ Applied(L, Dispatched(n)).node = [L.node EXCEPT ![n] = "assigned"]
         /\ \A o \in Outcomes : Applied(L, Finished(n, o)).node = [L.node EXCEPT ![n] = NodeAfter(o)]
         /\ Applied(L, Reconciled(n)).node = [L.node EXCEPT ![n] = "outcome_unknown"]
         /\ Applied(L, Retried(n)).node = [L.node EXCEPT ![n] = "ready"]
<1>1. ASSUME NEW s \in {"ready", "cancelled", "blocked"}
      PROVE  Applied(L, Status(n, s)).node = [L.node EXCEPT ![n] = s]
  <2>1. Applied(L, Status(n, s)) = Moved(L, n, s) /\ s \in NodeState
    BY DEF Applied, Status, NodeState
  <2> QED
    BY <2>1, MovedFields
<1>2. ASSUME NEW o \in Outcomes
      PROVE  Applied(L, Finished(n, o)).node = [L.node EXCEPT ![n] = NodeAfter(o)]
  <2>1. Applied(L, Finished(n, o)) = Moved(WithAttempt(L, n, AttemptAfter(o)), n, NodeAfter(o))
    BY DEF Applied, Finished, Ended
  <2> QED
    BY <2>1 DEF Moved, WithAttempt, Ledger
<1>3. Applied(L, Running(n)).node = [L.node EXCEPT ![n] = "running"]
  <2>1. Applied(L, Running(n)) = Moved(WithAttempt(L, n, "running"), n, "running")
    BY DEF Applied, Running
  <2> QED
    BY <2>1 DEF Moved, WithAttempt, Ledger
<1>4. Applied(L, Dispatched(n)).node = [L.node EXCEPT ![n] = "assigned"]
  <2>1. Applied(L, Dispatched(n)) = Assigned(L, n)
    BY DEF Applied, Dispatched
  <2> QED
    BY <2>1 DEF Assigned, Moved, WithAttempt, Ledger
<1>5. Applied(L, Reconciled(n)).node = [L.node EXCEPT ![n] = "outcome_unknown"]
  <2>1. Applied(L, Reconciled(n)) = Ended(L, n, "outcome_unknown")
    BY DEF Applied, Reconciled
  <2> QED
    BY <2>1 DEF Ended, Moved, WithAttempt, NodeAfter, Ledger
<1>6. Applied(L, Retried(n)).node = [L.node EXCEPT ![n] = "ready"]
  <2>1. Applied(L, Retried(n)) = [Moved(L, n, "ready") EXCEPT !.retried = @ \cup {n}]
    BY DEF Applied, Retried
  <2> QED
    BY <2>1 DEF Moved, Ledger
<1> QED
  BY <1>1, <1>2, <1>3, <1>4, <1>5, <1>6
=============================================================================
