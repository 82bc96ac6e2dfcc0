------------------------------- MODULE Engine -------------------------------
(***************************************************************************)
(* GraphExecutionEngine (graphori_core/execution_engine.py) driving one    *)
(* run: start and restart, advance with one coroutine per dispatched node, *)
(* cancel, resolve_premium_gate, and the death of the process anywhere.    *)
(*                                                                         *)
(* The engine runs on one asyncio thread.  `todo' holds the events the     *)
(* code between two awaits still has to append: while it is not empty no   *)
(* other coroutine runs, but the process can die between any two appends.  *)
(* An append the reducer refuses raises StateTransitionError in the call   *)
(* named by `caller'.  Only `led' (the journal) survives a restart;        *)
(* `launched' counts what really happened outside and is never read.       *)
(***************************************************************************)
EXTENDS Reducer, SequencesExt

CONSTANTS
  MaxWip,           \* scheduler policy, cut to the adapter's concurrency
  Conflicts,        \* pairs {a, b} of plan nodes whose file scopes overlap
  Reports,          \* worker_finished outcomes the adapter may report
  LaunchErrors,     \* outcomes of the errors ExecutionAdapter.dispatch raises
  Judgements,       \* verdicts a verifier may publish; "none": it ends without
  GateChoices,          \* what the user may decide at a premium gate
  Breakage,         \* TRUE: events() or collect() may raise
  Supports,         \* TRUE: the adapter supports cancellation
  MaxStartFailures, \* bound on start_session errors
  MaxCrashes,       \* bound on process deaths
  MaxCancels        \* bound on calls of cancel

ASSUME EngineAssumption ==
  /\ MaxWip \in Nat \ {0}
  /\ Conflicts \subseteq SUBSET Base
  /\ Reports \subseteq {"succeeded", "failed", "timed_out", "startup_failure",
                       "outcome_unknown", "cancelled"}
  /\ LaunchErrors \subseteq {"startup_failure", "outcome_unknown"}
  /\ Judgements \subseteq Verdicts \cup {"none"}
  /\ GateChoices \subseteq {"approve", "use_fallback", "skip"}
  /\ Breakage \in BOOLEAN /\ Supports \in BOOLEAN
  /\ MaxStartFailures \in Nat /\ MaxCrashes \in Nat /\ MaxCancels \in Nat

VARIABLES
  led,        \* the ledger: replay of journal.jsonl
  up,         \* TRUE: an engine object has started the run
  todo,       \* events the running code still has to append
  caller,     \* whose exception a refused append is
  pc,         \* per node: the await its _execute_node coroutine stands at
  res,        \* per node: the outcome that decides about a retry
  adv,        \* progress of advance
  wave,       \* execution_tasks: the nodes advance gathers
  canc,       \* progress of cancel
  awaited,    \* what cancel waits for: dispatches, then tasks
  reason,     \* TRUE: cancel_reason is set
  launched,   \* per node: how often the adapter really dispatched it (history)
  raised,     \* the calls that ended with StateTransitionError (history)
  asked,      \* verifiers that answered revise (history)
  lost,       \* nodes whose attempt was in flight when a process died (history)
  failures,   \* start_session errors so far
  crashes,    \* process deaths so far
  cancels     \* calls of cancel so far

tasks   == <<pc, res, wave>>
stop    == <<canc, awaited, reason>>
history == <<launched, raised, asked, lost, failures, crashes, cancels>>
vars    == <<led, up, todo, caller, tasks, adv, stop, history>>

Outcomes  == {"succeeded", "failed", "timed_out", "startup_failure", "outcome_unknown", "cancelled"}
Retryable == {"timed_out", "startup_failure"}
Stations  == {"none", "begin", "session", "launch", "stop", "events", "verdict",
              "collect", "release", "ended"}
Callers   == {"start", "task", "advance", "cancel", "user"}
-----------------------------------------------------------------------------
(* The scheduler *)

Active(L) == {n \in Ids : L.node[n] \in {"assigned", "running", "outcome_unknown"}}

DependencyMetOnceOver(L, n, d) ==  \* mutation: a failed dependency counts as done
  L.node[d] \in {"passed", "failed", "awaiting_verification"}
DependencyMet(L, n, d) ==
  \/ L.node[d] = "passed"
  \/ /\ IsVerifier(n) \/ n[1] \in Reviewers
     /\ L.node[d] = "awaiting_verification"

CandidatesUnapproved(L) ==  \* mutation: approval_required is ignored
  {n \in Ids : /\ L.node[n] \in {"pending", "ready"}
               /\ \A d \in DepsOf(n) : DependencyMet(L, n, d)}
Candidates(L) ==
  {n \in Ids : /\ L.node[n] \in {"pending", "ready"}
               /\ \A d \in DepsOf(n) : DependencyMet(L, n, d)
               /\ NeedsApproval(L, n) => n \in Approved(L)}

Clash(m, n) == {m[1], n[1]} \in Conflicts

WavesIgnoringActive(L) ==  \* mutation: active nodes do not take slots
  {S \in SUBSET {n \in Candidates(L) : \A m \in Active(L) : ~Clash(m, n)} :
     Cardinality(S) <= MaxWip /\ \A m, n \in S : m # n => ~Clash(m, n)}
WavesIgnoringUnknown(L) ==  \* mutation: scopes are compared within the wave only
  {S \in SUBSET Candidates(L) :
     /\ Cardinality(S) + Cardinality(Active(L)) <= MaxWip
     /\ \A m, n \in S : m # n => ~Clash(m, n)}

(* decide: priorities and the parallel-gain estimate choose among the        *)
(* conflict-free sets that fit the free slots; the first candidate that      *)
(* conflicts with no active node is always taken when there is a slot.       *)
Waves(L) ==
  LET free  == IF Cardinality(Active(L)) < MaxWip THEN MaxWip - Cardinality(Active(L)) ELSE 0
      clear == {n \in Candidates(L) : \A m \in Active(L) : ~Clash(m, n)}
  IN  {S \in SUBSET clear :
        /\ Cardinality(S) <= free
        /\ \A m, n \in S : m # n => ~Clash(m, n)
        /\ S = {} => free = 0 \/ clear = {}}
-----------------------------------------------------------------------------
(* Nothing is running between two awaits, and cancel is not in its final,    *)
(* uninterrupted part.                                                       *)
LoopFree == up /\ todo = << >> /\ canc # "nodes"

(* When the last task ends, advance and then cancel are woken before any     *)
(* coroutine of a later wave gets its turn.                                  *)
CancelIsNext == canc = "tasks" /\ awaited = {}
MayRun       == LoopFree /\ ~CancelIsNext

At(n, station) == MayRun /\ pc[n] = station
Goto(n, station) == pc' = [pc EXCEPT ![n] = station]
AppendsAs(who, events) ==
  todo' = events /\ caller' = IF events = << >> THEN "none" ELSE who
NoAppend == UNCHANGED <<todo, caller>>
When(b, events) == IF b THEN events ELSE << >>

Forgotten ==  \* everything an engine object holds in memory
  /\ up' = FALSE /\ todo' = << >> /\ caller' = "none"
  /\ pc' = [n \in Ids |-> "none"] /\ res' = [n \in Ids |-> "none"]
  /\ adv' = "idle" /\ wave' = {}
  /\ canc' = "none" /\ awaited' = {} /\ reason' = FALSE

Init ==
  /\ led = EmptyLedger
  /\ up = FALSE /\ todo = << >> /\ caller = "none"
  /\ pc = [n \in Ids |-> "none"] /\ res = [n \in Ids |-> "none"]
  /\ adv = "idle" /\ wave = {}
  /\ canc = "none" /\ awaited = {} /\ reason = FALSE
  /\ launched = [n \in Ids |-> 0] /\ raised = {}
  /\ asked = {} /\ lost = {}
  /\ failures = 0 /\ crashes = 0 /\ cancels = 0
-----------------------------------------------------------------------------
(* _append: the event is preflighted on a replayed reducer, then journaled *)

Write ==
  /\ todo # << >> /\ Legal(led, Head(todo))
  /\ led' = Applied(led, Head(todo))
  /\ todo' = Tail(todo)
  /\ caller' = IF todo' = << >> THEN "none" ELSE caller
  /\ UNCHANGED <<up, tasks, adv, stop, history>>

(* StateTransitionError.  Out of start or advance it reaches the driver,     *)
(* which closes the engine; out of cancel or resolve_premium_gate it goes    *)
(* to their caller and the engine goes on.                                   *)
Refused ==
  /\ todo # << >> /\ ~Legal(led, Head(todo))
  /\ raised' = raised \cup {caller}
  /\ IF caller \in {"start", "task", "advance"} THEN Forgotten
     ELSE /\ todo' = << >> /\ caller' = "none"
          /\ canc' = IF caller = "cancel" THEN "raised" ELSE canc
          /\ UNCHANGED <<up, tasks, adv, awaited, reason>>
  /\ UNCHANGED <<led, launched, asked, lost, failures, crashes, cancels>>

Crash ==
  /\ up /\ crashes < MaxCrashes
  /\ crashes' = crashes + 1
  /\ lost' = lost \cup {n \in Ids : HasAttemptInFlight(led, n)}
  /\ Forgotten
  /\ UNCHANGED <<led, launched, raised, asked, failures, cancels>>
-----------------------------------------------------------------------------
(* start *)

InflightAtRestart(L) == {n \in Ids : HasAttemptInFlight(L, n)}

GatesOf(L, ns) == {n \in ns : NeedsApproval(L, n)}

StartRedelivering ==  \* mutation: attempts found in flight are retried
  /\ ~up /\ led.terminal = "none"
  /\ up' = TRUE
  /\ IF led.phase = "none"
     THEN \E order \in SetToSeqs(GatesOf(led, Planned)) :
            AppendsAs("start", <<Created, Published>> \o
                               [i \in DOMAIN order |-> GateOpened(order[i])])
     ELSE \E order \in SetToSeqs(InflightAtRestart(led)) :
            AppendsAs("start", [i \in DOMAIN order |-> Reconciled(order[i])] \o
                               [i \in DOMAIN order |-> Retried(order[i])])
  /\ UNCHANGED <<led, tasks, adv, stop, history>>
Start ==
  /\ ~up /\ led.terminal = "none"
  /\ up' = TRUE
  /\ IF led.phase = "none"
     THEN \E order \in SetToSeqs(GatesOf(led, Planned)) :
            AppendsAs("start", <<Created, Published>> \o
                               [i \in DOMAIN order |-> GateOpened(order[i])])
     ELSE \E order \in SetToSeqs(InflightAtRestart(led)) :
            AppendsAs("start", [i \in DOMAIN order |-> Reconciled(order[i])])
  /\ UNCHANGED <<led, tasks, adv, stop, history>>
-----------------------------------------------------------------------------
(* _execute_node, from one await to the next *)

Begin(n) ==
  /\ At(n, "begin")
  /\ Goto(n, "session")
  /\ AppendsAs("task", When(led.node[n] = "pending", <<Status(n, "ready")>>))
  /\ UNCHANGED <<led, up, res, wave, adv, stop, history>>

SessionStartedUnrecorded(n) ==  \* mutation: the attempt is not recorded before the launch
  /\ At(n, "session")
  /\ Goto(n, "launch")
  /\ NoAppend
  /\ UNCHANGED <<led, up, res, wave, adv, stop, history>>
SessionStarted(n) ==
  /\ At(n, "session")
  /\ Goto(n, "launch")
  /\ AppendsAs("task", <<Dispatched(n)>>)
  /\ UNCHANGED <<led, up, res, wave, adv, stop, history>>

(* No attempt is on record yet: the error is swallowed, the node stays ready *)
SessionFails(n) ==
  /\ At(n, "session") /\ failures < MaxStartFailures
  /\ failures' = failures + 1
  /\ Goto(n, "ended")
  /\ UNCHANGED <<led, up, todo, caller, res, wave, adv, stop, launched, raised, asked, lost, crashes, cancels>>

Launched(n) ==
  /\ At(n, "launch")
  /\ launched' = [launched EXCEPT ![n] = @ + 1]
  /\ Goto(n, IF reason THEN "stop" ELSE "events")
  /\ AppendsAs("task", When(~reason, <<Running(n)>>))
  /\ UNCHANGED <<led, up, res, wave, adv, stop, raised, asked, lost, failures, crashes, cancels>>

(* The error handlers record the attempt as finished unless it already is.   *)
GivesUp(n, outcome) ==
  /\ Goto(n, "release")
  /\ res' = [res EXCEPT ![n] = outcome]
  /\ AppendsAs("task", When(HasAttemptInFlight(led, n), <<Finished(n, outcome)>>))
  /\ UNCHANGED <<led, up, wave, adv, stop, history>>

LaunchFails(n) == At(n, "launch") /\ \E o \in LaunchErrors : GivesUp(n, o)

StoppedAtOnce(n) ==   \* cancel_reason was set while dispatch was awaited
  /\ At(n, "stop")
  /\ Goto(n, "events")
  /\ AppendsAs("task", <<Running(n)>>)
  /\ UNCHANGED <<led, up, res, wave, adv, stop, history>>

Reported(n) ==
  /\ At(n, "events")
  /\ \E o \in Reports :
       /\ res' = [res EXCEPT ![n] = o]
       /\ Goto(n, IF IsVerifier(n) /\ o \in {"succeeded", "failed"} THEN "verdict" ELSE "collect")
       /\ AppendsAs("task", <<Finished(n, o)>>)
  /\ UNCHANGED <<led, up, wave, adv, stop, history>>

Breaks(n) ==
  /\ Breakage
  /\ At(n, "events") \/ At(n, "verdict") \/ At(n, "collect")
  /\ GivesUp(n, "outcome_unknown")

(* After an accepted revise: one rework if its single target never had one,  *)
(* with the premium gates the revisions need, and otherwise a Human Gate.    *)
ReworkUnlimited(L, t, v) ==  \* mutation: the revision counter is not consulted
  <<ReworkOf(t, v)>>
AfterRevise(L, t, v) ==
  IF Reworked(L, <<t[1], 0>>) THEN <<GateExhausted(t)>>
  ELSE <<ReworkOf(t, v)>>
       \o When(NeedsApproval(L, Rework(t)), <<GateOpened(Rework(t))>>)
       \o When(NeedsApproval(L, Rework(v)), <<GateOpened(Rework(v))>>)

VerdictPublished(n) ==
  /\ At(n, "verdict")
  /\ \E k \in Judgements \ {"none"} :
       /\ AppendsAs("task",
            <<Verdict(n, DepsOf(n), k)>> \o
            When(k = "revise" /\ Cardinality(DepsOf(n)) = 1,
                 AfterRevise(led, CHOOSE t \in DepsOf(n) : TRUE, n)))
       /\ asked' = IF k = "revise" THEN asked \cup {n} ELSE asked
  /\ Goto(n, "collect")
  /\ UNCHANGED <<led, up, res, wave, adv, stop, launched, raised, lost, failures, crashes, cancels>>

NoVerdict(n) ==
  /\ At(n, "verdict") /\ "none" \in Judgements
  /\ Goto(n, "collect")
  /\ UNCHANGED <<led, up, todo, caller, res, wave, adv, stop, history>>

(* routing_observed changes no state the engine decides on *)
Collected(n) ==
  /\ At(n, "collect")
  /\ AppendsAs("task", When(res[n] = "succeeded" /\ n[1] \in Deterministic,
                            <<Verdict(n, {n}, "pass")>>))
  /\ Goto(n, "release")
  /\ UNCHANGED <<led, up, res, wave, adv, stop, history>>

Released(n) ==
  /\ At(n, "release")
  /\ IF led.node[n] # "outcome_unknown" \/ res[n] \notin Retryable
     THEN Goto(n, "ended") /\ NoAppend
     ELSE IF n \notin led.retried
     THEN Goto(n, "session") /\ AppendsAs("task", <<Retried(n)>>)
     ELSE Goto(n, "ended") /\ AppendsAs("task", <<Status(n, "blocked")>>)
  /\ res' = [res EXCEPT ![n] = "none"]
  /\ UNCHANGED <<led, up, wave, adv, stop, history>>

ExecuteNode(n) ==
  \/ Begin(n) \/ SessionStarted(n) \/ SessionFails(n) \/ Launched(n) \/ LaunchFails(n)
  \/ StoppedAtOnce(n) \/ Reported(n) \/ Breaks(n) \/ VerdictPublished(n) \/ NoVerdict(n)
  \/ Collected(n) \/ Released(n)
-----------------------------------------------------------------------------
(* advance *)

Advance ==
  /\ LoopFree /\ adv = "idle" /\ led.terminal = "none"
  /\ \E S \in Waves(led) :
       /\ wave' = S
       /\ pc' = [n \in Ids |-> IF n \in S THEN "begin" ELSE pc[n]]
  /\ adv' = "waiting"
  /\ UNCHANGED <<led, up, todo, caller, res, stop, history>>

SettlementUnblocked(L) ==  \* mutation: a blocked node does not end the run
  LET states == {L.node[n] : n \in Unreplaced(L)}
  IN  IF L.terminal # "none" \/ OpenGates(L) # {} \/ L.exhausted # {} THEN << >>
      ELSE IF states = {"passed"} THEN <<Terminal("succeeded")>>
      ELSE When("failed" \in states, <<Terminal("failed")>>)
Settlement(L) ==
  LET states == {L.node[n] : n \in Unreplaced(L)}
  IN  IF L.terminal # "none" \/ OpenGates(L) # {} \/ L.exhausted # {} THEN << >>
      ELSE IF states = {"passed"}  THEN <<Terminal("succeeded")>>
      ELSE IF "blocked" \in states THEN <<Terminal("blocked")>>
      ELSE When("failed" \in states, <<Terminal("failed")>>)

Gathered ==
  /\ LoopFree /\ adv = "waiting" /\ \A n \in wave : pc[n] = "ended"
  /\ adv' = "idle"
  /\ wave' = {} /\ pc' = [n \in Ids |-> IF n \in wave THEN "none" ELSE pc[n]]
  /\ awaited' = IF canc = "tasks" THEN awaited \ wave ELSE awaited
  /\ AppendsAs("advance", Settlement(led))
  /\ UNCHANGED <<led, up, res, canc, reason, history>>
-----------------------------------------------------------------------------
(* cancel *)

Dispatches == {n \in Ids : pc[n] \in {"stop", "events", "verdict", "collect", "release"}}

Cancel ==
  /\ LoopFree /\ canc \in {"none", "raised", "done"} /\ cancels < MaxCancels
  /\ led.terminal = "none"
  /\ Dispatches \cup wave # {} => Supports
  /\ cancels' = cancels + 1
  /\ reason' = TRUE
  /\ \E order \in SetToSeqs(OpenGates(led)) :
       AppendsAs("cancel", [i \in DOMAIN order |-> GateResolved(order[i], "cancelled")])
  /\ canc' = IF Dispatches # {} THEN "dispatches" ELSE IF wave # {} THEN "tasks" ELSE "nodes"
  /\ awaited' = IF Dispatches # {} THEN Dispatches ELSE wave
  /\ UNCHANGED <<led, up, tasks, adv, launched, raised, asked, lost, failures, crashes>>

(* adapter.cancel of every dispatch; the adapter no longer knows one that    *)
(* was collected meanwhile, and its ValueError ends cancel.                  *)
DispatchesStopped ==
  /\ LoopFree /\ canc = "dispatches"
  /\ IF \E n \in awaited : pc[n] \notin {"stop", "events", "verdict", "collect"}
     THEN canc' = "raised" /\ awaited' = {}
     ELSE canc' = (IF wave # {} THEN "tasks" ELSE "nodes") /\ awaited' = wave
  /\ UNCHANGED <<led, up, todo, caller, tasks, adv, reason, history>>

TasksGathered ==
  /\ LoopFree /\ CancelIsNext
  /\ canc' = "nodes"
  /\ UNCHANGED <<led, up, todo, caller, tasks, adv, awaited, reason, history>>

(* The nodes cancel leaves alone; the order is that of the node ids *)
Finals     == {"passed", "failed", "cancelled", "inconclusive"}
Unfinished == {n \in Nodes(led) : led.node[n] \notin Finals}

CancelNode ==
  /\ up /\ todo = << >> /\ canc = "nodes"
  /\ \E n \in Unfinished :
       AppendsAs("cancel", When(led.node[n] = "pending", <<Status(n, "ready")>>)
                           \o <<Status(n, "cancelled")>>)
  /\ UNCHANGED <<led, up, tasks, adv, stop, history>>

CancelEnds ==
  /\ up /\ todo = << >> /\ canc = "nodes" /\ Unfinished = {}
  /\ canc' = "done"
  /\ AppendsAs("cancel", <<Terminal("cancelled")>>)
  /\ UNCHANGED <<led, up, tasks, adv, awaited, reason, history>>
-----------------------------------------------------------------------------
(* resolve_premium_gate *)

ResolvePremiumGate ==
  /\ LoopFree /\ led.terminal = "none"
  /\ \E n \in OpenGates(led), d \in GateChoices :
       /\ d = "use_fallback" => n[1] \in Fallback
       /\ AppendsAs("user", <<GateResolved(n, d)>> \o
            When(d = "skip", When(led.node[n] = "pending", <<Status(n, "ready")>>)
                             \o <<Status(n, "cancelled")>>))
  /\ UNCHANGED <<led, up, tasks, adv, stop, history>>
-----------------------------------------------------------------------------
Next ==
  \/ Write \/ Refused \/ Crash \/ Start
  \/ \E n \in Ids : ExecuteNode(n)
  \/ Advance \/ Gathered
  \/ Cancel \/ DispatchesStopped \/ TasksGathered \/ CancelNode \/ CancelEnds
  \/ ResolvePremiumGate

Spec == Init /\ [][Next]_vars

(* The event loop runs every coroutine that is not suspended, an adapter     *)
(* call returns or raises, and the user of a run that is not over resumes    *)
(* it and has it advanced.  Nobody has to cancel it or to answer a gate.     *)
FairSpec ==
  /\ Spec
  /\ WF_vars(Write \/ Refused) /\ WF_vars(Start)
  /\ \A n \in Ids : WF_vars(ExecuteNode(n))
  /\ WF_vars(Advance) /\ WF_vars(Gathered)
  /\ WF_vars(DispatchesStopped \/ TasksGathered \/ CancelNode \/ CancelEnds)
-----------------------------------------------------------------------------
(* Properties *)

(* Every variable has its type. *)
TypeOK ==
  /\ led \in Ledger
  /\ up \in BOOLEAN /\ caller \in Callers \cup {"none"}
  /\ pc \in [Ids -> Stations] /\ res \in [Ids -> {"none"} \cup Outcomes]
  /\ adv \in {"idle", "waiting"} /\ wave \subseteq Ids
  /\ canc \in {"none", "dispatches", "tasks", "nodes", "raised", "done"}
  /\ awaited \subseteq Ids /\ reason \in BOOLEAN
  /\ launched \in [Ids -> Nat] /\ raised \subseteq Callers
  /\ asked \subseteq Ids /\ lost \subseteq Ids
  /\ failures \in 0 .. MaxStartFailures /\ crashes \in 0 .. MaxCrashes
  /\ cancels \in 0 .. MaxCancels

(* The work in progress never exceeds the scheduler's limit, over retries,   *)
(* restarts, reworks and a cancellation in the middle of a wave: an attempt  *)
(* whose outcome is unknown keeps its slot (scheduler.py:11).  And two nodes *)
(* whose file scopes overlap are never active together, also when one of     *)
(* them was left unknown by a crash (scheduler.py:44).                       *)
WaveFits ==
  /\ Cardinality(Active(led)) <= MaxWip
  /\ \A m, n \in Active(led) : m # n => ~Clash(m, n)

(* A node that was ever dispatched had its dependencies met, and they cannot *)
(* be lost again: passed for a worker; for the nodes that look at unverified *)
(* work, work whose attempt succeeded, whatever its verdict became           *)
(* (scheduler.py:147).  And nothing premium is launched without a human's    *)
(* yes for that very node, a revision included (ADR 0007).                   *)
LaunchesAllowed ==
  \A n \in Ids :
    /\ led.attempts[n] # << >> =>
         \A d \in DepsOf(n) :
           \/ led.node[d] = "passed"
           \/ /\ IsVerifier(n) \/ n[1] \in Reviewers
              /\ led.node[d] \in {"awaiting_verification", "failed", "inconclusive"}
              /\ Last(led.attempts[d]) = "succeeded"
    /\ launched[n] > 0 /\ n[1] \in Premium =>
         "use_fallback" \in {led.gate[n], led.gate[<<n[1], 0>>]} \/ n \in Approved(led)

(* Whatever dies in between, the adapter is never asked to run a node more   *)
(* often than the journal has attempts for it, only one attempt is ever in   *)
(* flight, and a second one exists only because the first was unknown and a  *)
(* retry was recorded.                                                       *)
LaunchesRecorded ==
  \A n \in Ids :
    /\ launched[n] <= Len(led.attempts[n])
    /\ Len(led.attempts[n]) <= IF n \in led.retried THEN 2 ELSE 1
    /\ \A i \in 1 .. Len(led.attempts[n]) - 1 : led.attempts[n][i] = "outcome_unknown"

(* Nothing passes on its own word: some verifier that depends on it passed   *)
(* it, or it is a verifier with a passing verdict of its own, or it is       *)
(* deterministic and its last attempt succeeded (EVENT_PROTOCOL section 5).  *)
PassNeedsVerdict ==
  \A n \in Nodes(led) : led.node[n] = "passed" =>
    /\ led.attempts[n] # << >> /\ Last(led.attempts[n]) = "succeeded"
    /\ \/ (IsVerifier(n) \/ n[1] \in Deterministic) /\ led.verdict[n] = "pass"
       \/ \E v \in Nodes(led) : IsVerifier(v) /\ n \in DepsOf(v) /\ led.verdict[v] = "pass"

(* A revision replaces a node that failed, and stays failed, because its     *)
(* verifier asked for a revision (ADR 0005, decision 9).                     *)
RevisionsReplaceFailures ==
  \A n \in Planned : Reworked(led, n) =>
    /\ led.node[n] = "failed"
    /\ ~IsVerifier(n) => \E v \in Planned : IsVerifier(v) /\ n \in DepsOf(v) /\ led.verdict[v] = "revise"

(* As long as nobody cancels, the engine never proposes an event its own     *)
(* reducer refuses: replaying before every append leaves no stale decision.  *)
(* The exception is a run whose first process died between run_created and   *)
(* graph_published: start takes it for started, and every advance is refused.*)
NothingRefused == raised # {} => led.phase = "run_created" \/ cancels > 0

(* An attempt in flight when its process died, or ended by an error that is  *)
(* not retried, is never launched again (PORTABILITY_CONTRACT section 6.1).  *)
Abandoned(n) ==
  \/ n \in lost
  \/ led.node[n] = "outcome_unknown" /\ pc[n] \in {"none", "ended"} /\ todo = << >>
UnknownNeverRelaunched ==
  [][\A n \in Ids : Abandoned(n) => launched'[n] = launched[n]]_vars

(* Once the run has ended, nothing is launched any more: not by the tasks of *)
(* a wave that advance started while cancel was waiting for the one before.  *)
QuietAfterEnd == [][led.terminal # "none" => UNCHANGED launched]_vars

(* A run that was cancelled is over when cancel returns, with an error or    *)
(* without: the cancelled terminal needs nothing but a published graph       *)
(* (EVENT_PROTOCOL section 6).                                               *)
CancelEndsRun == canc \in {"done", "raised"} /\ todo = << >> => led.terminal # "none"

(* A verifier that asks for a revision gets one, or a Human Gate opens       *)
(* (ADR 0005, decision 9).                                                   *)
ReviseAnswered ==
  todo = << >> => \A v \in asked : \E t \in DepsOf(v) :
    Reworked(led, <<t[1], 0>>) \/ t[1] \in led.exhausted

(* A premium node that still needs approval has its own gate (ADR 0007).     *)
PremiumHasGate ==
  up /\ todo = << >> /\ led.phase = "graph_published" =>
    \A n \in Nodes(led) : NeedsApproval(led, n) => led.gate[n] # "none"

(* What the run shows to its readers is RunContract: fates are final, one    *)
(* revision replaces failed work, and success means that all of it passed.   *)
Fate(s) ==
  CASE s = "absent" -> "unborn"
    [] s \in {"passed", "cancelled"} -> s
    [] s \in {"failed", "inconclusive"} -> "failed"
    [] OTHER -> "open"
Contract == INSTANCE RunContract WITH
  fate <- [n \in Ids |-> Fate(led.node[n])], outcome <- led.terminal
ImplementsContract == Contract!Spec

(* Every run ends, or stands still for one of the reasons listed here.       *)
(* Without process deaths these are an open gate, an outcome nobody knows,   *)
(* a cancelled node, or a verifier that ended without a verdict.             *)
Stalled ==
  \/ OpenGates(led) # {} \/ led.exhausted # {}
  \/ \E n \in Unreplaced(led) :
       \/ led.node[n] \in {"outcome_unknown", "cancelled"}
       \/ IsVerifier(n) /\ led.node[n] = "awaiting_verification" /\ led.verdict[n] = "none"
RunsSettle == <>[](led.terminal # "none" \/ Stalled)
=============================================================================
