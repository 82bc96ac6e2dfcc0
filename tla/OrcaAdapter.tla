---------------------------- MODULE OrcaAdapter ----------------------------
(***************************************************************************)
(* The Orca execution adapter (graphori_adapters/orca/execution.py with    *)
(* bridge.py), the engine that drives it, and the external service it      *)
(* calls.  Every call may be executed without its answer arriving, or not  *)
(* be executed at all; the adapter's process may die and be started again. *)
(*                                                                         *)
(* A dispatch is a node and the number of its attempt.  A delivery of the  *)
(* service holds the worker_done message of one dispatch and is offered to *)
(* every check of the run until it is acknowledged.                        *)
(***************************************************************************)
EXTENDS Naturals, FiniteSets

CONSTANTS OrcaNodes,
          Precreated,    \* whether launch_strategy is orca_ready_terminal
          CloseMayFail,  \* whether a terminal-close can fail
          MaxLosses,     \* bound on calls without a good answer
          MaxCrashes,    \* bound on deaths of the adapter's process
          MaxCancels     \* bound on cancels

ASSUME OrcaAssumption ==
  /\ Precreated \in BOOLEAN /\ CloseMayFail \in BOOLEAN
  /\ MaxLosses \in Nat /\ MaxCrashes \in Nat /\ MaxCancels \in Nat

MaxAttempts == 2                     \* a startup failure is retried once
Dispatches == OrcaNodes \X (1..MaxAttempts)

VARIABLES
  binding,   \* the binding file, which every change of OrcaBinding rewrites
  prepared,  \* how far prepare_run is in this process
  recovery,  \* acknowledgements _recover_pending_acks has still to retry
  pos,       \* where the coroutine of each node stands
  attempt,   \* attempts of each node that were journaled as dispatched
  journal,   \* the outcome of the worker_finished event of each dispatch
  found,    \* _Dispatch.result, what collect will return
  retries,   \* calls already made by the bounded loop the node is in
  lost, crashes, cancels,  \* bounds
  runs, tasks,     \* service: runs and tasks created under our markers
  terminals,       \* service: terminals that are open, by the dispatch they are for
  workers,         \* service: what became of the worker of each dispatch
  deliveries,      \* service: deliveries not yet acknowledged
  acknowledged     \* service: deliveries acknowledged

service == <<runs, tasks, terminals, workers, deliveries, acknowledged>>
engine  == <<pos, attempt, journal, found, retries>>
ovars == <<binding, prepared, recovery, engine, lost, crashes, cancels, service>>

Current(n) == <<n, attempt[n]>>
Settled == {"succeeded", "failed"}

OInit ==
  /\ binding = [run |-> FALSE, tasks |-> {}, pending |-> {}]
  /\ prepared = "no"
  /\ recovery = {}
  /\ pos = [n \in OrcaNodes |-> "idle"]
  /\ attempt = [n \in OrcaNodes |-> 0]
  /\ journal = [d \in Dispatches |-> "none"]
  /\ found = [n \in OrcaNodes |-> "none"]
  /\ retries = [n \in OrcaNodes |-> 0]
  /\ lost = 0 /\ crashes = 0 /\ cancels = 0
  /\ runs = 0
  /\ tasks = [n \in OrcaNodes |-> 0]
  /\ terminals = {}
  /\ workers = [d \in Dispatches |-> "none"]
  /\ deliveries = {}
  /\ acknowledged = {}

Answered == UNCHANGED lost
Unanswered == lost < MaxLosses /\ lost' = lost + 1
Go(n, p) == pos' = [pos EXCEPT ![n] = p]

-----------------------------------------------------------------------------
(* prepare_run.                                                            *)

Bounds == UNCHANGED <<crashes, cancels>>

PrepareLoad ==
  /\ prepared = "no"
  /\ prepared' = IF binding.run THEN "recovering" ELSE "looking"
  /\ recovery' = binding.pending
  /\ UNCHANGED <<binding, engine, lost, service>> /\ Bounds

\* run-list: adopt the run that carries our marker; two of them are refused
PrepareLookup ==
  /\ prepared = "looking"
  /\ \/ /\ Answered
        /\ \/ runs = 1 /\ prepared' = "recovering" /\ binding' = [binding EXCEPT !.run = TRUE]
           \/ runs = 0 /\ prepared' = "creating" /\ UNCHANGED binding
           \/ runs > 1 /\ prepared' = "refused" /\ UNCHANGED binding
     \/ Unanswered /\ prepared' = "no" /\ UNCHANGED binding
  /\ UNCHANGED <<recovery, engine, service>> /\ Bounds

PrepareCreate ==
  /\ prepared = "creating"
  /\ \/ /\ Answered
        /\ runs' = runs + 1
        /\ prepared' = "recovering" /\ binding' = [binding EXCEPT !.run = TRUE]
     \/ /\ Unanswered
        /\ runs' \in {runs, runs + 1}
        /\ prepared' = "no" /\ UNCHANGED binding
  /\ UNCHANGED <<recovery, engine, tasks, terminals, workers, deliveries, acknowledged>>
  /\ Bounds

Acknowledged(d) ==
  /\ acknowledged' = acknowledged \cup {d}
  /\ deliveries' = deliveries \ {d}

\* one delivery of _recover_pending_acks, its two calls together
RecoverAck(d) ==
  /\ prepared = "recovering" /\ d \in recovery
  /\ recovery' = recovery \ {d}
  /\ \/ /\ Answered
        /\ Acknowledged(d)
        /\ binding' = [binding EXCEPT !.pending = @ \ {d}]
     \/ /\ Unanswered
        /\ Acknowledged(d) \/ UNCHANGED <<acknowledged, deliveries>>
        /\ UNCHANGED binding
  /\ UNCHANGED <<prepared, engine, runs, tasks, terminals, workers>> /\ Bounds

Prepared ==
  /\ prepared = "recovering" /\ recovery = {}
  /\ prepared' = "ready"
  /\ UNCHANGED <<binding, recovery, engine, lost, service>> /\ Bounds

-----------------------------------------------------------------------------
(* start_session: the task of a node is looked up by its marker before it  *)
(* is created.  The engine journals no attempt before this succeeds, so a  *)
(* failure leaves the node to be tried again.                              *)

SessionMoves == UNCHANGED <<prepared, recovery, journal, found, retries>> /\ Bounds

BindTask(n) == binding' = [binding EXCEPT !.tasks = @ \cup {n}]
Journaled(n) == attempt' = [attempt EXCEPT ![n] = @ + 1]   \* attempt_dispatched

OpenSessionCreating(n) ==  \* mutation: the task is created without looking for it
  /\ prepared = "ready" /\ pos[n] = "idle" /\ attempt[n] < MaxAttempts
  /\ IF n \in binding.tasks THEN Go(n, "dispatching") /\ Journaled(n)
                            ELSE Go(n, "creating") /\ UNCHANGED attempt
  /\ UNCHANGED <<binding, lost, service>> /\ SessionMoves

OpenSession(n) ==
  /\ prepared = "ready" /\ pos[n] = "idle" /\ attempt[n] < MaxAttempts
  /\ IF n \in binding.tasks THEN Go(n, "dispatching") /\ Journaled(n)
                            ELSE Go(n, "looking") /\ UNCHANGED attempt
  /\ UNCHANGED <<binding, lost, service>> /\ SessionMoves

TaskLookup(n) ==
  /\ pos[n] = "looking"
  /\ \/ /\ Answered
        /\ \/ tasks[n] = 1 /\ BindTask(n) /\ Go(n, "dispatching") /\ Journaled(n)
           \/ tasks[n] = 0 /\ Go(n, "creating") /\ UNCHANGED <<binding, attempt>>
           \/ tasks[n] > 1 /\ Go(n, "idle") /\ UNCHANGED <<binding, attempt>>
     \/ Unanswered /\ Go(n, "idle") /\ UNCHANGED <<binding, attempt>>
  /\ UNCHANGED service /\ SessionMoves

TaskCreate(n) ==
  /\ pos[n] = "creating"
  /\ \/ /\ Answered
        /\ tasks' = [tasks EXCEPT ![n] = @ + 1]
        /\ BindTask(n) /\ Go(n, "dispatching") /\ Journaled(n)
     \/ /\ Unanswered
        /\ tasks' \in {tasks, [tasks EXCEPT ![n] = @ + 1]}
        /\ Go(n, "idle") /\ UNCHANGED <<binding, attempt>>
  /\ UNCHANGED <<runs, terminals, workers, deliveries, acknowledged>> /\ SessionMoves

-----------------------------------------------------------------------------
(* dispatch: with a terminal of our own that must become ready first, or   *)
(* with one the service composes; then worker-start.                       *)

DispatchMoves == UNCHANGED <<binding, prepared, recovery, attempt, found, retries>> /\ Bounds

\* how the engine takes an AdapterError
StartupFailure(n) == Go(n, "idle") /\ UNCHANGED journal
OutcomeUnknown(n) ==
  /\ Go(n, "ended")
  /\ journal' = [journal EXCEPT ![Current(n)] = "outcome_unknown"]

\* a closed terminal takes its worker with it; the answer is not looked at
CloseTerminal(d, ws) ==
  \/ /\ terminals' = terminals \ {d}
     /\ workers' = [ws EXCEPT ![d] = IF @ = "running" THEN "stopped" ELSE @]
  \/ CloseMayFail /\ terminals' = terminals /\ workers' = ws

CreateTerminal(n) ==
  LET d == Current(n) IN
  /\ Precreated /\ pos[n] = "dispatching" /\ d \notin terminals
  /\ \/ /\ Answered /\ terminals' = terminals \cup {d} /\ Go(n, "waiting")
        /\ UNCHANGED journal
     \/ /\ Unanswered /\ terminals' \in {terminals, terminals \cup {d}} /\ StartupFailure(n)
  /\ UNCHANGED <<runs, tasks, workers, deliveries, acknowledged>> /\ DispatchMoves

WaitReady(n) ==
  /\ pos[n] = "waiting"
  /\ \/ /\ Answered /\ Go(n, "starting")
        /\ UNCHANGED <<journal, terminals, workers>>
     \/ /\ Unanswered /\ CloseTerminal(Current(n), workers) /\ StartupFailure(n)
  /\ UNCHANGED <<runs, tasks, deliveries, acknowledged>> /\ DispatchMoves

Placed(n) == pos[n] = IF Precreated THEN "starting" ELSE "dispatching"
Launched(n) == [workers EXCEPT ![Current(n)] = "running"]

WorkerStart(n) ==
  /\ Placed(n)
  /\ Answered
  /\ workers' = Launched(n)
  /\ Go(n, "watching")
  /\ UNCHANGED <<journal, runs, tasks, terminals, deliveries, acknowledged>> /\ DispatchMoves

\* Unconfirmed: the worker may run.  A pre-created terminal is closed and the
\* attempt counted as never started, unless the answer names a dispatch.
WorkerStartUnconfirmed(n) ==
  /\ Placed(n)
  /\ Unanswered
  /\ \E ws \in {workers, Launched(n)} :
       \/ /\ Precreated
          /\ CloseTerminal(Current(n), ws)
          /\ StartupFailure(n)
       \/ /\ Precreated => ws # workers
          /\ workers' = ws /\ UNCHANGED terminals
          /\ OutcomeUnknown(n)
  /\ UNCHANGED <<runs, tasks, deliveries, acknowledged>> /\ DispatchMoves

-----------------------------------------------------------------------------
(* events and acknowledge: one check of the run's deliveries; what it      *)
(* returns is journaled before the delivery is acknowledged.               *)

WatchMoves == UNCHANGED <<prepared, recovery, attempt>> /\ Bounds

CorrelatedAlways(e, d) == TRUE  \* mutation: every worker_done of the run is taken

\* OrcaJournalBridge.events: a worker_done of another dispatch is no event
Correlated(e, d) == e = d

CheckDeliversAcking(n) ==  \* mutation: a delivery is acknowledged before it is journaled
  LET d == Current(n) IN
  /\ pos[n] = "watching" /\ d \in deliveries
  /\ Go(n, "remembering") /\ found' = [found EXCEPT ![n] = workers[d]]
  /\ Answered
  /\ UNCHANGED <<binding, journal, retries, service>> /\ WatchMoves

CheckDelivers(n) ==
  LET d == Current(n) IN
  /\ pos[n] = "watching"
  /\ \E e \in deliveries :
       IF Correlated(e, d)
       THEN Go(n, "reporting") /\ found' = [found EXCEPT ![n] = workers[e]]
       ELSE Go(n, "unconfirmed") /\ found' = [found EXCEPT ![n] = "outcome_unknown"]
  /\ Answered
  /\ UNCHANGED <<binding, journal, retries, service>> /\ WatchMoves

\* timed out, failed or malformed
CheckFails(n) ==
  /\ pos[n] = "watching"
  /\ Unanswered
  /\ Go(n, "unconfirmed")
  /\ found' = [found EXCEPT ![n] = "outcome_unknown"]
  /\ UNCHANGED <<binding, journal, retries, service>> /\ WatchMoves

\* the record stays: the worker behind it is not known to be done
AppendUnknown(n) ==
  /\ pos[n] = "unconfirmed"
  /\ OutcomeUnknown(n)
  /\ UNCHANGED <<binding, lost, found, retries, service>> /\ WatchMoves

\* the event was made from the delivery; a cancel in between does not change it
AppendFinished(n) ==
  LET d == Current(n) IN
  /\ pos[n] = "reporting"
  /\ \E e \in deliveries : Correlated(e, d) /\ journal' = [journal EXCEPT ![d] = workers[e]]
  /\ Go(n, "remembering")
  /\ UNCHANGED <<binding, lost, found, retries, service>> /\ WatchMoves

RememberAck(n) ==
  /\ pos[n] = "remembering"
  /\ binding' = [binding EXCEPT !.pending = @ \cup {Current(n)}]
  /\ Go(n, "acking")
  /\ retries' = [retries EXCEPT ![n] = 0]
  /\ UNCHANGED <<lost, journal, found, service>> /\ WatchMoves

Ack(n) ==
  LET d == Current(n) IN
  /\ pos[n] = "acking"
  /\ \/ /\ Answered
        /\ Acknowledged(d)
        /\ binding' = [binding EXCEPT !.pending = @ \ {d}]
        /\ Go(n, "releasing") /\ retries' = [retries EXCEPT ![n] = 0]
     \/ /\ Unanswered
        /\ Acknowledged(d) \/ UNCHANGED <<acknowledged, deliveries>>
        /\ IF retries[n] = 0 THEN UNCHANGED pos /\ retries' = [retries EXCEPT ![n] = 1]
           ELSE Go(n, "releasing") /\ retries' = [retries EXCEPT ![n] = 0]
        /\ UNCHANGED binding
  /\ UNCHANGED <<journal, found, runs, tasks, terminals, workers>> /\ WatchMoves

\* worker-release, twice at most, then the terminal if it is ours
ReleaseWorker(n) ==
  LET d == Current(n) IN
  /\ pos[n] = "releasing"
  /\ \/ Answered /\ CloseTerminal(d, workers) /\ Go(n, "ended") /\ UNCHANGED retries
     \/ /\ Unanswered
        /\ IF retries[n] = 0 THEN UNCHANGED pos /\ retries' = [retries EXCEPT ![n] = 1]
           ELSE Go(n, "ended") /\ UNCHANGED retries
        /\ UNCHANGED <<terminals, workers>>
  /\ UNCHANGED <<binding, journal, found, runs, tasks, deliveries, acknowledged>>
  /\ WatchMoves

\* cancel runs beside events: worker-stop, and what it says becomes the result
CancelWorker(n) ==
  LET d == Current(n) IN
  /\ pos[n] \in {"watching", "reporting", "unconfirmed", "remembering", "acking", "releasing"}
  /\ cancels < MaxCancels /\ cancels' = cancels + 1
  /\ \/ /\ Answered /\ workers[d] = "running"
        /\ workers' = [workers EXCEPT ![d] = "stopped"]
        /\ found' = [found EXCEPT ![n] = "cancelled"]
     \/ /\ Answered /\ workers[d] # "running"       \* "stop not confirmed"
        /\ found' = [found EXCEPT ![n] = "outcome_unknown"]
        /\ UNCHANGED workers
     \/ /\ Unanswered
        /\ workers' \in {workers, [workers EXCEPT ![d] = IF @ = "running" THEN "stopped" ELSE @]}
        /\ found' = [found EXCEPT ![n] = IF @ = "none" THEN "outcome_unknown" ELSE @]
  /\ UNCHANGED <<binding, prepared, recovery, pos, attempt, journal, retries, crashes,
                 runs, tasks, terminals, deliveries, acknowledged>>

-----------------------------------------------------------------------------
(* The service, and the death of the adapter's process: what is in memory  *)
(* is gone, and the engine that starts again closes attempts in flight as  *)
(* unknown.                                                                *)

WorkerDone(d) ==
  /\ workers[d] = "running"
  /\ \E o \in Settled : workers' = [workers EXCEPT ![d] = o]
  /\ deliveries' = deliveries \cup {d}
  /\ UNCHANGED <<binding, prepared, recovery, engine, lost, runs, tasks, terminals,
                 acknowledged>>
  /\ Bounds

InFlight(n) == attempt[n] > 0 /\ journal[Current(n)] = "none" /\ pos[n] # "idle"

Crash ==
  /\ crashes < MaxCrashes /\ crashes' = crashes + 1
  /\ prepared' = "no" /\ recovery' = {}
  /\ pos' = [n \in OrcaNodes |->
               IF InFlight(n) \/ pos[n] \notin {"idle", "looking", "creating"}
               THEN "ended" ELSE "idle"]
  /\ journal' = [d \in Dispatches |->
                   IF InFlight(d[1]) /\ d = Current(d[1]) THEN "outcome_unknown"
                   ELSE journal[d]]
  /\ found' = [n \in OrcaNodes |-> "none"]
  /\ retries' = [n \in OrcaNodes |-> 0]
  /\ UNCHANGED <<binding, attempt, lost, cancels, service>>

ONext ==
  \/ PrepareLoad \/ PrepareLookup \/ PrepareCreate \/ Prepared \/ Crash
  \/ \E d \in Dispatches : RecoverAck(d) \/ WorkerDone(d)
  \/ \E n \in OrcaNodes :
       \/ OpenSession(n) \/ TaskLookup(n) \/ TaskCreate(n)
       \/ CreateTerminal(n) \/ WaitReady(n) \/ WorkerStart(n) \/ WorkerStartUnconfirmed(n)
       \/ CheckDelivers(n) \/ CheckFails(n) \/ AppendUnknown(n) \/ AppendFinished(n)
       \/ RememberAck(n) \/ Ack(n) \/ ReleaseWorker(n) \/ CancelWorker(n)

OSpec == OInit /\ [][ONext]_ovars

-----------------------------------------------------------------------------
(* Properties.                                                             *)

OTypeOK ==
  /\ binding \in [run : BOOLEAN, tasks : SUBSET OrcaNodes, pending : SUBSET Dispatches]
  /\ prepared \in {"no", "looking", "creating", "refused", "recovering", "ready"}
  /\ recovery \subseteq Dispatches
  /\ pos \in [OrcaNodes -> {"idle", "looking", "creating", "dispatching", "waiting", "starting",
                        "watching", "unconfirmed", "reporting", "remembering", "acking",
                        "releasing", "ended"}]
  /\ attempt \in [OrcaNodes -> 0..MaxAttempts]
  /\ journal \in [Dispatches -> {"none", "succeeded", "failed", "outcome_unknown"}]
  /\ found \in [OrcaNodes -> {"none", "cancelled", "outcome_unknown"} \cup Settled]
  /\ retries \in [OrcaNodes -> 0..1]
  /\ lost \in 0..MaxLosses /\ crashes \in 0..MaxCrashes /\ cancels \in 0..MaxCancels
  /\ runs \in Nat /\ tasks \in [OrcaNodes -> Nat]
  /\ terminals \subseteq Dispatches
  /\ workers \in [Dispatches -> {"none", "running", "stopped"} \cup Settled]
  /\ deliveries \subseteq Dispatches /\ acknowledged \subseteq Dispatches

CreatedOnce == runs <= 1 /\ \A n \in OrcaNodes : tasks[n] <= 1

OneWorkerPerNode ==
  \A n \in OrcaNodes : Cardinality({k \in 1..MaxAttempts : workers[<<n, k>>] = "running"}) <= 1

\* However answers are lost and processes die, nothing is lost and nothing is
\* done twice.  The service is told to forget a delivery only after the outcome
\* it carries is in the journal, and an acknowledgement that is retried after a
\* restart is one of those; the service holds at most one run and one task per
\* node created by us; and a node never has two workers running at once, which
\* would edit the same files: an attempt that may have started is not started
\* again.
NothingLostNorTwice ==
  /\ \A d \in acknowledged \cup binding.pending : journal[d] \in Settled
  /\ CreatedOnce /\ OneWorkerPerNode

\* An outcome that is journaled for an attempt is what its own worker said,
\* although the deliveries of all nodes of a run arrive at whoever asks.
OutcomeIsOwn ==
  \A d \in Dispatches : journal[d] \in Settled => workers[d] = journal[d]
=============================================================================
