# Graphori: verification project

TLA+ models of graphori (`src/src/graphori_core`, `src/src/graphori_adapters`), TLC
configurations that check them on small instances, and TLAPS proofs of the results that
matter most. Paths below are relative to the repository's `src/src/` unless they say
otherwise; line numbers are those of the modelled commit.

Graphori executes a committed plan, a graph of work and verification nodes, by launching
coding agents through adapters. Everything that happens is an event in a hash-chained
journal, and every decision is taken from a replay of that journal. The two questions that
decide whether the program is correct are therefore

1. does the journal keep what was published, once, in order, whoever dies when; and
2. does the engine, which can die between any two of its events, take decisions from the
   replayed journal that are right: no work launched twice, none without its dependencies
   and approvals, no success without a verdict, and no run that hangs unexplained.

The first is the module `Journal`, the second `Engine` on top of `Reducer`. Around them stand
the parts that do the work or decide what work there is: the adapters that own processes,
terminals and provider sessions, live verification, and the planners (routing, topology,
proof frontier, skills), the command line and the dashboard. Each has a module of its own.

## 1. Inventory

| Component | State | Operations | Interacts with | What makes it correct | Status |
|---|---|---|---|---|---|
| Run journal, `graphori_core/journal.py` | `inbox/tmp`, `inbox/ready`, `quarantine`, `.submission.counter`, `journal.jsonl`, two file locks; the writer's identity maps, next seq, last digest | `submit_event`, `JournalWriter` open / recover / close, `consume_one`, `consume_ready`, `read_journal_lines` | producers and writers in several processes, through the file system only | nothing published is lost, one record per identity, publication order, intact chain, append-only | modelled (`Journal`, `JournalLog`) |
| State reducer, `reducer.py` | nodes, attempts, gates, verdicts, rework and retry counts, terminal | `apply` | replayed by every reader | illegal transitions refused; success only when all work passed | partly (`Reducer`) |
| Lifecycle tables and compiler, `compiler.py` | none | `transition_node`, `transition_attempt`, graph compilation | reducer | tables are the lifecycle | partly (`Reducer`) |
| Read model, `projection.py` | none (derived) | `effective_plan`, `fresh_reducer`, projections | engine, CLI, dashboard | same plan for every reader; PROVEN only what was proved | partly (`Reducer`, `ReadModel`) |
| Scheduler, `scheduler.py` | none | `decide` | engine | limit on work in progress, disjoint file scopes, dependencies | partly (in `Engine`) |
| Execution engine, `execution_engine.py` | sessions, dispatches, tasks, cancel reason; the journal is the durable part | `start`, `advance`, `cancel`, `resolve_premium_gate`, `close` | adapter (awaits), journal, reducer, scheduler | see question 2 | partly (`Engine`) |
| Live verification, `live_verify.py`, `proof_*.py`, `workspace_snapshot.py` | watchers, stop flags, proof candidates | `_watch`, `dispatch`, `cancel`, `collect` | inner adapter, workspace | no result is reused for a workspace it was not computed on | modelled (`LiveVerify`) |
| Process supervisor, generic adapter | child process, reader threads, timeout and cancel flags | `start`, `cancel`, `collect`; `dispatch`, `events`, `release` | operating system | outcome reported is what happened; no leaked slot | partly (`ProcessAdapter`) |
| Orca execution adapter, `orca/*` | bindings file, pending acknowledgements, deliveries | `prepare_run`, `dispatch`, `events`, `acknowledge`, `release`, `cancel` | external service | each delivery journaled before it is acknowledged; nothing created twice | partly (`OrcaAdapter`) |
| Provider sessions and vault, `provider_session*.py`, `structured_cli.py` | private session files, continuations, git baselines | `probe`, `dispatch`, `_normalize`; `put`, `resolve`, `clear_run` | git tree, engine | a session is only resumed for the attempt and boundary it belongs to; success stays in scope | partly (`ProviderCli`) |
| Sprout, `sprout.py`, with the plan validation of `run_plan.py` | artifacts, trusted digests, the plan | `route`, `plan_*`, `authorize`, `expand_plan` | planner | cheapest cover within the budget; growth only under qualified proofs | partly (`Sprout`) |
| Model routing, `model_routing.py` | routes, gates, envelopes | `route`, `route_plan`, approve / fallback / skip | planner, engine | premium only when needed and approved; review by another provider | partly (`Routing`) |
| Graph compiler, `compiler.py` | task risk and mode, graph, revision count | `compile_topology`, `RevisionController.record` | planner | risk never lowered, review where required, acyclic revisions | modelled (`Topology`) |
| Skills, `skills.py` | skill directory, lock file, manifests | `install`, `get`, `resolve_many`, `decide` | planner, resume | bound skills keep their content | partly (`SkillStore`) |
| Planning and command line, `product.py`, `product_cli.py` | sidecar files of a run | `run`, `resume` | engine, journal | a run can always be resumed; the shown state is that of the run | partly (`ProductRun`) |
| Dashboard, `dashboard.py`, `dashboard-stream.js` | replay cache; stream, fetches, timer | `_sse`, `_events`, `connect` | reads the growing journal | the page comes to show the journal | partly (`Dashboard`) |
| Effectiveness reports, tests, scripts | none | collect only | | | not modelled |

**Hard behaviours.** In the journal: processes that share only a directory; deaths between
two file-system operations; torn appends; clocks that go back; files of an older version;
redelivery and identity clashes. In the engine: one coroutine per node on one asyncio
thread, so that state read before an await is used after it; `cancel` and gate decisions
arriving at any await; errors of the adapter; process deaths between two appends that
belong together; the bounded retry and rework policies. In the adapters: threads that
collect, cancel and time out one process; a file tree that others write while it is read,
copied or compared; an external service that executes a call and loses the answer. In the
planners: decisions taken in several calls, on state that an earlier call wrote or a later
one trusts. `PROJECT.json` lists every
hazard with the line where it bites and the properties that watch it.

## 2. Modules

```
 JournalLog  <-- implements --  Journal  <-- EXTENDS --  MCJournal   (runs journal_*)
                                   ^-------- EXTENDS --  JournalProofs
                                                                ^-- EXTENDS --  JournalDelivery
 RunContract <-- implements --  Engine   <-- EXTENDS --  MCEngine    (runs engine_*)
                                   |  ^---- EXTENDS --  EngineLedger
                                   |                        ^-- EXTENDS --  EngineProofs
                                   EXTENDS Reducer

 MCParts EXTENDS                                                     (runs parts, cli_scope)
   ProcessAdapter, OrcaAdapter   <-- EXTENDS --  AdapterProofs
   Sprout                        <-- EXTENDS --  SproutProofs
   ProductRun EXTENDS ReadModel
   ProductRun                    <-- EXTENDS --  ProductProofs
   LiveVerify, ProviderCli, SkillStore, Routing, Topology, Dashboard
 MCParts and these three proofs  <-- EXTENDS --  PartsProofs
```

The modules of `MCParts` share no state with one another: each has its own variables, `Init`,
`Next` and properties, prefixed with its letter. `MCParts` gives each an instance and lets a
behaviour pick one of them, its *scene*; the others stand still. One run therefore checks them
all without multiplying their states.

### Journal

| TLA+ | Code |
|---|---|
| `published`, `ready`, `quarantine` | every file ever renamed into `inbox/ready`, by position; those there now; those in `quarantine/` |
| `counter`, `subLock` | `.submission.counter`, the lock on `.submission.lock` |
| `sub[p]` | how far producer `p` is inside `submit_event` |
| `journal`, `tail` | complete lines of `journal.jsonl`; whether the file ends with a newline, a fragment, or a record without its newline |
| `owner`, `phase[w]`, `mem[w]`, `recovered[w]`, `queue[w]` | the writer lock, where writer `w` stands, its maps / `_next_seq` / `_last_digest`, the events it loaded, the rest of its `consume_ready` listing |
| `torn`, `salvaged`, `crashes` | history: fragments written, fragments quarantined, failures so far |

Each action is one file-system operation with the memory updates that follow it:
`WriteTmp, LockInbox, Stamp, Publish, UnlockInbox` are `submit_event`; `Acquire, Load,
LoadRefused, QuarantineTail, Rewrite` are opening and recovery; `LockSnapshot, Snapshot,
Quarantine, Duplicate, Raise, AppendLine, Unlink, EndPass` are `consume_ready` and
`consume_one`; `ProducerDies, WriterDies, AppendInterrupted` are the failures. A process
may die before and after every one of them. An envelope is its two identities and its
content; `Malformed` and `Lax` are those the producer validation refuses and those only
the canonical validation refuses. A digest is the history it commits to: two digests are
equal exactly when the recorded prefixes are.

`JournalLog` is what readers rely on: a set of offered envelopes and a sequence that only
grows, by offered envelopes none of whose identities it holds.

### Reducer, Engine, RunContract

`Reducer` has no variables. A *ledger* is the result of replaying a journal; `Legal(L, e)`
says whether `StateReducer.apply` accepts event `e` after it and `Applied(L, e)` what it
makes of it. Node `<<b, 0>>` is node `b` of the published plan, `<<b, 1>>` its rework
revision. `Engine` holds one ledger (`led`, the journal) and the engine object's memory:

| TLA+ | Code |
|---|---|
| `pc[n]`, `res[n]` | the await at which the `_execute_node` coroutine of `n` stands; the outcome it remembers for the retry decision |
| `todo`, `caller` | events that the code between two awaits has still to append, and whose exception a refused one is |
| `adv`, `wave` | whether an `advance` is waiting in `gather`, and for which nodes (`execution_tasks`) |
| `canc`, `awaited`, `reason` | progress of `cancel`, what it waits for, `cancel_reason` |
| `launched`, `raised`, `asked`, `lost` | history: real launches, calls that raised, verifiers that said revise, attempts in flight at a death |

asyncio is single-threaded: while `todo` is not empty, no other coroutine runs
(`LoopFree`), but the process can die (`Crash`) between any two appends. `Write` is one
`_append`: preflight on a replayed reducer, then the journal; `Refused` is the
`StateTransitionError`. A crash forgets everything but `led`; `Start` is both the first
start and the restart with its reconciliation.

What the adapter does is the environment: `Reports`, `LaunchErrors`, `Judgements`,
`Breakage` are the outcomes it may choose. The premium gate of node `n` is `led.gate[n]`;
priorities and the parallel-gain estimate of the scheduler are abstracted to "any set of
candidates that respects slots and scopes, and not the empty one if a candidate fits".
Left out: `events` passed to `advance` (no caller in `src/` passes any),
`requires_proofs` (no planner sets it), and the texts given to the agents.

`RunContract` is the promise to a reader of the run: a node's fate is decided once, a
failed piece of work and its failed check may be replaced once by a revision, the run ends
once, it ends in success only if everything that counts passed, and then nothing changes.

### The adapters

**`ProcessAdapter`** (`process_supervisor.py`, `generic/adapter.py`). An attempt is one child
process with four parties around it: the process (`leader`: how it really ended), the thread
in `collect`, the threads in `cancel` (`killer`: who holds the execution's lock inside
`_terminate`, and how far), and the engine's coroutine (`step`, with `Reserve`, `Events`,
`Report`, `Collect`, `Release`). `records` is the adapter's `_records`, its slots; `flags`
are `cancelled` and `timed_out`; `result` the `ProcessResult`; `file` the verdict file of a
verification command, which an earlier attempt may have left. `SignalGroup`, `GraceExpires`,
`LeaderGone` are `_kill_tree_posix`; a process may exit between any two of them. `Abandon` is
the coroutine whose wait raised.

**`LiveVerify`**. `ws` is the workspace; it is read one file at a time (`Readings`, `Copy`,
`Compare`), and files outside the worker's scope may change between two reads. `watch[i]` is
the thread of the worker's `i`-th launch, `worker` and `check` the dispatches of worker and
verifier, `passed` the history of contents and tool versions on which the command really
passed. A proof action key is the tool's version; `UpgradeTool` changes it.

**`OrcaAdapter`**. `binding` is the file of `OrcaBindingStore`; the service's state (runs,
tasks, workers, deliveries, acknowledged) is external and modelled from the calls. Every call
has an outcome of three: answered, executed without an answer, not executed. `Crash` forgets
everything but `binding`, the journal and the service; `PrepareLoad`, `PrepareLookup`,
`RecoverAck` are the restart. Any node's `CheckDelivers` may get any node's delivery;
`Correlated` is what `bridge.py` does about it.

**`ProviderCli`**. `disk` and `index` are the working tree and HEAD, `base[w]` the snapshot
taken at dispatch; `Delta`, `Violations`, `CheckedOutcome` are the comparison afterwards.
`vault`, `Resumable`, `Continuation`, `noted` follow a session from the attempt that opened it
to the rework that resumes it; `Upgrade`, `Restart` and other workers come in between.

### The planners

**`Sprout`**: `Route`, `RouteIfProfitable`, `PlanConditionally`, `Plan` (with its shadow) on
offered candidate sets, `Record`, `Journal`, `Trust`, `Expand` for the life of an artifact.
`Optimal` in its property is the reference definition: a quantifier over all subsets, against
the pruned search of the code. **`Routing`**: one implementation, its review and its rework,
routed over a reduced catalogue, and the gate's answers. The catalogue is a set whose routes
carry their `place` in it, and a choice among candidates is the one no other comes before
(`Fastest`, `Strongest`, `Earliest`), which is what sorting and taking the first comes to. Of the
fallbacks only the first is kept, the one `route_plan` publishes.
**`Topology`**: `Compile` (risk, mode, roles, graph, validation), `Revise`, `Escalate`,
`TransitionTask`. **`SkillStore`**: `install` as the file operations it consists of, by
several registries that may die, `EditPackage`, `VerifyLock`, `BindSkill`; `PinHolds` is the
check of `_verify_pinned_skills` at resume.

### The run as a user sees it

**`ReadModel`** holds the functions from verdicts and node states to the shown status of
criteria, requirements, nodes, teams and the run; "the last" of some verdicts is the greatest of
their indices. **`ProductRun`** drives them: the plan compiled from a request (`NodesOf`, `Awaits`,
`CommandsOf`), the sidecar files stored one by one (`StoreSpec`, `StorePlan`,
`StoreCommands`), the bounded loop over waves (`AdvanceWave`, `LeaveLoop`), the death of the
process, a second `run` and `resume`. The engine is reduced there to what the loop sees of it;
its interleavings are in `Engine`. **`Dashboard`**: the handler of the page's event stream, the
store's replay cache, the wire with one message, concurrent fetches with answers in any order,
and the appending writer.

## 3. Runs

Every passing run completes; every property has a mutant, a plausible bug in a mapped
definition under which TLC finds the property violated by the same configuration (the
operators marked *mutation* in the modules).

| Run | Instance | Question |
|---|---|---|
| `journal_safety` | 2 producers, 2 writers, 4 envelopes (a redelivery, a shared event_id, an unrelated one, a malformed one), 2 legacy files of equal mtime, 4 files, clock values 0 and 9, 1 death or torn append | Is every published envelope kept, recorded in order on an intact chain, and settled in the end; is `JournalLog` implemented? |
| `journal_faults` | 2 + 2 processes, changed content under the same ids, a lax envelope, all three ways of tearing an append, single-file consumption out of order, 2 failures, symmetry on processes | What holds even then: identities recorded once, ordinals grow, memory in step with a readable journal, fragments kept |
| `journal_bare_tail` | smallest instance, a record cut before its newline | *violation*: see findings |
| `journal_poison` | smallest instance, a lax envelope | *violation*: see findings |
| `engine_safety` | premium worker with fallback and its verifier, all verdicts, gate decisions and errors, 1 crash, 1 cancel | Dependencies, approvals, attempts, verdicts, revisions; no refused event; quiet after the end; `RunContract` implemented |
| `engine_wave` | 4 independent nodes, two in conflict, limit 2, 1 crash, 1 cancel, symmetry | Are limit and file scopes respected across waves, retries and restarts? |
| `engine_live` | design, implementation, verification; 1 start error | Does every run end, or stand still for a listed reason? |
| `engine_review`, `engine_cancel`, `engine_gate` | the smallest plan that shows it | *violations*: see findings |
| `parts` | ten scenes, see below | Seventeen questions about the adapters, the planners and what users see, one to three per scene |
| `cli_scope` | the scene `cli` alone, without session reuse | *violation*: see findings |

**The scenes of `parts`.** A behaviour picks a scene and stays in it, so the run's states are
the sum of the scenes' (about 770 000) and not their product.

| Scene | Instance | States | Properties |
|---|---|---|---|
| `process` | 2 attempts and 1 slot; one attempt has a time limit, a verdict file and a cancel, the other is judged by its exit code | 92 000 | `OutcomeIsItsEnd`, `NoProcessWithoutSlot`, `AttemptsEnd` |
| `live` | 2 files with 2 contents, one of them the worker's; 2 launches of the worker; 2 changes by others or upgrades of the tool | 89 000 | `DecisionSound`, `DispatchDecides` |
| `orca` | 2 nodes with 2 attempts each, the terminal created by us; 1 lost answer, 1 death, 1 cancel | 50 000 | `NothingLostNorTwice`, `OutcomeIsOwn` |
| `cli` | 2 workers with disjoint scopes of 1 file each, one of them reviewed; 2 events out of writes, commits, failures, restarts, upgrades | 240 000 | `ResumeContinuesOwnWork`, `SuccessStaysInScope` |
| `sprout` | 7 candidate nodes in 6 offers, 2 settings of budget and WIP, 2 calls of `route` | 51 000 | `GrowthIsSound` |
| `routing` | 7 routes of 5 models in the proportions of the default catalog, every availability, every combination of task kind, adapter, preference, quality mode and review | 27 000 | `PremiumJustified` |
| `topology` | 10 tasks around the limits of each mode, 4 sets of verifiers, 3 gate pools, 2 compilations, 2 verdicts | 9 000 | `TopologyHolds` |
| `skills` | 2 registries over one directory, 2 skills of which one needs the other, 2 builds; 1 edit, 3 installs, 1 death | 92 000 | `BoundSkillsKept` |
| `product` | 6 orders, of every profile, with and without cross-review, with all, some or none of the criteria mapped, or no criteria at all; 1 death, 1 second `run`, any number of `resume` | 56 000 | `NeverStranded`, `SuccessIsProven` |
| `dashboard` | a journal that grows to 3 events, replay limit 1, 2 fetches at a time, 2 connections, 1 dropped connection | 60 000 | `DisplaySettles` |

`TypeOK` is the conjunction of the ten type invariants, each evaluated in its scene. In a scene
that is not chosen the inputs are fixed to one value (`Idle` in `MCParts`), so that the
first states are not multiplied.

**Bounds.** `MaxPublished`, `MaxCrashes` (journal) and `MaxCrashes`, `MaxCancels`,
`MaxStartFailures` (engine) cut unbounded counters in guards. Four files are enough for
two legacy files and two new ones, hence for a clash between an old and a new file, a
redelivery and an order; two processes of each kind for every race over a lock; one
failure in `journal_safety`, which also checks liveness, and two in `journal_faults`, so
that recovery itself can be interrupted. The engine's retry and rework counters are bounded
by the code (one each), so the only bound that hides behaviour is the number of crashes and
cancels; one of each meets every await, and the ledger a restart starts from is any ledger
a run can reach. `engine_safety` has two plan nodes (four with their revisions): the
dependencies, verdicts and gates of larger plans are those of such pairs, and the longer
chain is in `engine_live`.

In `parts`, two of each kind meet in every race of two: two attempts over one slot, two
launches with a watcher each, two nodes that read one stream of deliveries, two workers in one
tree, two registries over one directory, two fetches whose answers cross. One failure of each
kind per behaviour can fall between any two steps, and what follows it is a fresh start that
can itself only fail in the same way. `MaxEvents = 2` lets a file be written by its own
worker and by the other; the routes are few enough for every availability to be enumerated,
and three of them share a provider, two differ only in effort and one has no score, which are the
distinctions the router makes. A journal of 3 events is longer than the replay limit and its
gap.

`CHECK_DEADLOCK FALSE` everywhere: a run that has ended, and a journal whose bounds are used
up, rightly stand still.

**Symmetry** is used in runs that check invariants only: processes are interchangeable in
`journal_faults`; in `engine_wave` the permutations are those of the nodes that map the
conflict pair to itself.

**Fairness.** `Journal!Fairness`: the operating system schedules every process (weak
fairness on its current call); a blocking `flock` is granted when it is free again and again
(strong fairness on `LockInbox` and `LockSnapshot`); whoever drives the run opens the
writer and goes on calling `consume_ready` (weak fairness while a call is under way, strong
on its start). No fairness on deaths, `Close` or `ConsumeDirect`. `Engine!FairSpec`: the
event loop runs a coroutine that is not suspended, an adapter call returns or raises, and the
user resumes a run that is not over and has it advanced, as `product_cli.py` does. Nobody
has to cancel or to answer a gate, so an open gate is one of the reasons in `Stalled`.
`PFairness`: threads and the event loop run (weak fairness on all of them together); the child
process need not end, so `AttemptsEnd` speaks of attempts with a time limit; its wait expires and
the kill that follows ends the process. `LFairness`: the verifier's
coroutine and each watcher run, separately, since they share a loop with work that never
blocks it; files may change or not. `DFairness`: the handler's thread, the page's event loop
and each answer of the server proceed; nothing obliges the journal to grow or a connection
to break, and the number of connections that break is bounded. There is no fairness in
the other scenes, whose properties are safety properties.

## 4. What the runs found

1. **`journal_bare_tail`** (`journal.py:397`): a truncated last line counts as corrupt
   only if it fails to parse. An append cut exactly before its newline leaves a
   valid record without a newline; no rewrite happens and the next append glues its record
   onto that line. From then on `read_journal_lines` refuses the journal.
   `docs/architecture/EVENT_PROTOCOL.md:194` says the complete records are replayed.
2. **`journal_poison`** (`journal.py:590`): an envelope the producer validation accepts
   and the canonical one refuses makes `consume_one` raise; its file stays in `ready`
   and so do all behind it, in every later pass.
3. **`engine_review`** (`execution_engine.py:402`): with a cross-review between worker
   and verifier, as `product.py:281` publishes it, the verifier's targets are both; the
   review has passed already, so the reducer refuses a revise verdict and `advance` raises.
   ADR 0005 decision 9 says a fix and a recheck happen automatically.
4. **`engine_cancel`** (`execution_engine.py:1004`): `cancel` moves each unfinished node
   to cancelled before it writes the terminal; a node awaiting verification cannot move
   there, so `cancel` raises and the run is not over.
5. **`engine_gate`** (`execution_engine.py:290`): premium gates are created only when
   the journal is empty; a death between `graph_published` and `gate_created` leaves the
   premium node without a gate for ever.

6. **`cli_scope`** (`structured_cli.py:529`): the files an attempt changed are computed from
   two snapshots of the one working tree, and any of them outside the node's scope makes the
   outcome `scope_violation`. Two implementers with disjoint scopes run together, as the
   scheduler intends, and one of them is failed for a file the other was allowed to write.

### Further observations

Met while modelling. Those marked *(run)* were reproduced by running the code; the others follow
from reading it. Where the model contains the behaviour the operator is named; the
properties say what holds in spite of it.

Run, engine, read model:

* *(run)* After a rework that succeeded, the run is `succeeded` while `requirements_status` is
  `failed` and the teams implementation and verification are `blocked`, because the verdict the
  rework overcame and the nodes it replaced still count (`projection.py:835-855, 713-732`);
  while the rework runs, the run is shown as `blocked` (`projection.py:796`).
  `SuccessIsProven` excepts reworked runs.
* *(run)* `graphori resume` restores verification commands for the nodes of the published
  plan (`product_cli.py:427-462`), not for `v1:rework:1`: a resumed run whose work is sent back
  ends with an outcome nobody knows and stands still (`VerifierUnarmed`).
* A second `run --run-id` writes the metadata files of the running one again, in place
  (`RunAgain`); a death between `run_created` and the last of these files leaves a run that
  `resume` refuses. `NeverStranded` covers the runs in which a node was dispatched.
* A retry happens inside the wave of its first attempt, so one slow node holds the whole wave
  for both attempts. The rework's verifier depends on the rework alone: a cross-review
  is not repeated for it.
* `NothingRefused` excepts a run whose first process died between `run_created` and
  `graph_published` (every later `advance` is refused), and `Stalled` lists a verifier that
  ended without a verdict.
* `advance` gathers its coroutines without `return_exceptions`: the first error reaches the
  caller while the other nodes of the wave go on.

Adapters:

* A child that ignores SIGTERM, in a group whose leader ends within the grace period, is
  not killed (`process_supervisor.py:293`). Output is silently partial when a reader
  thread does not join in time.
* `_normalize` turns a failing git snapshot after the process ran into `startup_failure`
  (`structured_cli.py:521`, `ReportFails`), which the engine retries over the partial work. The
  probed CLI version is cached for the life of the adapter (`Upgrade`).
* `LiveVerifyAdapter` stops a watcher in `collect`, `cancel` and the verifier's dispatch; a
  worker whose attempt is abandoned between these leaves its watcher running.
* Orca: a terminal that fails to close keeps its worker, and the retry starts a second one
  (`CloseMayFail`; the theorem assumes `CloseWorks`). A death between the journaled outcome and the
  saved binding leaves the delivery unacknowledged, to be offered again (`Crash`).
* Declining a premium implementation by `use_fallback` may move it to the provider of its
  reviewer (`product.py:245-272`, `projection.py:271-284`): the review is then no longer by
  another provider. `PremiumJustified` compares with the planned route.

Planners and skills:

* `_relevant_candidates` (`sprout.py:667`) drops a candidate dominated by one that `_cover`
  cannot choose, so that a cover that exists may not be found (`SearchFailed`).
  `RunPlan.__post_init__` checks dependency cycles only.
* `compile_topology` writes risk and mode back to the task even when it then raises; compiling
  again can raise medium risk to high (`CompileRefused`, `CompiledRisk`).
* A package that is edited between its digest and its copy leaves a snapshot directory whose
  content is not what it is named for, and it is never repaired: `get` refuses that skill for
  good (`CopyDisturbed`). Two registries overwrite each other's entries in the lock
  file (`WriteLock`).
* `SkillPolicyEngine.decide` fills in a snapshot path that ends in `SKILL.md` while
  `_verify_pinned_skills` digests a directory (`skills.py:552`, `product_cli.py:404`).

Dashboard:

* *(run)* The page opens each stream without the last sequence number
  (`dashboard-stream.js:42`), so that, once the journal is longer than the replay limit (256),
  the server answers every connection with `replay_gap` at once and the page reconnects
  instead of streaming (`SendGap`, `Reconnect`). `DisplaySettles` holds: each connection begins
  with a snapshot.
* An older answer to a fetch may overwrite a newer snapshot until the next heartbeat
  (`Arrives`); a slower reader may put older events back into the replay cache
  (`dashboard.py:85-90`).

## 5. What is proved

Everything below is checked by TLAPS for every value of the constants: any number of
processes, nodes, files, failures and restarts, where a run fixes a few. The assumptions are
named in the modules and evaluated by TLC in every run that extends them. Those that say more
than types:

* `PlanAssumption` (`Reducer`): the published plan is finite, its dependencies are nodes of
  it, and no node depends on itself. `RunPlan.__post_init__` refuses cyclic plans and unknown
  dependencies; the proofs need no more of acyclicity than this. `Base` without the revisions
  is what `graph_published` carries.
* `EngineAssumption` (`Engine`): `Reports`, `LaunchErrors`, `Judgements` are subsets of what an
  adapter may answer under the adapter contract, and the limit on work in progress is
  positive, which `SchedulerPolicy` enforces.

### The journal: `JournalProofs`, `JournalDelivery`

**Whatever tears an append.** These hold for every way an append can be interrupted, the bare
ending of finding 1 included:

* `TypeCorrect`: `Spec => []TypeOK`. `TypeOK` alone is not inductive (a bare ending must
  belong to some line), so the invariant is `TypeInv == TypeOK /\ EndingFits`. Besides types
  it says that only envelopes accepted by both validations get into the journal and into a
  writer's maps.
* `IdentitiesSafe`: `Spec => []ExactlyOnce`; `WriterInSyncSafe`: `Spec => []WriterInSync`. The
  invariant is `Consistent`. Besides the two: whoever is not closed owns the lock (`Owned`); a
  writer in recovery has read exactly the lines of the file, which can be read (`Reread`); and
  the memory of a writer in use covers every envelope in the file (`Remembered`).
  `WriterInSync` cannot stand in for the last one: once a line has been glued to a bare record
  the journal no longer reads, and `WriterInSync` says nothing; but the same writer goes
  on appending, and what keeps identities unique then is that its maps were complete before
  and have grown with every line since. Lemmas `FreshLine` and `GluedLine` are the two ways a
  line gets into the file.
* `FragmentsSafe`: `Spec => []NoFragmentLost`, with the addition that a writer about to rewrite
  the file has salvaged the last fragment (`FragmentsKept`).
* `OrdinalsSafe`: `Spec => []OrdinalsIncrease`. Its invariant `InboxInv` says that whoever is
  between the choice of an ordinal and the rename holds the submission lock (`Locked`), that
  the counter bounds every stamped file (`Counted`), and that a chosen ordinal is still
  the largest (`Topmost`).

**While appends leave only fragments.** `OnlyTorn` says that an interrupted append leaves an
incomplete fragment after a process death; with a bare ending these statements are
false (finding 1):

* `ChainSafe`: `OnlyTorn => (Spec => []ChainIntact)`, and `AppendOnlySafe`: no step, recovery
  included, changes or removes a recorded line.
* `JournalRefinesLog`: `Journal` implements `JournalLog`.
* `DeliverySafe`, `QuarantineSafe`: nothing published is outside `ready`, `quarantine` and the
  journal, and quarantine holds only what is malformed or contradicts a record. The added
  invariant is `AppendedSeen`: the file a writer is about to unlink is in its memory, which
  `InUse` turns into "is in the journal". `JournalStep` keeps it there.
* `OrderSafe`: `OnlyTorn /\ ~Direct => (Spec => []OrderFollowsPublication)`. `OrderInv` says
  that no recorded file is younger than one still in `ready` (`NoneSkipped`) and that the
  current pass holds the oldest files (`OldestFirst`); lemma `NextUpIsOldest` combines it
  with `OrdinalsIncrease` and the order of the legacy files. A file recorded just before a
  crash is still the oldest and, being in the writer's memory, is a duplicate, which is why
  no number is recorded twice. `~Direct` is needed: a call of `consume_one` on a chosen file
  overtakes older ones.

Their invariant is `ChainInv`: `Owned`; a writer in recovery has read the file (`Recovering`);
a writer in use works on a file that ends with a newline and its memory is what a writer
opening the file now would compute (`InUse`). Lemma `Continues` is the heart: the line a
synchronous writer computes extends the chain and its numbering.

### The engine: `EngineLedger`, `EngineProofs`

For every acyclic plan, every adapter and any number of crashes, cancels and failed starts.
The proof has two halves, because the engine's correctness has two authors: the reducer, which
refuses some events, and the engine, which must not append certain others.

`EngineLedger` is about the reducer. `Sound(L)` says that a ledger's parts agree: the
attempts of a node and its state (`AttemptsFit`), a passed node and a verdict (`Proven`), verdicts
and states (`VerdictFits`), a revision and the failure it replaces (`RevisionFits`), an open gate
and a node that has not started (`GateFits`), an attempt and its dependencies, which stay
settled (`DepsSettled`). The reducer does not enforce all that: it lets a node be dispatched
whose dependencies have not run. `Safe(L, e)` is what the one who appends `e` has to see to, and
`SoundKept` the theorem that a legal, safe event keeps a sound ledger sound. It is a lemma
about replay, and needs nothing of the engine.

`EngineProofs` is about the engine. `EngineInvariant` proves
`IInv == TypeOK /\ TodoTyped /\ Control /\ Sound(led) /\ ScriptFits /\ NodesFit`, and with it that
every event the engine appends is safe. What the conjuncts are for:

* `ScriptFits`: between two awaits the engine has decided on several events and appended some
  of them. For each caller the possible rests of such scripts are listed, with what the
  ledger must be like before each. An invariant that speaks only of the moments
  between scripts is not inductive, since the process can die, or an append be refused,
  within one.
* `NodesFit`: what the ledger holds of a node, by the await at which its coroutine stands
  (`Resting`) or the script it is in (`Writing`); that the scheduler's reasons to take it still
  hold (`Taken`); that a launch is recorded (`Recorded`); and that an attempt lost with its
  process never runs again (`Dropped`).
* `Control`: the wave is the set of nodes with a coroutine; when `cancel` drops nodes no
  coroutine is inside an attempt; after the end of the run none gets further than it is.

From it follow `EngineTyped`, `EngineLaunchesAllowed`, `EngineLaunchesRecorded`,
`EnginePassNeedsVerdict`, `EngineRevisions`, `EngineQuietAfterEnd` and
`EngineUnknownNeverRelaunched`, each the property of the same name checked by `engine_safety`.

`EngineWaveFits` needs a second invariant, `WaveInv`: the limit and the disjoint scopes are kept
by `Reserve`, the active nodes together with those whose coroutine has not dispatched yet. The
active nodes alone are not inductive: `advance` chooses a node, and only after its session has
started is the dispatch journaled. In between nothing in the ledger reserves the slot; it is
kept because no second `advance` chooses while the first one gathers.

`EngineNothingRefused` is about both halves: that the engine only proposes what its reducer
accepts. It is proved for plans that satisfy `SingleJudges` (no two verifiers judge the same node,
and no verifier judges a verifier or a node its policy closes), which the plans `product.py`
publishes without a cross-review do. For the others it is false, as finding 3 shows: the second
verifier's verdict arrives at a node that is already decided. The invariant is `AcceptedInv`:

* `Attributed`: while a verifier has not spoken nobody else has decided its targets, and a verifier
  is replaced only together with one of them. This is where `SingleJudges` is used.
* `Fitting`: each event of a script (`Acceptable`) is still legal when those before it have been
  appended. Legality at the moment of the decision is not inductive, since the script's own events
  change the ledger; nor is it enough, since other coroutines append between two scripts.
* `SkipFits`, and the order of the first two events: what a skipped node and a starting run need.

The hypothesis on cancels is part of the property (`cancels = 0`): a `cancel` that runs beside a
wave does get events refused, and `NothingRefused` says so.

`EngineImplementsContract`: `Spec => ImplementsContract`, that is, `Engine` implements
`RunContract` under the mapping given in `Engine`. `ContractStep` maps every step: an append is a
decision, a revision or an end; everything else stutters.

### Processes and the Orca service: `AdapterProofs`

`ProcessAdapter`, for any set of attempts and any number of slots:

* `SlotsHold`: `PSpec => [](PTypeOK /\ NoProcessWithoutSlot)`. `PInv` adds to the types how far
  the process, its collector and the engine's coroutine may be apart (`AttemptFits`: a running
  process is in `records`, a collector past its wait has a process that ended, a `release`
  under way is the only killer by that name) and that `records` is finite and within the limit.
* `OutcomeHolds`: `PSpec => []OutcomeIsItsEnd`. It adds what the flags tell (`Told`: whoever is
  inside `_terminate` has set its flag before the signal, a result is built from
  flags that were set, and a result that was hit by a signal has one) and `InTime`: a cancel
  flag was asked for while the process ran.

`OrcaAdapter`, for any nodes and bounds: `OutcomesAreOwn`, `OSpec => []OutcomeIsOwn`; and
`NothingIsLostNorTwice`, `CloseWorks => (OSpec => []NothingLostNorTwice)`. `NodeFits` reads off from the
place of a node's coroutine what can have happened (no worker before worker-start, no outcome in
the journal before the check, a settled one after), `DispatchFits` says that an
acknowledged, pending or recovering delivery is journaled and that only the current attempt's
worker runs. `CloseWorks` excludes a terminal of ours that cannot be closed, for which the
statement is false (see Further observations).

### The proof frontier: `SproutProofs`

`GrowthIsAlwaysSound`: `GSpec => GrowthIsSound`, for any nodes, finite offers, budgets, lanes and
rounds. The property compares a search that throws most candidates away unseen with a reference
over all subsets, so the proof is about what may be thrown away.

* `ScheduleIsMonotone`: if the nodes of one wave can be matched with different nodes of another
  that cost as much or more, its latency under `_wave_latency` is not greater. With
  dependencies this would be false, since less work can make a list schedule longer. The nodes of a
  wave have none and are placed costliest first: `Matched` pairs the nodes,
  `LoadedStaysBelow` pairs the lanes again after each placement, the lightest with the lightest, and
  `MatchedWithout` takes the cheapest nodes off two matched sets.
* `CoverShrinks`: if all the candidates that matter can run together, each of their covers has one
  of undominated candidates that is no larger and no slower (`BetterStays`).
* `BestIs`: the first cover in the order of `_cover` is one of them, and none is faster. A `CHOOSE`
  shows nothing unless a first one exists: the order by latency, cost, size and ids is total
  and transitive (`CoversAreOrdered`), and then a finite set has a first member (`FirstExists`).
* `RestraintIsSound`, `ProfitableIsSound`, `ConditionalIsSound`: the other two calls start what
  `route` chose, the static nodes under a name of their own, or nothing.

Two lemmas replace induction over data, for which the library's theorems cannot be used (see
section 6). `SubsetInduction` takes the *set* of the subsets that have a property, which is
first-order, and is proved from a least counterexample; `RecursionExists` gives the function by
which the fold of `WaveLatency` is defined. The assumptions on the constants are `SproutAssumption`:
costs are natural numbers, as `NodeSpec` requires of its estimates, and an offer is finite, being a
tuple.

### The other parts, and all of them together: `PartsProofs`


* `DecisionHolds`: `LSpec => []DecisionSound`, for any files, contents, launches and changes.
  `Watches` says that what a watcher is about to publish was run on the source it copied, in
  a version of the tool between the two keys it took, which are equal; `Tracks`, that the
  watcher the verifier awaits is that of the launch that succeeded, and that it is over when
  the decision is taken; `Decides`, that the worker's own files have one content from then on.
  The tool's version only grows, which is why equal keys enclose one version.
* `BoundSkillsHold`: `KSpec => []BoundSkillsKept`, for any registries, skills and builds.
  `Pinned` says that a directory that is bound holds the content it is named for; it is
  inductive because a snapshot directory is only ever put in place where there is none, and
  `Named` gives a placing registry the digest it works for.
* `ResumptionHolds`: `CSpec => []ResumeContinuesOwnWork`, for any workers, scopes and trees.
  `Offered` says that a handle belongs to the worker it is noted for and is in the vault until
  its run is closed, `Continued` that a resumed session is the noted one and has the probed
  version.
* `ScopeHolds`: `CSpec => SuccessStaysInScope`, an action property: in the step that reports an
  attempt as succeeded, no path outside its scope differs from the baseline of its dispatch, in the
  tree or in the index, whoever wrote there. That follows from the comparison of the snapshots
  (lemma `SameSignature`) and from the invariant's word that the report comes from that comparison.
* `PremiumIsJustified`: `RSpec => []PremiumJustified`, for any finite catalog in any order, any
  availability and requests. `Justified` says it of what is planned, and lemma `Chosen` why: what
  is chosen is one of a pool, and the pool holds premium routes only when nothing else qualifies.
  `GateTells` relates an answer to the route it was given for, which a fallback replaces;
  `OnAnotherProvider` holds of the primary route, of the fallback and of the route that is left,
  since any of them may review. That a first candidate exists at all needs no induction over data: a
  nonempty set of numbers has a least one (`LeastExists` of `SproutProofs`, from the library's `WFMin`), and of a
  finite set one member has the greatest score (`GreatestExists`, by counting those above it).
* `TopologyIsSound`: `TSpec => TopologyHolds`, for any tasks, modes, verifiers, gate pools and any
  limit of revisions. That a graph has no cycle (`Acyclic`) follows from numbers that fall along
  its edges: `Stage`, the distance from the end of the review, along requirements, and the number
  of a revision along `rework_of` (lemma `DescentIsAcyclic`). `WellDrawn` and `History` keep those
  numbers through revisions; that the nodes of the revisions are distinct is inductive because
  `record` refuses a name that the graph already has. `CompilationIs` reads `compile_topology` off
  by the four graphs it can draw. The code's assumption on names is `NamesAssumption`: the node of
  a revision is a worker's, not one the compiler made for a verifier or a gate.
* `PartsAreTyped`: `MCSpec => []TypeOK`, the types of all ten parts. A type is seldom inductive by
  itself: the router's choice has a type because it is one of the catalog's routes (`FromCatalog`),
  a grown plan because the offer it grows from is finite, the wire of the dashboard because no
  event is served that the journal does not hold. `PartInv` puts the invariants of the parts side by
  side, each for the scene it belongs to; `PartsStep` uses that a behaviour stays in its scene.
  `ScenesAssumption` says that there are no scenes but the ten.

### The run: `ProductProofs`

`RunsAreNeverStranded`: `HSpec => []NeverStranded`, for any requests, endings, deaths and resumes.
The loop over the waves has a bound of its own in the code, and meeting it would abandon a run in
the middle. `Paced` says why it is never met: every wave starts a node that had not started, and
`Planned` that there are at most a rework and its verifier beyond the published nodes. `Stored`
says that the three files a resume needs are written one after the other before the first wave,
unless a second `graphori run` with the same id writes them again.

`SuccessIsAlwaysProven`: `HSpec => []SuccessIsProven`, for any requests, endings, deaths and resumes.
What is shown of a run is computed from two sources, the replayed node states and the recorded
verdicts, by readers that take the last verdict on a node, the last claim on a criterion, the
weightiest of its states. The invariant `TInv` says why they cannot contradict one another:

* `Agreed`: every verdict ever recorded agrees with the present state of the node it judges and of
  the node that gave it. So it does not matter which of them is the last. It is inductive since a
  verifier runs only while what it looks at has passed or awaits it (`Fronted`), and since a failed
  node is replaced and never tried again.
* `Backed`: what has passed has a verdict: of its own, or of its verifier. With `Agreed` it makes
  the command's claims those of a run that succeeded.
* `Revised`: a verdict that failed is followed by a rework, and a gate opens only after one.
* `Left`: the process leaves the loop by itself only when the run is over, a person is asked or a
  node stands still. Its core is lemma `NothingToStart`: where nothing can start and nothing
  stands still, everything has passed, by the order of the dependencies.

`NothingToStart` fails for a run in which a verdict was refused or the process died, which is why the
property excepts them. Of the assumptions on the constants only `mapped \subseteq criteria` is used,
which `compile` of `product.py` checks (it raises on an unknown criterion).

## 6. What is model-checked only

* Liveness (`EveryFileSettles`, `RunsSettle`, `AttemptsEnd`, `DispatchDecides`,
  `DisplaySettles`): outside TLAPS, which cannot reason here about fairness and ENABLED.
* `Engine.NothingRefused` for plans with a cross-review that is judged together with its subject:
  false in general (finding 3), so only the runs say for which of them it holds.
* Nothing else: every invariant and every action property of the passing runs is also a theorem,
  with the hypotheses given above.

What shaped the proofs: the library's induction theorems take an operator as parameter, which the
installed provers cannot instantiate, so induction over data is done with a least counterexample
in a set (`SubsetInduction`, `LeastExists`). A module with RECURSIVE operators loses the SMT
backend, so the modules here use recursive functions and folds instead.

### Not modelled

* Windows: the job object that ends a process tree, and `msvcrt` locks. The models are of POSIX.
* Output buffers and their limits, command lines, prompts, the parsers of provider output,
  and everything whose subject is wording (previews, acceptance texts, localisation).
* Capability probing beyond "available, in this version, or not"; model discovery.
* The circuit breaker of Orca routes (`orca_lifecycle.py`): its state file is advisory and shared
  by processes without a lock; only a lost update could be stated of it.
* Effectiveness reports and benchmarks: they only read finished runs.
* In `Engine`: plan expansion (in `Sprout`), sessions and continuations (in `ProviderCli`),
  live status callbacks. In `Reducer`: events the engine never records (platform verdicts,
  compatibility events of runs without a graph), roles of actors, which each call site fixes.
* Torn reads of a journal that is being appended to are modelled where they are answered
  (`ReadFails` of `Dashboard`), not for each reader.

## 7. Plan

1. (done) `JournalLog`, `Journal`; `Reducer`, `RunContract`, `Engine`; `JournalProofs`,
   `JournalDelivery`.
2. (done) the adapters: `ProcessAdapter`, `LiveVerify`, `OrcaAdapter`, `ProviderCli`,
   `SkillStore`.
3. (done) the planners and the user's view: `Sprout`, `Routing`, `Topology`, `ReadModel`,
   `ProductRun`, `Dashboard`.
4. (done) `EngineLedger`, `EngineProofs`: the inductive invariant of the engine, the properties
   that follow, the wave limit, `NothingRefused` for plans with one judge per node, and
   `ImplementsContract`; `AdapterProofs`, `SproutProofs`, `ProductProofs`, and in `PartsProofs`
   the other parts and the types of all of them.
5. The composition of engine and journal (an event submitted and not yet consumed when the
   process dies), which today is the journal's guarantee plus the engine's assumption that an
   append is recorded when it returns.
