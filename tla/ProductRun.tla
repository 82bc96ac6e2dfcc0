----------------------------- MODULE ProductRun -----------------------------
(***************************************************************************)
(* `graphori run' and `graphori resume' of one run: the plan compiled from *)
(* a request (graphori_core/product.py), the metadata files stored beside  *)
(* the journal before the first dispatch, the bounded loop over the        *)
(* engine's waves, the death of the process anywhere, and the replay that  *)
(* decides whether the run may go on (graphori_core/product_cli.py).       *)
(*                                                                         *)
(* The engine is reduced to what the loop sees of it: nodes are dispatched *)
(* in waves, retried once within their wave, judged, and revised once.     *)
(***************************************************************************)
EXTENDS ReadModel

CONSTANTS
  Orders,      \* what users ask for
  Endings,     \* how the attempt of a worker may end
  ExitStatuses,       \* how the verification command may end: 0, 1 or "timed_out"
  MaxKills, MaxReruns    \* bounds of the exploration

ASSUME ProductAssumption ==
  /\ Endings \subseteq {"succeeded", "failed", "timed_out", "outcome_unknown"}
  /\ ExitStatuses \subseteq {"zero", "nonzero", "timed_out"}
  /\ MaxKills \in Nat /\ MaxReruns \in Nat
  /\ \A o \in Orders : o.mapped \subseteq o.criteria

VARIABLES
  order,      \* the request
  shell,      \* where the graphori process stands
  waves,      \* waves of this process; no bound holds for a resumed run
  bounded,    \* TRUE: this process is `graphori run'
  log,        \* what of run_created and graph_published the journal holds
  files,      \* run-spec.json, run-plan.json and process-commands.json
  armed,      \* nodes whose verification command this process holds
  state,      \* per node: its state, replayed from the journal
  retried,    \* nodes whose one automatic retry is used
  front,      \* nodes of the wave that have not ended
  judged,     \* the verdicts the journal holds
  ended,      \* the terminal status of the run
  gated,      \* TRUE: the rework-exhausted gate is open
  kills, reruns

journaled == <<state, retried, judged, ended, gated>>
hvars == <<order, shell, waves, bounded, log, files, armed, journaled, front, kills, reruns>>

-----------------------------------------------------------------------------
(* ProductPlanCompiler.compile                                             *)

Profile(o) ==
  IF o.research THEN IF o.write THEN "research-and-implementation" ELSE "research"
  ELSE IF o.bug THEN "bug-fix"
  ELSE IF o.design /\ o.write THEN "design-and-implementation"
  ELSE "implementation"

\* the profiles whose change is built from the output of other nodes
Synthesis == {"research-and-implementation", "design-and-implementation"}

CrossReviewWarranted(o) ==
  \/ o.review = "always"
  \/ o.review = "auto" /\ (o.sensitive \/ o.broad \/ o.unsure \/ Profile(o) \in Synthesis)

Implements(o) == Profile(o) # "research"
CrossReviewed(o)  == Implements(o) /\ CrossReviewWarranted(o) /\ o.ready = {"openai", "anthropic"}

NodesOf(o) ==
  {n \in {"r1", "r2", "d1", "i1", "cr1", "v1"} :
     CASE n \in {"r1", "r2"} -> o.research
       [] n = "d1"           -> Profile(o) \in Synthesis
       [] n = "cr1"          -> CrossReviewed(o)
       [] OTHER              -> Implements(o)}

Verifying == {"v1", "v1:rework:1"}
NodeIds   == {"r1", "r2", "d1", "i1", "cr1", "i1:rework:1"} \cup Verifying

\* dependencies in the effective plan: the rework depends on what i1 depended
\* on, its verifier on the rework alone
Awaits(o, n) ==
  CASE n = "d1"                      -> {"r1", "r2"} \cap NodesOf(o)
    [] n \in {"i1", "i1:rework:1"}   -> {"d1"} \cap NodesOf(o)
    [] n = "cr1"                     -> {"i1"}
    [] n = "v1"                      -> {"i1", "cr1"} \cap NodesOf(o)
    [] n = "v1:rework:1"             -> {"i1:rework:1"}
    [] OTHER                         -> {}

\* process_commands: the verifier and its one possible revision
CommandsOf(o) == IF Implements(o) THEN Verifying ELSE {}

\* evidence_requirements: the mapped criteria, on the verifiers only
RequiredOf(o, n) == IF n \in Verifying THEN o.mapped ELSE {}

TeamOf(n) ==
  CASE n \in {"r1", "r2"}          -> "research"
    [] n = "d1"                    -> "design"
    [] n \in {"i1", "i1:rework:1"} -> "implementation"
    [] OTHER                       -> "verification"
Teams == {"research", "design", "implementation", "verification"}

-----------------------------------------------------------------------------
(* The run as its journal tells it                                         *)

Present  == {n \in NodeIds : state[n] # "absent"}
Reworked == state["i1:rework:1"] # "absent"
Standing == IF Reworked THEN Present \ {"i1", "v1"} ELSE Present

\* a verifier and a reviewer may look at work that awaits verification
CanStart(n) ==
  /\ state[n] = "pending"
  /\ \A d \in Awaits(order, n) :
       \/ state[d] = "passed"
       \/ n \in Verifying \cup {"cr1"} /\ state[d] = "awaiting_verification"

\* SchedulingBatch.blocked
HeldBack(n) ==
  state[n] = "pending" /\ \E d \in Awaits(order, n) : state[d] \in {"failed", "blocked"}

Underway == {n \in Present : state[n] = "running"}

MaxWavesTight(o) == Cardinality(NodesOf(o))  \* mutation: one wave per planned node
MaxWaves(o) == IF 3 * Cardinality(NodesOf(o)) > 2 THEN 3 * Cardinality(NodesOf(o)) ELSE 2

\* _settle: what the run is to be ended with, over the nodes no rework replaced
Settlement ==
  LET states == {state[n] : n \in Standing}
  IN  IF gated THEN "none"
      ELSE IF states = {"passed"}  THEN "succeeded"
      ELSE IF "blocked" \in states THEN "blocked"
      ELSE IF "failed" \in states  THEN "failed"
      ELSE "none"

-----------------------------------------------------------------------------
(* graphori run                                                            *)

Driving == shell = "driving"

CreateRun ==  \* engine.start, on an empty journal
  /\ shell = "new" /\ log = "empty"
  /\ log' = "created" /\ shell' = "publishing"
  /\ bounded' = TRUE /\ waves' = 0
  /\ armed' = CommandsOf(order)
  /\ UNCHANGED <<order, files, journaled, front, kills, reruns>>

PublishGraph ==
  /\ shell = "publishing"
  /\ log' = "published"
  /\ state' = [n \in NodeIds |-> IF n \in NodesOf(order) THEN "pending" ELSE "absent"]
  /\ shell' = "storing spec"
  /\ UNCHANGED <<order, waves, bounded, files, armed, retried, judged, ended, gated,
                 front, kills, reruns>>

\* persist_sidecars; `first' is what the first process asked for
Storing(name) ==
  IF name = "spec" THEN "storing spec"
  ELSE IF name = "plan" THEN "storing plan" ELSE "storing commands"
StoreFile(name, next) ==
  /\ shell = Storing(name)
  /\ files' = [files EXCEPT ![name] = IF name = "spec" /\ reruns > 0 THEN "later" ELSE "first"]
  /\ shell' = next
  /\ UNCHANGED <<order, waves, bounded, log, armed, journaled, front, kills, reruns>>
StoreSpec     == StoreFile("spec", "storing plan")
StorePlan     == StoreFile("plan", "storing commands")
StoreCommands == StoreFile("commands", "driving")

\* execute_product: another wave, unless the run is over or a gate waits.  The
\* loop raises when the bound is met, which NeverStranded rules out.
AdvanceWave ==
  /\ Driving /\ ended = "none" /\ ~gated
  /\ bounded => waves < MaxWaves(order)
  /\ waves' = IF bounded THEN waves + 1 ELSE waves
  /\ \E wave \in SUBSET {n \in Present : CanStart(n)} :
       /\ wave # {}
       /\ front' = wave
       /\ state' = [n \in NodeIds |-> IF n \in wave THEN "running" ELSE state[n]]
  /\ shell' = "waiting"
  /\ UNCHANGED <<order, bounded, log, files, armed, retried, judged, ended, gated,
                 kills, reruns>>

\* the engine settles the run when a wave ends, and when there is none to start
IdleWave ==
  /\ Driving /\ ended = "none" /\ ~gated
  /\ ~\E n \in Present : CanStart(n)
  /\ shell' = "settling last"
  /\ UNCHANGED <<order, waves, bounded, log, files, armed, journaled, front, kills, reruns>>

Settle ==
  /\ shell \in {"settling", "settling last"}
  /\ ended' = Settlement
  /\ shell' = IF shell = "settling" THEN "driving" ELSE "gone"
  /\ UNCHANGED <<order, waves, bounded, log, files, armed, state, retried, judged, gated,
                 front, kills, reruns>>

LeaveLoop ==
  /\ Driving /\ (ended # "none" \/ gated)
  /\ shell' = "gone"
  /\ UNCHANGED <<order, waves, bounded, log, files, armed, journaled, front, kills, reruns>>

\* the wave is over when its last node is
NodeEnds(n, s) ==
  /\ state' = [state EXCEPT ![n] = s]
  /\ front' = front \ {n}
WaveMoves ==
  /\ shell' = IF front' = {} THEN "settling" ELSE "waiting"
  /\ UNCHANGED <<order, waves, bounded, log, files, armed, ended, kills, reruns>>

\* a worker's end; what a change to verify awaits, other output proves itself
Built == {"i1", "i1:rework:1"}
AttemptEnds(n, ending) ==
  /\ shell = "waiting" /\ n \in front \ Verifying
  /\ \/ /\ ending = "succeeded" /\ n \in Built
        /\ NodeEnds(n, "awaiting_verification") /\ UNCHANGED <<retried, judged>>
     \/ /\ ending = "succeeded" /\ n \notin Built
        /\ NodeEnds(n, "passed") /\ UNCHANGED retried
        /\ judged' = Append(judged, [by |-> n, targets |-> {n}, passed |-> TRUE, claims |-> << >>])
     \/ /\ ending \in {"failed", "outcome_unknown"}
        /\ NodeEnds(n, ending) /\ UNCHANGED <<retried, judged>>
     \/ /\ ending = "timed_out" /\ n \notin retried
        /\ retried' = retried \cup {n} /\ UNCHANGED <<state, front, judged>>
     \/ /\ ending = "timed_out" /\ n \in retried
        /\ NodeEnds(n, "blocked") /\ UNCHANGED <<retried, judged>>
  /\ UNCHANGED gated /\ WaveMoves

\* the process of a verifier this process has no command for cannot start,
\* and nobody knows what became of the attempt
VerifierUnarmed(n) ==
  /\ shell = "waiting" /\ n \in front \cap Verifying /\ n \notin armed
  /\ NodeEnds(n, "outcome_unknown")
  /\ UNCHANGED <<retried, judged, gated>> /\ WaveMoves

VerifierTimesOut(n) ==
  /\ shell = "waiting" /\ n \in front \cap Verifying /\ n \in armed /\ "timed_out" \in ExitStatuses
  /\ IF n \in retried THEN NodeEnds(n, "blocked") /\ UNCHANGED retried
     ELSE retried' = retried \cup {n} /\ UNCHANGED <<state, front>>
  /\ UNCHANGED <<judged, gated>> /\ WaveMoves

\* the exit status is the verdict, on all the verifier depends on
VerdictOf(n, passed) ==
  [by |-> n, targets |-> Awaits(order, n), passed |-> passed,
   claims |-> [c \in order.mapped |-> IF passed THEN "PROVEN" ELSE "FAILED"]]

VerifierPasses(n) ==
  /\ shell = "waiting" /\ n \in front \cap Verifying /\ n \in armed /\ "zero" \in ExitStatuses
  /\ judged' = Append(judged, VerdictOf(n, TRUE))
  /\ state' = [m \in NodeIds |-> IF m \in {n} \cup Awaits(order, n) THEN "passed" ELSE state[m]]
  /\ front' = front \ {n}
  /\ UNCHANGED <<retried, gated>> /\ WaveMoves

\* a revise verdict on one node: one rework, and a human gate after that
VerifierRevises(n) ==
  /\ shell = "waiting" /\ n \in front \cap Verifying /\ n \in armed /\ "nonzero" \in ExitStatuses
  /\ Cardinality(Awaits(order, n)) = 1
  /\ judged' = Append(judged, VerdictOf(n, FALSE))
  /\ state' = [m \in NodeIds |->
                 IF m \in {n} \cup Awaits(order, n) THEN "failed"
                 ELSE IF m \in {"i1:rework:1", "v1:rework:1"} /\ ~Reworked THEN "pending"
                 ELSE state[m]]
  /\ gated' = Reworked
  /\ front' = front \ {n}
  /\ UNCHANGED retried /\ WaveMoves

\* with a cross-review the verdict is on two nodes, and the one of the
\* reviewer has passed already: the reducer refuses it and the error ends
\* the process
RevisionRefused(n) ==
  /\ shell = "waiting" /\ n \in front \cap Verifying /\ n \in armed /\ "nonzero" \in ExitStatuses
  /\ Cardinality(Awaits(order, n)) = 2
  /\ state' = [state EXCEPT ![n] = "awaiting_verification"]
  /\ front' = {} /\ shell' = "gone"
  /\ UNCHANGED <<order, waves, bounded, log, files, armed, retried, judged, ended, gated,
                 kills, reruns>>

ShellDies ==  \* a file that was being written may be left torn
  /\ shell \notin {"new", "gone"} /\ kills < MaxKills
  /\ kills' = kills + 1
  /\ \/ UNCHANGED files
     \/ \E name \in DOMAIN files : /\ shell = Storing(name)
                                    /\ files' = [files EXCEPT ![name] = "torn"]
  /\ shell' = "gone" /\ front' = {} /\ armed' = {}
  /\ UNCHANGED <<order, waves, bounded, log, journaled, reruns>>

-----------------------------------------------------------------------------
(* graphori resume                                                         *)

\* the plans and specs that events and files record; only torn or missing
\* files and a second `run' make them differ
RecordedSpecs == (IF log = "empty" THEN {} ELSE {"first"}) \cup ({files["spec"]} \ {"none", "torn"})
RecordedPlans == (IF log = "published" THEN {"first"} ELSE {}) \cup ({files["plan"]} \ {"none", "torn"})

\* _recorded_run, and the commands that must be read from their file
ResumeAccepted ==
  /\ log # "empty"
  /\ MetadataSource("torn" \in {files["spec"], files["plan"]}, RecordedSpecs, RecordedPlans)
       = "canonical_v3"
  /\ ended = "none"
  /\ files["commands"] = "first"

\* start finds attempts in flight and does not know how they ended
Reconciled == [n \in NodeIds |-> IF n \in Underway THEN "outcome_unknown" ELSE state[n]]

ResumeRun ==  \* commands are restored for the nodes of the published plan
  /\ shell = "gone" /\ ResumeAccepted
  /\ shell' = "driving" /\ bounded' = FALSE /\ waves' = 0
  /\ armed' = CommandsOf(order) \cap NodesOf(order)
  /\ state' = Reconciled
  /\ UNCHANGED <<order, log, files, retried, judged, ended, gated, front, kills, reruns>>

RunAgain ==  \* `run --run-id' over the same journal, with the same plan
  /\ shell = "gone" /\ log = "published" /\ reruns < MaxReruns
  /\ reruns' = reruns + 1
  /\ shell' = "storing spec" /\ bounded' = TRUE /\ waves' = 0
  /\ armed' = CommandsOf(order)
  /\ state' = IF ended = "none" THEN Reconciled ELSE state
  /\ UNCHANGED <<order, log, files, retried, judged, ended, gated, front, kills>>

-----------------------------------------------------------------------------
(* What is shown of the run                                                *)

Declared(c) == {CriterionStatus(n, c, judged, RequiredOf(order, n)) : n \in Present}
Shown(c)    == Weightiest(Declared(c))
ShownTeam(t) ==
  LET own == {n \in Present : TeamOf(n) = t}
  IN  TeamStatus({state[n] : n \in own}, \E n \in own : HeldBack(n), \E n \in own : CanStart(n))
ShownRun == RunStatus(ended, gated, {state[n] : n \in Present})
ShownVerification(n) == VerificationOf(n, state[n], n \notin Verifying \cup Built, judged)

-----------------------------------------------------------------------------
HInit ==
  /\ order \in Orders
  /\ shell = "new" /\ waves = 0 /\ bounded = TRUE /\ log = "empty"
  /\ files = [name \in {"spec", "plan", "commands"} |-> "none"]
  /\ armed = {} /\ state = [n \in NodeIds |-> "absent"] /\ retried = {} /\ front = {}
  /\ judged = << >> /\ ended = "none" /\ gated = FALSE /\ kills = 0 /\ reruns = 0

HNext ==
  \/ CreateRun \/ PublishGraph \/ StoreSpec \/ StorePlan \/ StoreCommands
  \/ AdvanceWave \/ IdleWave \/ Settle \/ LeaveLoop \/ ShellDies \/ ResumeRun \/ RunAgain
  \/ \E n \in NodeIds :
       \/ \E ending \in Endings : AttemptEnds(n, ending)
       \/ VerifierUnarmed(n) \/ VerifierTimesOut(n)
       \/ VerifierPasses(n) \/ VerifierRevises(n) \/ RevisionRefused(n)

HSpec == HInit /\ [][HNext]_hvars

HTypeOK ==
  /\ order \in Orders /\ bounded \in BOOLEAN /\ gated \in BOOLEAN
  /\ shell \in {"new", "publishing", "driving", "waiting", "settling", "settling last",
              "gone"}
              \cup {Storing(name) : name \in DOMAIN files}
  /\ log \in {"empty", "created", "published"}
  /\ DOMAIN files = {"spec", "plan", "commands"}
  /\ \A name \in DOMAIN files : files[name] \in {"none", "torn", "first", "later"}
  /\ armed \subseteq Verifying /\ front \subseteq NodeIds /\ retried \subseteq NodeIds
  /\ \A n \in NodeIds : state[n] \in {"absent", "pending", "running", "awaiting_verification",
                                    "passed", "failed", "blocked", "outcome_unknown"}
  /\ \A i \in DOMAIN judged : judged[i].by \in NodeIds /\ judged[i].targets \subseteq NodeIds
  /\ ended \in {"none", "succeeded", "failed", "blocked"}
  /\ waves \in Nat /\ kills \in 0..MaxKills /\ reruns \in 0..MaxReruns

\* A run is never left where nobody can go on with it.  The loop over the
\* waves never meets its bound, whatever is retried and revised; and once a
\* node has been dispatched, the journal and the stored files agree well
\* enough for `graphori resume' to accept the run, wherever the process died.
\* (A second `graphori run' rewrites the files in place and is excepted.)
NeverStranded ==
  /\ (Driving /\ bounded /\ ended = "none" /\ ~gated) => waves < MaxWaves(order)
  /\ (shell = "gone" /\ reruns = 0 /\ ended = "none" /\ \E n \in Present : state[n] # "pending")
       => ResumeAccepted

\* What is shown agrees with what was run.  PROVEN is shown only of a criterion
\* the verification command is mapped to, once that command has passed; when
\* the run succeeds, every mapped criterion is shown PROVEN, the requirements
\* as proven if the command covers them all, and every team as complete.  A
\* node is shown with the verdict that its state comes from, though the two
\* are read from different places, and a run that waits for a person is shown
\* as waiting, a run that its process has left is not shown as running, unless
\* the process died or a verdict was refused.
\* (After a rework the verdict it overcame is still counted, so that FAILED
\* and "blocked" may stand in a run that succeeded.)
SuccessIsProven ==
  /\ log = "published" => \A c \in order.criteria : Shown(c) = "PROVEN" =>
       /\ c \in order.mapped
       /\ \E i \in DOMAIN judged : judged[i].by \in Verifying /\ judged[i].passed
  /\ ended = "succeeded" /\ Implements(order) =>
       /\ \A c \in order.mapped : Shown(c) = "PROVEN" \/ (Reworked /\ Shown(c) = "FAILED")
       /\ ~Reworked =>
            /\ RequirementsStatus({Shown(c) : c \in order.criteria})
                 = IF order.criteria = {} THEN "not_declared"
                   ELSE IF order.mapped = order.criteria THEN "proven" ELSE "not_proven"
            /\ \A t \in Teams : ShownTeam(t) \in {"complete", "omitted"}
  /\ \A n \in Present \ Verifying :
       /\ ShownVerification(n) = "pass" <=> state[n] = "passed"
       /\ ShownVerification(n) = "revise" => state[n] = "failed" /\ (Reworked \/ gated)
       /\ ShownVerification(n) = "pending" <=> state[n] = "awaiting_verification"
  /\ ShownRun = "waiting_approval" <=> gated
  /\ shell = "gone" /\ kills = 0 /\ state["v1"] # "awaiting_verification"
       => ShownRun # "running"
=============================================================================
