----------------------------- MODULE LiveVerify -----------------------------
(***************************************************************************)
(* Live verification (graphori_adapters/live_verify.py): while a worker    *)
(* runs, a watcher waits for its workspace to settle, copies it, runs the  *)
(* verifier's command on the copy and keeps a pass as a candidate proof.   *)
(* When the verifier itself is dispatched the candidate is adopted, if the *)
(* workspace and the command are still those of the run, or the command is *)
(* run in the ordinary way.                                                *)
(*                                                                         *)
(* One verifier, one worker with its retries.  A workspace is what each of *)
(* its files holds; a digest is the content it was computed from, file by  *)
(* file, while others may write.  A proof action key is the version of the *)
(* tool that is run: the rest of the key does not change in a run.         *)
(***************************************************************************)
EXTENDS Naturals

CONSTANTS Files,      \* of the workspace
          Own,        \* those the worker writes; the others may change at any time
          Contents,   \* what a file may hold
          Launches,   \* how often the worker may be dispatched, first retry included
          MaxChanges  \* bound on changes of files and of the tool, together

ASSUME LiveAssumption ==
  /\ Own \subseteq Files
  /\ Launches \in Nat \ {0}
  /\ MaxChanges \in Nat

Readers == 1..Launches \cup {0}      \* the watcher of each launch; 0 is dispatch itself
Workspaces == [Files -> Contents]

VARIABLES
  ws,       \* the workspace
  tool,     \* the version of the verifier's executable
  held,     \* per reader: what each file held since its read began
  worker,   \* where the worker is, and how often it was dispatched
  watch,    \* _watch: the task of each launch
  tracked,  \* the launch whose task and flag _watchers and _stop hold, 0 if none
  stop,     \* launches whose stop event is set
  proof,    \* _proofs[verifier], or NoProof
  check,    \* dispatch of the verifier: where it stands
  passed,   \* history: <<content, tool>> the command passed on, and left as it was
  changes     \* bound

lvars == <<ws, tool, held, worker, watch, tracked, stop, proof, check, passed, changes>>

NoProof == [source |-> "none"]
Fresh(r) == held' = [held EXCEPT ![r] = [f \in Files |-> {ws[f]}]]
\* a read that is complete: each file as it was at some moment of the read
Readings(r) == {c \in Workspaces : \A f \in Files : c[f] \in held[r][f]}

Off == [at |-> "off"]
Watching(i) == watch[i].at \notin {"off", "over", "crashed"}

LInit ==
  /\ ws \in Workspaces /\ \A f, g \in Files : ws[f] = ws[g]
  /\ tool = 0
  /\ held = [r \in Readers |-> [f \in Files |-> {ws[f]}]]
  /\ worker = [at |-> "idle", launches |-> 0]
  /\ watch = [i \in 1..Launches |-> Off]
  /\ tracked = 0
  /\ stop = {}
  /\ proof = NoProof
  /\ check = [at |-> "idle"]
  /\ passed = {}
  /\ changes = 0

-----------------------------------------------------------------------------
(* The surroundings.                                                       *)

Edit(f) ==
  /\ changes < MaxChanges
  /\ f \in Own => worker.at = "running"
  /\ \E c \in Contents \ {ws[f]} :
       /\ ws' = [ws EXCEPT ![f] = c]
       /\ held' = [r \in Readers |-> [held[r] EXCEPT ![f] = @ \cup {c}]]
  /\ changes' = changes + 1
  /\ UNCHANGED <<tool, worker, watch, tracked, stop, proof, check, passed>>

UpgradeTool ==
  /\ changes < MaxChanges
  /\ tool' = tool + 1
  /\ changes' = changes + 1
  /\ UNCHANGED <<ws, held, worker, watch, tracked, stop, proof, check, passed>>

-----------------------------------------------------------------------------
(* The worker.  dispatch takes the digest the watcher starts from before   *)
(* the inner adapter starts anything; without one there is no watcher.     *)

LaunchBegins ==
  /\ worker.at = "idle" /\ worker.launches < Launches
  /\ worker' = [at |-> "starting", launches |-> worker.launches + 1]
  /\ Fresh(worker.launches + 1)
  /\ UNCHANGED <<ws, tool, watch, tracked, stop, proof, check, passed, changes>>

LaunchWatched ==
  LET i == worker.launches IN
  /\ worker.at = "starting"
  /\ \E c \in Readings(i) :
       watch' = [watch EXCEPT ![i] = [at |-> "head", initial |-> c,
                                      observed |-> c, changed |-> FALSE]]
  /\ tracked' = i
  /\ worker' = [worker EXCEPT !.at = "running"]
  /\ Fresh(i)
  /\ UNCHANGED <<ws, tool, stop, proof, check, passed, changes>>

LaunchUnwatched ==
  /\ worker.at = "starting"
  /\ worker' = [worker EXCEPT !.at = "running"]
  /\ UNCHANGED <<ws, tool, held, watch, tracked, stop, proof, check, passed, changes>>

\* collect: a worker that did not succeed has its watcher told to stop
WorkerEnds ==
  /\ worker.at = "running"
  /\ \/ /\ worker' = [worker EXCEPT !.at = "succeeded"]
        /\ UNCHANGED stop
     \/ /\ worker' = [worker EXCEPT !.at = "idle"]
        /\ stop' = stop \cup ({tracked} \ {0})
  /\ UNCHANGED <<ws, tool, held, watch, tracked, proof, check, passed, changes>>

WorkerCancelled ==
  /\ worker.at = "running"
  /\ stop' = stop \cup ({tracked} \ {0})
  /\ UNCHANGED <<ws, tool, held, worker, watch, tracked, proof, check, passed, changes>>

-----------------------------------------------------------------------------
(* The watcher of launch i.  A set stop flag is seen at the head of the    *)
(* loop only.                                                              *)

WatcherMoves == UNCHANGED <<ws, tool, worker, tracked, stop, check, changes>>
Goes(i, w) == watch' = [watch EXCEPT ![i] = w]
GoesTo(i, pc) == watch' = [watch EXCEPT ![i].at = pc]

\* the part of a task's state that lives across rounds
Round(w) == [at |-> "head", initial |-> w.initial, observed |-> w.observed,
             changed |-> w.changed]

LoopHead(i) ==
  /\ watch[i].at = "head"
  /\ IF i \in stop THEN Goes(i, [at |-> "over"]) ELSE GoesTo(i, "poll")
  /\ Fresh(i)
  /\ UNCHANGED <<proof, passed>> /\ WatcherMoves

Poll(i) ==
  LET w == watch[i] IN
  /\ w.at = "poll"
  /\ \E c \in Readings(i) :
       \/ /\ c # w.observed
          /\ Goes(i, [Round(w) EXCEPT !.observed = c, !.changed = TRUE])
       \/ /\ c = w.observed     \* nothing new, or not settled yet
          /\ GoesTo(i, "head")
       \/ /\ c = w.observed /\ c # w.initial /\ w.changed
          /\ GoesTo(i, "copy")
  /\ Fresh(i)
  /\ UNCHANGED <<proof, passed>> /\ WatcherMoves

\* a digest that cannot be computed ends the task with an exception
PollFails(i) ==
  /\ watch[i].at \in {"poll", "conclude"}
  /\ Goes(i, [at |-> "crashed"])
  /\ UNCHANGED <<held, proof, passed>> /\ WatcherMoves

\* anything that goes wrong from the copy to the second key, or a key that is
\* INCOMPLETE before the run: no more attempts in this launch
GivesUp(i) ==
  /\ watch[i].at \in {"copy", "compare", "key", "run"}
  /\ Goes(i, [at |-> "over"])
  /\ UNCHANGED <<held, proof, passed>> /\ WatcherMoves

Copy(i) ==
  LET w == watch[i] IN
  /\ w.at = "copy"
  /\ \E c \in Readings(i) :
       Goes(i, [at |-> "compare", initial |-> w.initial, observed |-> w.observed,
                changed |-> TRUE, source |-> c])
  /\ Fresh(i)
  /\ UNCHANGED <<proof, passed>> /\ WatcherMoves

Compare(i) ==
  LET w == watch[i] IN
  /\ w.at = "compare"
  /\ \E c \in Readings(i) :
       IF c = w.source THEN GoesTo(i, "key")
       ELSE Goes(i, [Round(w) EXCEPT !.observed = c])
  /\ UNCHANGED <<held, proof, passed>> /\ WatcherMoves

TakeKey(i) ==
  LET w == watch[i] IN
  /\ w.at = "key"
  /\ Goes(i, [at |-> "run", initial |-> w.initial, observed |-> w.observed,
              changed |-> TRUE, source |-> w.source, key |-> tool])
  /\ UNCHANGED <<held, proof, passed>> /\ WatcherMoves

\* the command on the copy; it may fail, and it may write to the copy
Run(i) ==
  LET w == watch[i] IN
  /\ w.at = "run"
  /\ \E ok, kept \in BOOLEAN :
       /\ Goes(i, [at |-> "conclude", initial |-> w.initial, observed |-> w.observed,
                   changed |-> TRUE, source |-> w.source, key |-> w.key,
                   ok |-> ok, kept |-> kept])
       /\ passed' = IF ok /\ kept THEN passed \cup {<<w.source, tool>>} ELSE passed
  /\ Fresh(i)
  /\ UNCHANGED proof /\ WatcherMoves

\* the chain of reasons not to keep the result
Sound(w, keyAfter, after) ==
  /\ w.key = keyAfter
  /\ w.kept
  /\ w.source = after
  /\ w.ok

Conclude(i) ==
  LET w == watch[i] IN
  /\ w.at = "conclude"
  /\ \E after \in Readings(i), complete \in BOOLEAN :
       /\ proof' = IF complete /\ Sound(w, tool, after)
                   THEN [source |-> w.source, key |-> w.key] ELSE proof
       /\ Goes(i, [Round(w) EXCEPT !.observed = after, !.changed = FALSE])
  /\ Fresh(i)
  /\ UNCHANGED passed /\ WatcherMoves

-----------------------------------------------------------------------------
(* dispatch, events and collect of the verifier: it stops and awaits the   *)
(* tracked watcher, then looks for a candidate.                            *)

VerifierMoves == UNCHANGED <<ws, tool, worker, watch, passed, changes>>

VerifierBeginsQuietly ==  \* mutation: the watcher is not told to stop
  /\ check.at = "idle" /\ worker.at = "succeeded"
  /\ check' = [at |-> "awaiting"]
  /\ UNCHANGED <<held, tracked, proof, stop>> /\ VerifierMoves

VerifierBegins ==
  /\ check.at = "idle" /\ worker.at = "succeeded"
  /\ stop' = stop \cup ({tracked} \ {0})
  /\ check' = [at |-> "awaiting"]
  /\ UNCHANGED <<held, tracked, proof>> /\ VerifierMoves

WatcherNotAwaited ==  \* mutation: dispatch goes on beside the watcher
  /\ check.at = "awaiting"
  /\ tracked' = 0
  /\ check' = IF proof = NoProof THEN [at |-> "inner"] ELSE [at |-> "deciding", proof |-> proof]
  /\ Fresh(0)
  /\ UNCHANGED <<stop, proof>> /\ VerifierMoves

WatcherAwaited ==
  /\ check.at = "awaiting"
  /\ tracked # 0 => ~Watching(tracked)
  /\ proof' = IF tracked # 0 /\ watch[tracked].at = "crashed" THEN NoProof ELSE proof
  /\ tracked' = 0
  /\ check' = IF proof' = NoProof THEN [at |-> "inner"]
              ELSE [at |-> "deciding", proof |-> proof']
  /\ Fresh(0)
  /\ UNCHANGED stop /\ VerifierMoves

AdoptableByKey(p, current, key) == p.key = key  \* mutation: the digest of now is not compared

\* ProofAdopter.decide, on the digest and the key of now
Adoptable(p, current, key) == p.source = current /\ p.key = key

Decide ==
  /\ check.at = "deciding"
  /\ \/ \E current \in Readings(0) :
          check' = IF Adoptable(check.proof, current, tool)
                   THEN [at |-> "adopted", proof |-> check.proof, tool |-> tool,
                         ws |-> held[0]]
                   ELSE [at |-> "inner"]
     \/ check' = [at |-> "inner"]   \* no digest, or a key that is INCOMPLETE
  /\ UNCHANGED <<held, tracked, stop, proof>> /\ VerifierMoves

CollectVerifier ==
  /\ check.at \in {"adopted", "inner"}
  /\ proof' = IF check.at = "adopted" THEN NoProof ELSE proof
  /\ check' = [at |-> "collected"]
  /\ UNCHANGED <<held, tracked, stop>> /\ VerifierMoves

-----------------------------------------------------------------------------
Watcher(i) ==
  \/ LoopHead(i) \/ Poll(i) \/ PollFails(i) \/ GivesUp(i) \/ Copy(i) \/ Compare(i)
  \/ TakeKey(i) \/ Run(i) \/ Conclude(i)
WorkerMoves ==
  \/ LaunchBegins \/ LaunchWatched \/ LaunchUnwatched \/ WorkerEnds \/ WorkerCancelled
Verifier == VerifierBegins \/ WatcherAwaited \/ Decide \/ CollectVerifier

LNext ==
  \/ UpgradeTool
  \/ \E f \in Files : Edit(f)
  \/ \E i \in 1..Launches : Watcher(i)
  \/ WorkerMoves \/ Verifier

LSpec == LInit /\ [][LNext]_lvars

\* tasks of the event loop are scheduled, and the command has a time limit
LFairness == WF_lvars(Verifier) /\ \A i \in 1..Launches : WF_lvars(Watcher(i))

-----------------------------------------------------------------------------
(* Properties.                                                             *)

\* a task at each of its places: what it remembers grows from copy to conclude
Remembered(places) == [at : places, initial : Workspaces, observed : Workspaces,
                       changed : BOOLEAN]
Copied(places) == [at : places, initial : Workspaces, observed : Workspaces,
                   changed : BOOLEAN, source : Workspaces]
Keyed == [at : {"run"}, initial : Workspaces, observed : Workspaces,
          changed : BOOLEAN, source : Workspaces, key : 0..MaxChanges]
Concluding == [at : {"conclude"}, initial : Workspaces, observed : Workspaces,
               changed : BOOLEAN, source : Workspaces, key : 0..MaxChanges,
               ok : BOOLEAN, kept : BOOLEAN]
WatchStates ==
  [at : {"off", "over", "crashed"}] \cup Remembered({"head", "poll", "copy"})
  \cup Copied({"compare", "key"}) \cup Keyed \cup Concluding

LTypeOK ==
  /\ ws \in Workspaces
  /\ tool \in 0..MaxChanges
  /\ held \in [Readers -> [Files -> SUBSET Contents]]
  /\ worker \in [at : {"idle", "starting", "running", "succeeded"}, launches : 0..Launches]
  /\ watch \in [1..Launches -> WatchStates]
  /\ tracked \in 0..Launches
  /\ stop \subseteq 1..Launches
  /\ proof \in {NoProof} \cup [source : Workspaces, key : 0..MaxChanges]
  /\ check.at \in {"idle", "awaiting", "deciding", "adopted", "inner", "collected"}
  /\ passed \subseteq Workspaces \X (0..MaxChanges)
  /\ changes \in 0..MaxChanges

\* A verifier is decided soundly.  The watcher of the launch that succeeded is
\* over by then: it neither runs the command beside the verifier nor offers a
\* candidate after the decision.  And a verdict that is reused is the verdict on
\* what it is reported for: the command, in the version installed when it was
\* adopted, passed on exactly the content each file of the workspace had while
\* it was adopted, although nothing locks the workspace from copy to adoption.
DecisionSound ==
  /\ check.at \in {"adopted", "inner"} /\ watch[worker.launches].at # "off" =>
       ~Watching(worker.launches)
  /\ check.at = "adopted" =>
       /\ <<check.proof.source, check.tool>> \in passed
       /\ \A f \in Files : check.proof.source[f] \in check.ws[f]
       /\ \A f \in Own : ws[f] = check.proof.source[f]

\* The dispatch of a verifier comes back: awaiting the watcher cannot hang it.
DispatchDecides ==
  (check.at = "awaiting") ~> (check.at \in {"adopted", "inner"})
=============================================================================
