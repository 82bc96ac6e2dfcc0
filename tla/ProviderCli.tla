----------------------------- MODULE ProviderCli -----------------------------
(***************************************************************************)
(* Provider command lines (graphori_adapters/structured_cli.py) and the    *)
(* sessions they may resume (graphori_core/provider_session.py and         *)
(* provider_session_vault.py, with the continuation that                   *)
(* execution_engine.py derives from the journal).                          *)
(*                                                                         *)
(* A worker is an implementer node; when its verifier asks for a revision  *)
(* its rework node runs next, in the same lineage.  All workers share one  *)
(* git working tree, whose snapshots say what an attempt changed.  The     *)
(* waves of the engine only restrict the orders that are possible here.    *)
(***************************************************************************)
EXTENDS Naturals, FiniteSets

CONSTANTS Workers,      \* implementer nodes the scheduler may run together
          Tree,         \* files of the working tree
          Scope,        \* [Workers -> SUBSET Tree], the declared write scopes
          Texts,        \* what a file may contain
          Original,     \* what it contains at first
          Reviewed,     \* workers with a verifier node of their own
          Reuse,        \* enable_session_reuse, on a platform with safe storage
          MaxEvents     \* bound on writes, failures, time-outs, restarts and
                        \* upgrades of the CLI, together

ASSUME ProviderAssumption ==
  /\ Scope \in [Workers -> SUBSET Tree]
  /\ Original \in Texts /\ Reviewed \subseteq Workers
  /\ Reuse \in BOOLEAN
  /\ MaxEvents \in Nat

VARIABLES
  disk, index,  \* content of each file in the tree and in HEAD
  cli,          \* version of the CLI that is installed
  probed,       \* the adapter's cached probe: version, or why there is none
  at,           \* where the current node of each lineage stands
  rework,       \* lineages whose current node is the rework
  try,          \* number of the current node's attempt
  base,         \* _Record.baseline
  offer,        \* ContextBundle.continuation
  resumed,      \* the session the attempt continues, or NoSession
  exit,         \* how its process ended
  outcome,      \* of the last attempt
  noted,        \* provider_session in the journal for the original, or NoSession
  rejected,     \* workspace digest of the verdict "revise", or Unjudged
  vault,        \* bindings in the private directory of the run
  touched,      \* history: files the attempt's own process wrote or committed
  events        \* bound

tree  == <<disk, index>>
cvars == <<disk, index, cli, probed, at, rework, try, base, offer, resumed, exit,
           outcome, noted, rejected, vault, touched, events>>

NoSession == [of |-> "nobody"]
NoOffer   == [nack |-> FALSE, handle |-> NoSession]
Unjudged  == <<>>
NoBase    == [disk |-> <<>>, index |-> <<>>]
Unprobed  == [state |-> "unknown"]
Trees     == [Tree -> Texts]

CInit ==
  /\ disk = [f \in Tree |-> Original] /\ index = disk
  /\ cli = 0
  /\ probed = Unprobed
  /\ at = [w \in Workers |-> "ready"]
  /\ rework = {}
  /\ try = [w \in Workers |-> 1]
  /\ base = [w \in Workers |-> NoBase]
  /\ offer = [w \in Workers |-> NoOffer]
  /\ resumed = [w \in Workers |-> NoSession]
  /\ exit = [w \in Workers |-> "none"]
  /\ outcome = [w \in Workers |-> "none"]
  /\ noted = [w \in Workers |-> NoSession]
  /\ rejected = [w \in Workers |-> Unjudged]
  /\ vault = {}
  /\ touched = [w \in Workers |-> {}]
  /\ events = 0

Happens == events < MaxEvents /\ events' = events + 1
Moves(w, p) == at' = [at EXCEPT ![w] = p]

-----------------------------------------------------------------------------
(* What git says.  A snapshot names the files that differ from HEAD, with  *)
(* a digest of their content, and HEAD itself.                             *)

Signature(s, f) == IF s.disk[f] = s.index[f] THEN {} ELSE {s.disk[f]}
Snapshot == [disk |-> disk, index |-> index]

DeltaOfFiles(before, after) ==  \* mutation: the two HEADs are not compared
  {f \in Tree : Signature(before, f) # Signature(after, f)}

\* _workspace_delta: signatures that changed, and what lies between the HEADs
Delta(before, after) ==
  {f \in Tree : Signature(before, f) # Signature(after, f)
                \/ before.index[f] # after.index[f]}

Violations(w) == Delta(base[w], Snapshot) \ Scope[w]

-----------------------------------------------------------------------------
(* Sessions.  A boundary is everything a session may depend on; what can   *)
(* differ within a run is the lineage and the version of the CLI.          *)

Boundary(w, version) == [lineage |-> w, version |-> version]

\* _continuation_for_rework: only for a rework whose verdict is on the tree
\* as it is now; the handle only if the model was the one asked for
Continuation(w) ==
  IF w \notin rework \/ rejected[w] # disk THEN NoOffer
  ELSE [nack |-> TRUE,
        handle |-> IF noted[w] # NoSession /\ noted[w].asked THEN noted[w] ELSE NoSession]

ResumableByToken(w, session) ==  \* mutation: the boundary is not compared
  Reuse /\ session # NoSession /\ \E b \in vault : b.token = session.token

\* dispatch and ProviderSessionVault.resolve
Resumable(w, session) ==
  /\ Reuse
  /\ session # NoSession
  /\ session.boundary = Boundary(w, probed.version)
  /\ \E b \in vault : /\ b.token = session.token
                      /\ b.boundary = Boundary(w, probed.version)
                      /\ b.try = session.try

\* the runtime metadata of a result, with what ProviderSessionVault.put keeps
Persisted(w, asked) ==
  [of |-> w, token |-> <<w, try[w]>>, boundary |-> Boundary(w, probed.version),
   try |-> try[w], asked |-> asked]

-----------------------------------------------------------------------------
(* The engine's coroutine of one attempt.                                  *)

\* _context_for_node, after attempt_dispatched is in the journal
Inform(w) ==
  /\ at[w] = "ready"
  /\ offer' = [offer EXCEPT ![w] = Continuation(w)]
  /\ Moves(w, "informed")
  /\ UNCHANGED <<tree, cli, probed, rework, try, base, resumed, exit, outcome, noted,
                 rejected, vault, touched, events>>

\* the record of an attempt is dropped; one automatic retry of some outcomes
Retryable == {"timed_out", "startup_failure"}
Ends(w, o) ==
  /\ outcome' = [outcome EXCEPT ![w] = o]
  /\ base' = [base EXCEPT ![w] = NoBase]
  /\ offer' = [offer EXCEPT ![w] = NoOffer]
  /\ resumed' = [resumed EXCEPT ![w] = NoSession]
  /\ exit' = [exit EXCEPT ![w] = "none"]
  /\ IF o \in Retryable /\ try[w] = 1
     THEN /\ try' = [try EXCEPT ![w] = 2] /\ Moves(w, "ready")
     ELSE /\ UNCHANGED try /\ Moves(w, IF o = "succeeded" THEN "reported" ELSE "over")

\* probe, once per process of the adapter
Probe(w) ==
  /\ at[w] = "informed" /\ probed = Unprobed
  /\ \/ probed' = [state |-> "available", version |-> cli] /\ UNCHANGED events
     \/ Happens /\ probed' = [state |-> "unavailable"]
  /\ UNCHANGED <<tree, cli, at, rework, try, base, offer, resumed, exit, outcome,
                 noted, rejected, vault, touched>>

\* unavailable, no baseline, or a process that does not start
DispatchFails(w) ==
  /\ at[w] = "informed" /\ probed # Unprobed
  /\ IF probed.state = "unavailable" THEN UNCHANGED events ELSE Happens
  /\ Ends(w, "startup_failure")
  /\ UNCHANGED <<tree, cli, probed, rework, noted, rejected, vault, touched>>

Dispatch(w) ==
  /\ at[w] = "informed" /\ probed # Unprobed /\ probed.state = "available"
  /\ base' = [base EXCEPT ![w] = Snapshot]
  /\ resumed' = [resumed EXCEPT ![w] = IF Resumable(w, offer[w].handle)
                                       THEN offer[w].handle ELSE NoSession]
  /\ touched' = [touched EXCEPT ![w] = {}]
  /\ Moves(w, "running")
  /\ UNCHANGED <<tree, cli, probed, rework, try, offer, exit, outcome, noted, rejected,
                 vault, events>>

\* the outcome chain of _normalize; "failed" is also what has no report
\* (incomplete_result), which the engine treats alike
CheckedOutcome(w) ==
  IF Violations(w) # {} THEN "scope_violation"
  ELSE CASE exit[w] = "cancelled" -> "cancelled"
         [] exit[w] = "timed_out" -> "timed_out"
         [] exit[w] = "bad"       -> "failed"
         [] OTHER                 -> "succeeded"

\* a session is kept of a first success only, and keeping it may fail
Keeps(w) ==
  /\ Reuse /\ CheckedOutcome(w) = "succeeded"
  /\ resumed[w] = NoSession /\ ~offer[w].nack

HandsOver(w) ==
  /\ at[w] = "ended"
  /\ Ends(w, CheckedOutcome(w))
  /\ \/ \E asked \in BOOLEAN :
          /\ Keeps(w)
          /\ vault' = vault \cup {Persisted(w, asked)}
          /\ noted' = IF w \in rework THEN noted
                      ELSE [noted EXCEPT ![w] = Persisted(w, asked)]
     \/ UNCHANGED <<vault, noted>>
  /\ UNCHANGED <<tree, cli, probed, rework, rejected, touched, events>>

\* git fails after the process ran: the same error as before it was started
ReportFails(w) ==
  /\ at[w] = "ended"
  /\ Happens
  /\ Ends(w, "startup_failure")
  /\ UNCHANGED <<tree, cli, probed, rework, noted, rejected, vault, touched>>

\* the verifier's verdict, and the rework it creates
Judge(w) ==
  /\ at[w] = "reported"
  /\ \/ Moves(w, "over") /\ UNCHANGED <<rework, try, rejected>>
     \/ /\ w \in Reviewed \ rework
        /\ rejected' = [rejected EXCEPT ![w] = disk]
        /\ rework' = rework \cup {w}
        /\ try' = [try EXCEPT ![w] = 1]
        /\ Moves(w, "ready")
  /\ UNCHANGED <<tree, cli, probed, base, offer, resumed, exit, outcome, noted, vault,
                 touched, events>>

-----------------------------------------------------------------------------
(* The provider's process.                                                 *)

ProcessMoves ==
  UNCHANGED <<cli, probed, rework, try, base, offer, resumed, outcome, noted, rejected,
              vault>>

Write(w, f) ==
  /\ at[w] = "running" /\ Happens
  /\ \E t \in Texts \ {disk[f]} : disk' = [disk EXCEPT ![f] = t]
  /\ touched' = [touched EXCEPT ![w] = @ \cup {f}]
  /\ UNCHANGED <<index, at, exit>> /\ ProcessMoves

Commit(w) ==
  /\ at[w] = "running" /\ disk # index
  /\ index' = disk
  /\ touched' = [touched EXCEPT ![w] = @ \cup {f \in Tree : disk[f] # index[f]}]
  /\ UNCHANGED <<disk, at, exit, events>> /\ ProcessMoves

\* with a report of success, or with one of failure, an exit code or none
Exit(w) ==
  /\ at[w] = "running"
  /\ \/ \E e \in {"ok", "bad"} : exit' = [exit EXCEPT ![w] = e]
        /\ UNCHANGED events
     \/ Happens /\ exit' = [exit EXCEPT ![w] = "timed_out"]
  /\ Moves(w, "ended")
  /\ UNCHANGED <<tree, touched>> /\ ProcessMoves

-----------------------------------------------------------------------------
(* A cancel stops what runs; a run that is settled or cancelled is closed  *)
(* once all its attempts have come back.                                   *)

Busy == {w \in Workers : at[w] \in {"informed", "running", "ended"}}

CancelAttempt(w) ==
  /\ at[w] = "running"
  /\ exit' = [exit EXCEPT ![w] = "cancelled"]
  /\ Moves(w, "ended")
  /\ UNCHANGED <<tree, touched, events>> /\ ProcessMoves

CloseRun ==
  /\ Busy = {}
  /\ vault # {} \/ \E w \in Workers : at[w] # "over"
  /\ vault' = {}
  /\ at' = [w \in Workers |-> "over"]
  /\ UNCHANGED <<tree, cli, probed, rework, try, base, offer, resumed, exit, outcome,
                 noted, rejected, touched, events>>

Upgrade ==
  /\ Happens
  /\ cli' = cli + 1
  /\ UNCHANGED <<tree, probed, at, rework, try, base, offer, resumed, exit, outcome,
                 noted, rejected, vault, touched>>

\* the engine's process dies: what was in flight is unknown, never retried
Restart ==
  /\ Happens
  /\ probed' = Unprobed
  /\ at' = [w \in Workers |-> IF w \in Busy THEN "over" ELSE at[w]]
  /\ outcome' = [w \in Workers |-> IF w \in Busy THEN "outcome_unknown" ELSE outcome[w]]
  /\ UNCHANGED <<tree, cli, rework, try, base, offer, resumed, exit, noted, rejected,
                 vault, touched>>

CNext ==
  \/ CloseRun \/ Upgrade \/ Restart
  \/ \E w \in Workers :
       \/ Inform(w) \/ Probe(w) \/ DispatchFails(w) \/ Dispatch(w)
       \/ HandsOver(w) \/ ReportFails(w) \/ Judge(w)
       \/ Commit(w) \/ Exit(w) \/ CancelAttempt(w)
       \/ \E f \in Tree : Write(w, f)

CSpec == CInit /\ [][CNext]_cvars

-----------------------------------------------------------------------------
(* Properties.                                                             *)

CTypeOK ==
  /\ disk \in Trees /\ index \in Trees
  /\ cli \in 0..MaxEvents
  /\ probed.state \in {"unknown", "unavailable", "available"}
  /\ at \in [Workers -> {"ready", "informed", "running", "ended", "reported", "over"}]
  /\ rework \subseteq Workers
  /\ try \in [Workers -> 1..2]
  /\ base \in [Workers -> [disk : Trees, index : Trees] \cup {NoBase}]
  /\ \A w \in Workers : offer[w].nack \in BOOLEAN
  /\ exit \in [Workers -> {"none", "ok", "bad", "timed_out", "cancelled"}]
  /\ outcome \in [Workers -> {"none", "scope_violation", "cancelled", "timed_out", "failed",
                              "succeeded", "startup_failure",
                              "outcome_unknown"}]
  /\ \A w \in Workers : rejected[w] = Unjudged \/ rejected[w] \in Trees
  /\ touched \in [Workers -> SUBSET Tree]
  /\ events \in 0..MaxEvents

\* A session that is resumed is the repair of its own work: it belongs to the
\* same lineage, ran in the CLI version the adapter probed and on the model that
\* was asked for, is still in the vault, and continues the very attempt that
\* the verdict rejected, whatever other workers, restarts and upgrades did.
ResumeContinuesOwnWork ==
  \A w \in Workers : at[w] = "running" /\ resumed[w] # NoSession =>
    /\ w \in rework
    /\ resumed[w].of = w
    /\ resumed[w].boundary.version = probed.version
    /\ resumed[w].asked
    /\ resumed[w] \in vault

\* An attempt that is reported as succeeded has changed nothing outside its
\* write scope since its baseline, neither in the tree nor by a commit.
SuccessStaysInScope ==
  [][\A w \in Workers :
       at[w] = "ended" /\ at'[w] = "reported" =>
         \A f \in Tree \ Scope[w] :
           disk[f] = base[w].disk[f] /\ index[f] = base[w].index[f]]_cvars

\* "provider modified files outside the declared write scope"
\* (structured_cli.py:529) is said of the provider that did it.
ViolationIsOwn ==
  \A w \in Workers : outcome[w] = "scope_violation" => touched[w] \ Scope[w] # {}
=============================================================================
