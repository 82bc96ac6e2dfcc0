--------------------------- MODULE ProcessAdapter ---------------------------
(***************************************************************************)
(* One attempt per operating-system process: the adapter that the engine   *)
(* drives (graphori_adapters/generic/adapter.py, reached through           *)
(* graphori_adapters/direct.py) on top of the supervisor that owns the     *)
(* process (graphori_core/process_supervisor.py), on POSIX.                *)
(*                                                                         *)
(* An attempt has up to four concurrent parties: the child process with    *)
(* its descendants, the thread that collects it, the threads that cancel   *)
(* it, and the engine's coroutine.  An attempt is one dispatch: a retry is *)
(* another attempt.                                                        *)
(***************************************************************************)
EXTENDS Naturals, FiniteSets

CONSTANTS Attempts,        \* the dispatches of one adapter
          MaxConcurrency,  \* its max_concurrency
          Timed,           \* those whose command has timeout_seconds
          Cancellable,     \* bound: those the engine's cancel may meet
          VerdictFromExit, \* verifiers judged by the exit code
          VerdictFile      \* verifiers that leave a verdict file

ASSUME ProcessAssumption ==
  /\ MaxConcurrency \in Nat \ {0}
  /\ Timed \subseteq Attempts /\ Cancellable \subseteq Attempts
  /\ VerdictFromExit \subseteq Attempts
  /\ VerdictFile \subseteq Attempts

VARIABLES
  leader,     \* the child: not started, running, or how it ended
  file,       \* its verdict file: absent, left by an earlier attempt, written by this one
  flags,      \* ProcessExecution.cancelled, .timed_out
  killer,     \* who holds the execution's lock inside _terminate, and how far it is
  collector,  \* where the thread in ProcessSupervisor.collect stands
  result,     \* ProcessExecution.result: the flags it was built from
  records,    \* GenericProcessAdapter._records
  step,       \* where the engine's coroutine stands
  canceller,  \* the thread of adapter.cancel
  reported,   \* outcome of the worker_finished event it was given
  verdict,    \* verdict_recorded event it was given
  hit,        \* history: a signal of ours reached the running child
  inTime      \* history: a cancel or release was asked for while it ran

processState  == <<leader, file>>
adapterState  == <<records, step, reported, verdict>>
pvars == <<leader, file, flags, killer, collector, result, records, step,
           canceller, reported, verdict, hit, inTime>>

Ended  == {"ok", "bad", "killed"}
Outcomes == {"succeeded", "failed", "cancelled", "timed_out"}
Callers == {"timeout", "cancel", "release"}
Free == [by |-> "nobody", at |-> "free"]

PInit ==
  /\ leader = [a \in Attempts |-> "none"]
  /\ file \in [Attempts -> {"absent", "old"}]
  /\ \A a \in Attempts \ VerdictFile : file[a] = "absent"
  /\ flags = [a \in Attempts |-> {}]
  /\ killer = [a \in Attempts |-> Free]
  /\ collector = [a \in Attempts |-> "none"]
  /\ result = [a \in Attempts |-> {"none"}]
  /\ records = {}
  /\ step = [a \in Attempts |-> "idle"]
  /\ canceller = [a \in Attempts |-> "no"]
  /\ reported = [a \in Attempts |-> "none"]
  /\ verdict = [a \in Attempts |-> "none"]
  /\ hit = [a \in Attempts |-> FALSE]
  /\ inTime = [a \in Attempts |-> FALSE]

-----------------------------------------------------------------------------
(* The child process.  It may end, lose its descendants or write its       *)
(* verdict file at any time; a signalled one may also die of the signal.   *)

Exits(a) ==
  /\ leader[a] = "running"
  /\ \E e \in IF hit[a] THEN Ended ELSE {"ok", "bad"} : leader' = [leader EXCEPT ![a] = e]
  /\ UNCHANGED <<file, flags, killer, collector, result, canceller, hit, inTime>>
  /\ UNCHANGED adapterState

WritesVerdict(a) ==
  /\ a \in VerdictFile /\ leader[a] = "running"
  /\ file' = [file EXCEPT ![a] = "new"]
  /\ UNCHANGED <<leader, flags, killer, collector, result, canceller, hit, inTime>>
  /\ UNCHANGED adapterState

-----------------------------------------------------------------------------
(* _terminate: one thread at a time under execution.lock, from the flags   *)
(* to the SIGKILL.  A timeout sets its flag before it looks at the process,*)
(* a cancel after.                                                         *)

Flag(who) == IF who = "timeout" THEN "timed_out" ELSE "cancelled"

Terminate(a, who) ==
  /\ killer[a] = Free
  /\ IF leader[a] # "running"
     THEN /\ flags' = [flags EXCEPT ![a] = @ \cup ({Flag(who)} \cap {"timed_out"})]
          /\ UNCHANGED killer
     ELSE /\ flags' = [flags EXCEPT ![a] = @ \cup {Flag(who)}]
          /\ killer' = [killer EXCEPT ![a] = [by |-> who, at |-> "flagged"]]

\* os.killpg(SIGTERM): the child may ignore it, its descendants too
SignalGroup(a) ==
  /\ killer[a].at = "flagged"
  /\ killer' = [killer EXCEPT ![a].at = "signalled"]
  /\ hit' = [hit EXCEPT ![a] = @ \/ leader[a] = "running"]
  /\ UNCHANGED <<leader, file, flags, collector, result, canceller, inTime>>
  /\ UNCHANGED adapterState

\* what the caller of _terminate does once it returns
Returns(a) ==
  /\ killer' = [killer EXCEPT ![a] = Free]
  /\ \/ /\ killer[a].by = "timeout"
        /\ collector' = [collector EXCEPT ![a] = "joining"]
        /\ UNCHANGED <<canceller, step>>
     \/ /\ killer[a].by = "cancel"
        /\ canceller' = [canceller EXCEPT ![a] = "done"]
        /\ UNCHANGED <<collector, step>>
     \/ /\ killer[a].by = "release"
        /\ step' = [step EXCEPT ![a] = "settling"]
        /\ UNCHANGED <<collector, canceller>>
  /\ UNCHANGED <<file, flags, result, records, reported, verdict, inTime>>

\* the child was gone within the grace period: nothing more is sent
LeaderGone(a) ==
  /\ killer[a].at = "signalled" /\ leader[a] # "running"
  /\ Returns(a)
  /\ UNCHANGED <<leader, hit>>

\* it was not: SIGKILL to the whole group
GraceExpires(a) ==
  /\ killer[a].at = "signalled" /\ leader[a] = "running"
  /\ leader' = [leader EXCEPT ![a] = "killed"]
  /\ hit' = [hit EXCEPT ![a] = TRUE]
  /\ Returns(a)

-----------------------------------------------------------------------------
(* ProcessSupervisor.collect, in a thread of its own.                      *)

SeesExit(a) ==
  /\ collector[a] = "waiting" /\ leader[a] \in Ended
  /\ collector' = [collector EXCEPT ![a] = "joining"]
  /\ UNCHANGED <<flags, killer, result, canceller, hit, inTime>>
  /\ UNCHANGED processState /\ UNCHANGED adapterState

WaitWithoutTimeout(a) ==  \* mutation: timeout_seconds is not passed on to the wait
  FALSE

WaitExpires(a) ==
  /\ collector[a] = "waiting" /\ a \in Timed /\ leader[a] = "running"
  /\ collector' = [collector EXCEPT ![a] = "expired"]
  /\ UNCHANGED <<flags, killer, result, canceller, hit, inTime>>
  /\ UNCHANGED processState /\ UNCHANGED adapterState

TimeOut(a) ==
  /\ collector[a] = "expired"
  /\ Terminate(a, "timeout")
  /\ collector' = [collector EXCEPT
                     ![a] = IF leader[a] = "running" THEN "terminating" ELSE "joining"]
  /\ UNCHANGED <<result, canceller, hit, inTime>>
  /\ UNCHANGED processState /\ UNCHANGED adapterState

\* The readers are joined, at most for a while: descendants that hold the
\* pipes only delay this.  The flags are read without the lock.
BuildResult(a) ==
  /\ collector[a] = "joining"
  /\ result' = [result EXCEPT ![a] = flags[a]]
  /\ collector' = [collector EXCEPT ![a] = "built"]
  /\ UNCHANGED <<flags, killer, canceller, hit, inTime>>
  /\ UNCHANGED processState /\ UNCHANGED adapterState

StoreResult(a) ==
  /\ collector[a] = "built" /\ killer[a] = Free
  /\ collector' = [collector EXCEPT ![a] = "stored"]
  /\ UNCHANGED <<flags, killer, result, canceller, hit, inTime>>
  /\ UNCHANGED processState /\ UNCHANGED adapterState

-----------------------------------------------------------------------------
(* adapter.cancel, called by the engine's cancel or by the coroutine       *)
(* itself; one call per attempt.                                           *)

AskCancel(a) ==
  /\ a \in Cancellable /\ canceller[a] = "no" /\ a \in records
  /\ step[a] \in {"dispatched", "watching", "reported"}
  /\ canceller' = [canceller EXCEPT ![a] = "asked"]
  /\ inTime' = [inTime EXCEPT ![a] = @ \/ leader[a] = "running"]
  /\ UNCHANGED <<flags, killer, collector, result, hit>>
  /\ UNCHANGED processState /\ UNCHANGED adapterState

Cancel(a) ==
  /\ canceller[a] = "asked"
  /\ Terminate(a, "cancel")
  /\ canceller' = [canceller EXCEPT
                     ![a] = IF leader[a] = "running" THEN "terminating" ELSE "done"]
  /\ UNCHANGED <<collector, result, hit, inTime>>
  /\ UNCHANGED processState /\ UNCHANGED adapterState

-----------------------------------------------------------------------------
(* The adapter's calls, in the order _execute_node makes them.             *)

EngineMoves == UNCHANGED <<file, flags, killer, collector, result, canceller, hit>>

\* the planned route may be unavailable whenever it is asked for
StartSession(a) ==
  /\ step[a] = "idle"
  /\ \E s \in {"session", "released"} : step' = [step EXCEPT ![a] = s]
  /\ EngineMoves
  /\ UNCHANGED <<leader, records, reported, verdict, inTime>>

\* dispatch reserves a slot under the adapter's lock before it starts anything
Reserve(a) ==
  /\ step[a] = "session"
  /\ Cardinality(records) < MaxConcurrency
  /\ records' = records \cup {a}
  /\ step' = [step EXCEPT ![a] = "starting"]
  /\ EngineMoves
  /\ UNCHANGED <<leader, reported, verdict, inTime>>

\* "adapter concurrency exhausted"
Refuse(a) ==
  /\ step[a] = "session"
  /\ Cardinality(records) >= MaxConcurrency
  /\ step' = [step EXCEPT ![a] = "releasing"]
  /\ EngineMoves
  /\ UNCHANGED <<leader, records, reported, verdict, inTime>>

StartFails(a) ==
  /\ step[a] = "starting"
  /\ records' = records \ {a}
  /\ step' = [step EXCEPT ![a] = "releasing"]
  /\ EngineMoves
  /\ UNCHANGED <<leader, reported, verdict, inTime>>

Start(a) ==
  /\ step[a] = "starting"
  /\ leader' = [leader EXCEPT ![a] = "running"]
  /\ collector' = [collector EXCEPT ![a] = "waiting"]
  /\ step' = [step EXCEPT ![a] = "dispatched"]
  /\ UNCHANGED <<file, flags, killer, result, records, canceller,
                 reported, verdict, hit, inTime>>

Events(a) ==
  /\ step[a] = "dispatched"
  /\ step' = [step EXCEPT ![a] = "watching"]
  /\ EngineMoves
  /\ UNCHANGED <<leader, records, reported, verdict, inTime>>

Normalized(a) ==
  CASE "cancelled" \in result[a] -> "cancelled"
    [] result[a] = {"timed_out"} -> "timed_out"
    [] OTHER -> IF leader[a] = "ok" \/ a \in VerdictFromExit THEN "succeeded" ELSE "failed"

VerdictsOfAnyFile(a) ==  \* mutation: the file is not compared with the one at dispatch
  IF result[a] # {} THEN {"none"}
  ELSE IF a \in VerdictFromExit THEN {IF leader[a] = "ok" THEN "pass" ELSE "revise"}
  ELSE IF leader[a] = "ok" /\ file[a] # "absent" THEN {"pass", "revise", "none"}
  ELSE {"none"}

\* the exit code judges, or a verdict file other than the one that lay there
\* at dispatch; a stopped process has no verdict
VerdictsOf(a) ==
  IF result[a] # {} THEN {"none"}
  ELSE IF a \in VerdictFromExit THEN {IF leader[a] = "ok" THEN "pass" ELSE "revise"}
  ELSE IF leader[a] = "ok" /\ file[a] = "new" THEN {"pass", "revise", "none"}
  ELSE {"none"}

Report(a) ==
  /\ step[a] = "watching" /\ collector[a] = "stored"
  /\ reported' = [reported EXCEPT ![a] = Normalized(a)]
  /\ \E v \in VerdictsOf(a) : verdict' = [verdict EXCEPT ![a] = v]
  /\ step' = [step EXCEPT ![a] = "reported"]
  /\ EngineMoves
  /\ UNCHANGED <<leader, records, inTime>>

Collect(a) ==
  /\ step[a] = "reported"
  /\ records' = records \ {a}
  /\ step' = [step EXCEPT ![a] = "releasing"]
  /\ EngineMoves
  /\ UNCHANGED <<leader, reported, verdict, inTime>>

\* an append between two calls was refused: the finally clause releases
Abandon(a) ==
  /\ step[a] \in {"session", "dispatched", "reported"}
  /\ step' = [step EXCEPT ![a] = "releasing"]
  /\ EngineMoves
  /\ UNCHANGED <<leader, records, reported, verdict, inTime>>

ReleaseAtOnce(a) ==  \* mutation: release forgets the record of a running process
  /\ step[a] = "releasing"
  /\ records' = records \ {a}
  /\ step' = [step EXCEPT ![a] = "released"]
  /\ EngineMoves
  /\ UNCHANGED <<leader, reported, verdict, inTime>>

\* release: a record that was never collected is stopped, awaited, forgotten
Release(a) ==
  /\ step[a] = "releasing"
  /\ step' = [step EXCEPT ![a] = IF a \notin records THEN "released"
                                 ELSE IF collector[a] # "stored" THEN "stopping"
                                 ELSE "settling"]
  /\ inTime' = [inTime EXCEPT ![a] = @ \/ leader[a] = "running"]
  /\ EngineMoves
  /\ UNCHANGED <<leader, records, reported, verdict>>

ReleaseStops(a) ==
  /\ step[a] = "stopping"
  /\ Terminate(a, "release")
  /\ step' = [step EXCEPT ![a] = IF leader[a] = "running" THEN "terminating" ELSE "settling"]
  /\ UNCHANGED <<collector, result, canceller, hit, inTime, records, reported, verdict>>
  /\ UNCHANGED processState

ReleaseSettles(a) ==
  /\ step[a] = "settling" /\ collector[a] = "stored"
  /\ records' = records \ {a}
  /\ step' = [step EXCEPT ![a] = "released"]
  /\ EngineMoves
  /\ UNCHANGED <<leader, reported, verdict, inTime>>

-----------------------------------------------------------------------------
Supervision(a) ==
  \/ SignalGroup(a) \/ LeaderGone(a) \/ GraceExpires(a)
  \/ SeesExit(a) \/ WaitExpires(a) \/ TimeOut(a) \/ BuildResult(a) \/ StoreResult(a)
  \/ Cancel(a)
Calls(a) ==
  \/ StartSession(a) \/ Reserve(a) \/ Refuse(a) \/ StartFails(a) \/ Start(a)
  \/ Events(a) \/ Report(a) \/ Collect(a)
  \/ Release(a) \/ ReleaseStops(a) \/ ReleaseSettles(a)
Surroundings(a) ==
  Exits(a) \/ WritesVerdict(a) \/ AskCancel(a) \/ Abandon(a)

Threads == \E a \in Attempts : Supervision(a) \/ Calls(a)

PNext == Threads \/ \E a \in Attempts : Surroundings(a)

PSpec == PInit /\ [][PNext]_pvars

\* Some thread of the supervisor or the engine's coroutine runs if one can, and
\* a timed wait expires if the child outlives it.  Nothing is assumed of the child.
PFairness == WF_pvars(Threads)

-----------------------------------------------------------------------------
(* Properties.                                                             *)

PTypeOK ==
  /\ leader \in [Attempts -> {"none", "running"} \cup Ended]
  /\ file \in [Attempts -> {"absent", "old", "new"}]
  /\ flags \in [Attempts -> SUBSET {"cancelled", "timed_out"}]
  /\ killer \in [Attempts -> {Free} \cup [by : Callers, at : {"flagged", "signalled"}]]
  /\ collector \in [Attempts -> {"none", "waiting", "expired", "terminating",
                                 "joining", "built", "stored"}]
  /\ result \in [Attempts -> (SUBSET {"cancelled", "timed_out"}) \cup {{"none"}}]
  /\ records \subseteq Attempts
  /\ step \in [Attempts -> {"idle", "session", "starting", "dispatched", "watching",
                            "reported", "releasing", "stopping", "terminating",
                            "settling", "released"}]
  /\ canceller \in [Attempts -> {"no", "asked", "terminating", "done"}]
  /\ reported \in [Attempts -> Outcomes \cup {"none"}]
  /\ verdict \in [Attempts -> {"none", "pass", "revise"}]
  /\ hit \in [Attempts -> BOOLEAN]
  /\ inTime \in [Attempts -> BOOLEAN]

StoppedIsNotResult ==
  \A a \in Attempts :
    hit[a] => reported[a] \in {"none", "cancelled", "timed_out"} /\ verdict[a] = "none"

CancelledWasRunning ==
  \A a \in Attempts : reported[a] = "cancelled" => inTime[a]

VerdictIsOwn ==
  \A a \in Attempts : verdict[a] # "none" =>
    /\ leader[a] \in {"ok", "bad"}
    /\ a \in VerdictFromExit \/ (file[a] = "new" /\ leader[a] = "ok")

\* What is reported is how the process itself ended.  One that a signal of the
\* supervisor reached while it ran is never reported as having succeeded or
\* failed, whatever it exits with and whichever thread collects it, and has no
\* verdict; a cancel that comes after the end does not turn the outcome into
\* "cancelled"; and a verdict comes from a process that ended by itself, never
\* from a file that an earlier attempt left.
OutcomeIsItsEnd == StoppedIsNotResult /\ CancelledWasRunning /\ VerdictIsOwn

\* Every running process occupies one of the adapter's slots, so there are
\* never more than max_concurrency of them, and once the engine's coroutine
\* has let go of an attempt neither its slot nor its process is left.
NoProcessWithoutSlot ==
  /\ \A a \in Attempts : leader[a] = "running" => a \in records
  /\ Cardinality(records) <= MaxConcurrency
  /\ \A a \in Attempts : step[a] = "released" => a \notin records

\* Whatever races, an attempt with a timeout that was given a session comes
\* to its end: no thread waits for ever on the lock or on another thread.
AttemptsEnd ==
  \A a \in Timed : (step[a] = "session") ~> (step[a] = "released")
=============================================================================
