---------------------------- MODULE EngineProofs ----------------------------
(***************************************************************************)
(* What holds of GraphExecutionEngine for every plan, adapter and bound:   *)
(* the inductive invariant IInv of Engine and the properties that follow.  *)
(*                                                                         *)
(* Between two awaits the engine has decided on the events in `todo' but   *)
(* not yet appended them.  ScriptFits says, by caller, which scripts there *)
(* are and what the ledger must be like before each of their steps, so     *)
(* that every event that is appended is safe in the sense of EngineLedger; *)
(* NodesFit says, by the await its coroutine stands at, what the ledger    *)
(* holds of a node; Control relates the waves, cancel and the terminal.    *)
(***************************************************************************)
EXTENDS EngineLedger, SequenceTheorems

AtOnce         == {"succeeded", "failed"}
InFlightStates == {"assigned", "running"}
Settled        == {"awaiting_verification", "passed", "failed", "inconclusive", "cancelled",
                   "outcome_unknown"}

TodoTyped == todo \in Seq(Event)

(* A node whose coroutine waits, and has appended everything it decided *)
Resting(n) ==
  /\ pc[n] = "none" /\ led.node[n] \in InFlightStates /\ up =>
       caller = "start" /\ \E i \in DOMAIN todo : todo[i] = Reconciled(n)
  /\ pc[n] = "begin"   => led.node[n] \in Unstarted /\ Fresh(led, n)
  /\ pc[n] = "session" => led.node[n] \in {"ready", "cancelled"} /\ Fresh(led, n)
  /\ pc[n] = "launch"  => led.node[n] = "assigned" /\ launched[n] < Len(led.attempts[n])
  /\ pc[n] = "stop"    => led.node[n] = "assigned"
  /\ pc[n] = "events"  => led.node[n] = "running"
  /\ pc[n] = "verdict" => /\ led.node[n] \in {"awaiting_verification", "failed"}
                          /\ IsVerifier(n) /\ led.verdict[n] = "none"
  /\ pc[n] = "collect" => /\ led.node[n] \in Settled
                          /\ res[n] = "succeeded" /\ ~IsVerifier(n) =>
                               led.node[n] = "awaiting_verification"
  /\ pc[n] = "release" => led.node[n] \in Settled
  /\ pc[n] = "ended"   => led.node[n] \notin InFlightStates

(* What coroutine n still has to append, standing at its next await *)
ReadyWriting(n) ==
  todo = <<Status(n, "ready")>> /\ pc[n] = "session" /\ led.node[n] = "pending" /\ Fresh(led, n)
DispatchWriting(n) ==
  /\ todo = <<Dispatched(n)>> /\ pc[n] = "launch"
  /\ led.node[n] \in {"ready", "cancelled"} /\ Fresh(led, n)
RunWriting(n) == todo = <<Running(n)>> /\ pc[n] = "events" /\ led.node[n] = "assigned"
FinishWriting(n, o) ==
  /\ todo = <<Finished(n, o)>>
  /\ \/ led.node[n] = "running" /\ pc[n] = "verdict" /\ IsVerifier(n) /\ o \in AtOnce
     \/ led.node[n] = "running" /\ pc[n] = "collect" /\ res[n] = o
     \/ /\ led.node[n] \in InFlightStates /\ pc[n] = "release"
        /\ o \in {"startup_failure", "outcome_unknown"}
RetryWriting(n) ==
  /\ todo = <<Retried(n)>> /\ pc[n] = "session"
  /\ led.node[n] = "outcome_unknown" /\ n \notin led.retried
BlockWriting(n) ==
  /\ todo = <<Status(n, "blocked")>> /\ pc[n] = "ended"
  /\ led.node[n] = "outcome_unknown" /\ n \in led.retried
PassWriting(n) ==
  /\ todo = <<Verdict(n, {n}, "pass")>> /\ pc[n] = "release"
  /\ n[1] \in Deterministic /\ led.node[n] = "awaiting_verification"
VerdictWriting(n, k) ==
  /\ IsVerifier(n) /\ pc[n] = "collect"
  /\ led.node[n] \in {"awaiting_verification", "failed"} /\ led.verdict[n] = "none"
  /\ \/ todo = <<Verdict(n, DepsOf(n), k)>>
     \/ k = "revise" /\ \E t \in DepsOf(n) :
          DepsOf(n) = {t} /\ todo = <<Verdict(n, DepsOf(n), k)>> \o AfterRevise(led, t, n)
Writing(n) ==
  \/ ReadyWriting(n) \/ DispatchWriting(n) \/ RunWriting(n)
  \/ \E o \in Outcomes : FinishWriting(n, o)
  \/ RetryWriting(n) \/ BlockWriting(n) \/ PassWriting(n)
  \/ \E k \in Verdicts : VerdictWriting(n, k)

(* The verdict is on record, the rework it asks for, or its gate, is not *)
ReviseScript(n, t) ==
  /\ IsVerifier(n) /\ DepsOf(n) = {t} /\ todo = AfterRevise(led, t, n)
  /\ led.verdict[n] = "revise" /\ led.node[n] = "failed" /\ led.node[t] = "failed"
GateScript ==
  \A i \in DOMAIN todo : \E m \in Ids :
    /\ todo[i] = GateOpened(m)
    /\ NeedsApproval(led, m) /\ led.node[m] = "pending" /\ pc[m] = "none"
TaskScript ==
  \/ \E n \in Ids : Writing(n)
  \/ \E n, t \in Ids : ReviseScript(n, t)
  \/ GateScript

FirstStart ==
  /\ led = [EmptyLedger EXCEPT !.phase = led.phase, !.gate = led.gate]
  /\ \A n \in Ids : led.gate[n] \in {"none", "open"}
  /\ \A i \in DOMAIN todo :
       \/ todo[i] \in {Created, Published}
       \/ \E m \in Planned : todo[i] = GateOpened(m) /\ m[1] \in Premium
Restart == \A i \in DOMAIN todo : \E m \in Ids : todo[i] = Reconciled(m)
StartScript == (\A n \in Ids : pc[n] = "none") /\ (FirstStart \/ Restart)

(* cancel and a human's skip take a node that does not run *)
Dropping(n) ==
  /\ led.node[n] \notin InFlightStates
  /\ \/ todo = <<Status(n, "cancelled")>>
     \/ led.node[n] = "pending" /\ todo = <<Status(n, "ready"), Status(n, "cancelled")>>
Idle == \A n \in Ids : pc[n] \in {"none", "begin"}
CancelScript ==
  \/ Idle /\ todo = <<Terminal("cancelled")>>
  \/ canc = "nodes" /\ \E n \in Ids : Dropping(n)
  \/ /\ canc \in {"dispatches", "tasks", "nodes"}
     /\ \A i \in DOMAIN todo : \E m \in Ids : todo[i] = GateResolved(m, "cancelled")

Skipping(n) ==
  /\ pc[n] = "none" /\ led.attempts[n] = << >> /\ led.node[n] \in Unstarted
  /\ \/ todo = <<Status(n, "cancelled")>>
     \/ todo = <<GateResolved(n, "skip"), Status(n, "cancelled")>>
     \/ /\ led.node[n] = "pending"
        /\ \/ todo = <<Status(n, "ready"), Status(n, "cancelled")>>
           \/ todo = <<GateResolved(n, "skip"), Status(n, "ready"), Status(n, "cancelled")>>
UserScript ==
  \/ \E n \in Ids, d \in Decisions : todo = <<GateResolved(n, d)>>
  \/ \E n \in Ids : Skipping(n)

ScriptFits ==
  /\ caller = "none" <=> todo = << >>
  /\ caller = "start"   => StartScript
  /\ caller = "task"    => TaskScript
  /\ caller = "advance" => Idle /\ \E s \in Terminals : todo = <<Terminal(s)>>
  /\ caller = "cancel"  => CancelScript
  /\ caller = "user"    => UserScript

(* A node with a coroutine was taken by the scheduler, and stays so *)
Taken(n) ==
  pc[n] # "none" =>
    /\ led.node[n] # "absent" /\ led.gate[n] # "open"
    /\ NeedsApproval(led, n) => n \in Approved(led)
    /\ \A d \in DepsOf(n) : DepSettled(led, n, d) /\ pc[d] = "none"
Recorded(n) ==
  /\ launched[n] <= Len(led.attempts[n])
  /\ launched[n] > 0 /\ NeedsApproval(led, n) => n \in Approved(led)
Dropped(n) ==
  n \in lost => pc[n] = "none" /\ led.node[n] \in InFlightStates \cup {"outcome_unknown", "cancelled"}
NodesFit ==
  \A n \in Ids : (Resting(n) \/ (caller = "task" /\ Writing(n))) /\ Taken(n) /\ Recorded(n) /\ Dropped(n)

Quiet(n) ==
  \/ pc[n] \in {"none", "begin", "session", "ended"}
  \/ pc[n] = "launch" /\ todo = <<Dispatched(n)>> /\ caller = "task"
Control ==
  /\ ~up => todo = << >> /\ adv = "idle" /\ canc = "none"
  /\ adv = "idle" => wave = {}
  /\ \A n \in Ids : n \in wave <=> pc[n] # "none"
  /\ canc = "tasks" => awaited = {} \/ awaited = wave
  /\ canc = "nodes" \/ CancelIsNext => Idle
  /\ led.terminal # "none" => \A n \in Ids : Quiet(n)

IInv == TypeOK /\ TodoTyped /\ Control /\ Sound(led) /\ ScriptFits /\ NodesFit
-----------------------------------------------------------------------------
\* Everything the engine appends is an event of the vocabulary.
LEMMA EventTypes ==
  /\ Created \in Event /\ Published \in Event
  /\ \A s \in Terminals : Terminal(s) \in Event
  /\ \A n \in Ids : /\ \A s \in {"ready", "cancelled", "blocked"} : Status(n, s) \in Event
                    /\ Running(n) \in Event /\ Dispatched(n) \in Event
                    /\ \A o \in Outcomes : Finished(n, o) \in Event
                    /\ Reconciled(n) \in Event /\ Retried(n) \in Event
                    /\ \A v \in Ids : ReworkOf(n, v) \in Event
                    /\ GateOpened(n) \in Event /\ GateExhausted(n) \in Event
                    /\ \A d \in Decisions : GateResolved(n, d) \in Event
                    /\ \A ts \in SUBSET Ids, k \in Verdicts : Verdict(n, ts, k) \in Event
BY DEF Event

\* The invariant holds before the first start.
LEMMA InitFits == Init => IInv
<1> SUFFICES ASSUME Init PROVE IInv
  OBVIOUS
<1>1. led = [EmptyLedger EXCEPT !.phase = "none"]
  BY DEF Init, EmptyLedger
<1>2. Sound(led)
  BY <1>1, BlankSound
<1>3. led \in Ledger
  BY <1>2 DEF Sound
<1>4. TypeOK
  <2>1. 0 \in 0 .. MaxStartFailures /\ 0 \in 0 .. MaxCrashes /\ 0 \in 0 .. MaxCancels
    BY EngineAssumption
  <2>2. /\ pc \in [Ids -> Stations] /\ res \in [Ids -> {"none"} \cup Outcomes]
        /\ launched \in [Ids -> Nat]
    BY DEF Init, Stations
  <2> QED
    BY <1>3, <2>1, <2>2 DEF Init, TypeOK
<1>5. TodoTyped
  BY DEF Init, TodoTyped
<1>6. Control
  BY DEF Init, Control, CancelIsNext, EmptyLedger
<1>7. ScriptFits
  BY DEF Init, ScriptFits
<1>8. ASSUME NEW n \in Ids
      PROVE  Resting(n) /\ Taken(n) /\ Recorded(n) /\ Dropped(n)
  <2>1. pc[n] = "none" /\ ~up /\ launched[n] = 0 /\ lost = {}
    BY DEF Init
  <2>2. Len(led.attempts[n]) \in Nat
    BY <1>3, LastStates
  <2> QED
    BY <2>1, <2>2 DEF Resting, Taken, Recorded, Dropped
<1> QED
  BY <1>2, <1>4, <1>5, <1>6, <1>7, <1>8 DEF IInv, NodesFit
-----------------------------------------------------------------------------
(* A coroutine goes on to its next await: what it decided to append is all   *)
(* that the others could notice.                                             *)

\* The pattern of a coroutine's step: one node moves on, with what it will append.
LEMMA TaskStep ==
  ASSUME IInv, NEW n \in Ids, NEW y \in Stations \ {"none"},
         MayRun, pc[n] # "none", Goto(n, y),
         UNCHANGED <<led, up, wave, adv, stop, lost>>,
         \A m \in Ids \ {n} : res'[m] = res[m] /\ launched'[m] = launched[m],
         todo' \in Seq(Event), caller' = IF todo' = << >> THEN "none" ELSE "task",
         caller' = "task" => TaskScript',
         Resting(n)' \/ (caller' = "task" /\ Writing(n)'),
         launched'[n] <= Len(led.attempts[n]),
         led.terminal # "none" => Quiet(n)'
  PROVE  TodoTyped' /\ Control' /\ Sound(led)' /\ ScriptFits' /\ NodesFit'
<1>1. up /\ todo = << >> /\ caller = "none" /\ canc # "nodes" /\ ~CancelIsNext
  BY DEF MayRun, LoopFree, IInv, ScriptFits
<1>2. /\ up' = up /\ led' = led /\ wave' = wave /\ adv' = adv /\ canc' = canc
      /\ awaited' = awaited /\ lost' = lost
  BY DEF stop
<1>3. pc \in [Ids -> Stations] /\ pc' = [pc EXCEPT ![n] = y]
  BY DEF IInv, TypeOK, Goto
<1>4. /\ pc'[n] = y /\ \A m \in Ids \ {n} : pc'[m] = pc[m]
      /\ \A m \in Ids : pc'[m] = "none" <=> pc[m] = "none"
  BY <1>3
<1>5. ASSUME NEW m \in Ids, m # n PROVE Resting(m)'
  <2>1. Resting(m)
    BY <1>1 DEF IInv, NodesFit
  <2>2. pc'[m] = pc[m] /\ res'[m] = res[m] /\ launched'[m] = launched[m]
    BY <1>4, <1>5
  <2>3. CASE pc[m] = "none"
    <3>1. led.node[m] \notin InFlightStates
      BY <1>1, <2>1, <2>3 DEF Resting
    <3> QED
      BY <1>2, <2>2, <2>3, <3>1 DEF Resting
  <2>4. CASE pc[m] # "none"
    BY <1>2, <2>1, <2>2, <2>4 DEF Resting, Fresh
  <2> QED BY <2>3, <2>4
<1>6. ASSUME NEW m \in Ids PROVE Taken(m)'
  <2>1. Taken(m)
    BY DEF IInv, NodesFit
  <2> QED
    BY <1>2, <1>4, <2>1, NodePairs DEF Taken
<1>7. ASSUME NEW m \in Ids PROVE Recorded(m)'
  <2>1. Recorded(m) /\ Taken(m)
    BY DEF IInv, NodesFit
  <2>2. CASE m = n
    BY <1>2, <2>1, <2>2 DEF Recorded, Taken
  <2>3. CASE m # n
    BY <1>2, <2>1, <2>3 DEF Recorded
  <2> QED BY <2>2, <2>3
<1>8. ASSUME NEW m \in Ids PROVE Dropped(m)'
  BY <1>2, <1>4 DEF IInv, NodesFit, Dropped
<1>9. ASSUME NEW m \in Ids, m # n, Quiet(m) PROVE Quiet(m)'
  BY <1>1, <1>4, <1>9 DEF Quiet
<1>10. Control'
  <2>1. ~CancelIsNext' /\ canc' # "nodes"
    BY <1>1, <1>2 DEF CancelIsNext
  <2> QED
    BY <1>1, <1>2, <1>4, <1>9, <2>1 DEF IInv, Control
<1>11. ScriptFits'
  BY DEF ScriptFits
<1>12. NodesFit'
  BY <1>5, <1>6, <1>7, <1>8 DEF NodesFit
<1> QED
  BY <1>2, <1>10, <1>11, <1>12 DEF IInv, TodoTyped

\* What a coroutine finds when it runs
LEMMA Found ==
  ASSUME IInv, MayRun, NEW n \in Ids
  PROVE  /\ up /\ todo = << >> /\ caller = "none" /\ led \in Ledger
         /\ Resting(n) /\ Taken(n) /\ Recorded(n)
         /\ AttemptsFit(led, n) /\ VerdictFits(led, n)
         /\ led.node[n] \in InFlightStates => HasAttemptInFlight(led, n)
         /\ HasAttemptInFlight(led, n) => led.node[n] \in InFlightStates
         /\ led.terminal # "none" => Quiet(n)
         /\ launched[n] \in Nat /\ Len(led.attempts[n]) \in Nat
<1>1. up /\ todo = << >> /\ caller = "none" /\ led \in Ledger /\ launched[n] \in Nat
  BY DEF MayRun, LoopFree, IInv, ScriptFits, TypeOK
<1>2. AttemptsFit(led, n) /\ VerdictFits(led, n)
  BY DEF IInv, Sound
<1>3. led.node[n] \in NodeState
  BY <1>1 DEF Ledger
<1>4. led.node[n] \in InFlightStates <=> HasAttemptInFlight(led, n)
  BY <1>1, <1>2, <1>3, LastStates DEF AttemptsFit, Left, InFlightStates, InFlight, NodeState
<1>5. Len(led.attempts[n]) \in Nat
  BY <1>1, LastStates
<1> QED
  BY <1>1, <1>2, <1>4, <1>5 DEF IInv, NodesFit, Control

\* Scripts of one and of two events.
LEMMA TodoForms ==
  /\ << >> \in Seq(Event)
  /\ \A e \in Event : /\ <<e>> \in Seq(Event) /\ <<e>> # << >> /\ << >> \o <<e>> = <<e>>
                      /\ Head(<<e>>) = e /\ Tail(<<e>>) = << >>
  /\ \A e, f \in Event : /\ <<e, f>> \in Seq(Event) /\ <<e, f>> # << >>
                         /\ <<e>> \o <<f>> = <<e, f>>
                         /\ Head(<<e, f>>) = e /\ Tail(<<e, f>>) = <<f>>
<1>1. ASSUME NEW e \in Event, NEW f \in Event
      PROVE  /\ <<e, f>> \in Seq(Event) /\ <<e, f>> # << >> /\ Len(<<e, f>>) = 2
             /\ <<e>> \in Seq(Event) /\ <<e>> # << >> /\ Len(<<e>>) = 1
             /\ <<f>> \in Seq(Event) /\ Len(<<f>>) = 1
             /\ Head(<<e, f>>) = e /\ Head(<<e>>) = e
  OBVIOUS
<1>2. ASSUME NEW e \in Event, NEW f \in Event
      PROVE  <<e>> \o <<f>> = <<e, f>>
  <2>1. /\ <<e>> \o <<f>> \in Seq(Event) /\ Len(<<e>> \o <<f>>) = 2
        /\ (<<e>> \o <<f>>)[1] = e /\ (<<e>> \o <<f>>)[2] = f
    BY <1>1, ConcatProperties
  <2>2. \A i \in 1 .. Len(<<e>> \o <<f>>) : (<<e>> \o <<f>>)[i] = <<e, f>>[i]
    BY <2>1
  <2> QED
    BY <1>1, <2>1, <2>2, SeqEqual
<1>3. ASSUME NEW e \in Event, NEW f \in Event
      PROVE  Tail(<<e, f>>) = <<f>>
  <2>1. /\ Tail(<<e, f>>) \in Seq(Event) /\ Len(Tail(<<e, f>>)) = 1
        /\ Tail(<<e, f>>)[1] = f
    BY <1>1, HeadTailProperties
  <2>2. \A i \in 1 .. Len(Tail(<<e, f>>)) : Tail(<<e, f>>)[i] = <<f>>[i]
    BY <2>1
  <2> QED
    BY <1>1, <2>1, <2>2, SeqEqual
<1>4. ASSUME NEW e \in Event
      PROVE  << >> \o <<e>> = <<e>> /\ Tail(<<e>>) = << >>
  <2>1. << >> \o <<e>> = <<e>>
    BY <1>1, ConcatEmptySeq
  <2>2. Tail(<<e>>) \in Seq(Event) /\ Len(Tail(<<e>>)) = 0
    BY <1>1, HeadTailProperties
  <2> QED
    BY <2>1, <2>2, EmptySeq
<1>5. << >> \in Seq(Event)
  OBVIOUS
<1> QED
  BY <1>1, <1>2, <1>3, <1>4, <1>5

\* An await that appends nothing
LEMMA SilentStep ==
  ASSUME IInv, NEW n \in Ids, NEW y \in Stations \ {"none"},
         MayRun, pc[n] # "none", Goto(n, y),
         UNCHANGED <<led, up, wave, adv, stop, lost, todo, caller>>,
         \A m \in Ids \ {n} : res'[m] = res[m] /\ launched'[m] = launched[m],
         Resting(n)', launched'[n] <= Len(led.attempts[n]),
         led.terminal # "none" => Quiet(n)'
  PROVE  TodoTyped' /\ Control' /\ Sound(led)' /\ ScriptFits' /\ NodesFit'
<1>1. todo = << >> /\ caller = "none"
  BY DEF MayRun, LoopFree, IInv, ScriptFits
<1> QED
  BY <1>1, TaskStep, TodoForms

\* _execute_node starting keeps the invariant.
LEMMA BeginKeeps == ASSUME IInv, NEW n \in Ids, Begin(n) PROVE IInv'
<1>1. MayRun /\ pc[n] = "begin" /\ Goto(n, "session") /\ pc'[n] = "session"
  BY DEF Begin, At, Goto, IInv, TypeOK
<1>2. UNCHANGED <<led, up, wave, adv, stop, lost, res, launched>>
  BY DEF Begin, history
<1>3. TypeOK'
  BY <1>1, <1>2 DEF Begin, IInv, TypeOK, AppendsAs, Goto, Stations, stop, history, Callers
<1>4. led.node[n] \in Unstarted /\ Fresh(led, n)
  BY <1>1, Found DEF Resting
<1>5. Recorded(n) /\ "session" \in Stations \ {"none"} /\ pc[n] # "none"
  BY <1>1, Found DEF Stations
<1>6. CASE led.node[n] = "pending"
  <2>1. todo' = <<Status(n, "ready")>> /\ caller' = "task"
    BY <1>6 DEF Begin, AppendsAs, When
  <2>2. ReadyWriting(n)'
    BY <1>1, <1>2, <1>4, <1>6, <2>1 DEF ReadyWriting
  <2>3. Writing(n)' /\ TaskScript'
    BY <2>2 DEF Writing, TaskScript
  <2>4. todo' \in Seq(Event) /\ todo' # << >>
    BY <2>1, EventTypes, TodoForms
  <2>5. Quiet(n)'
    BY <1>1 DEF Quiet
  <2> QED
    BY <1>1, <1>2, <1>3, <1>5, <2>1, <2>3, <2>4, <2>5, TaskStep DEF IInv, Recorded
<1>7. CASE led.node[n] # "pending"
  <2>1. todo' = todo /\ caller' = caller
    BY <1>1, <1>7, Found DEF Begin, AppendsAs, When
  <2>2. Resting(n)'
    BY <1>1, <1>2, <1>4, <1>7 DEF Resting, Unstarted, Fresh
  <2>3. Quiet(n)'
    BY <1>1 DEF Quiet
  <2> QED
    BY <1>1, <1>2, <1>3, <1>5, <2>1, <2>2, <2>3, SilentStep DEF IInv, Recorded
<1> QED
  BY <1>6, <1>7

\* prepare_node returning or raising keeps the invariant.
LEMMA SessionKeeps ==
  ASSUME IInv, NEW n \in Ids, SessionStarted(n) \/ SessionFails(n)
  PROVE  IInv'
<1>1. /\ MayRun /\ pc[n] = "session" /\ pc[n] # "none" /\ Recorded(n)
      /\ led.node[n] \in {"ready", "cancelled"} /\ Fresh(led, n) /\ caller = "none"
  BY Found DEF SessionStarted, SessionFails, At, Resting
<1>2. UNCHANGED <<led, up, wave, adv, stop, lost, res, launched>>
  BY DEF SessionStarted, SessionFails, history
<1>3. CASE SessionStarted(n)
  <2>1. Goto(n, "launch") /\ pc'[n] = "launch" /\ "launch" \in Stations \ {"none"}
    BY <1>3 DEF SessionStarted, Goto, IInv, TypeOK, Stations
  <2>2. TypeOK'
    BY <1>2, <1>3, <2>1 DEF SessionStarted, IInv, TypeOK, AppendsAs, Goto, stop, history, Callers
  <2>3. todo' = <<Dispatched(n)>> /\ caller' = "task"
    BY <1>3 DEF SessionStarted, AppendsAs
  <2>4. DispatchWriting(n)'
    BY <1>1, <1>2, <2>1, <2>3 DEF DispatchWriting
  <2>5. Writing(n)' /\ TaskScript'
    BY <2>4 DEF Writing, TaskScript
  <2>6. todo' \in Seq(Event) /\ todo' # << >>
    BY <2>3, EventTypes, TodoForms
  <2>7. Quiet(n)'
    BY <2>1, <2>3 DEF Quiet
  <2> QED
    BY <1>1, <1>2, <2>1, <2>2, <2>3, <2>5, <2>6, <2>7, TaskStep DEF IInv, Recorded
<1>4. CASE SessionFails(n)
  <2>1. Goto(n, "ended") /\ pc'[n] = "ended" /\ "ended" \in Stations \ {"none"}
    BY <1>4 DEF SessionFails, Goto, IInv, TypeOK, Stations
  <2>2. todo' = todo /\ caller' = caller
    BY <1>4 DEF SessionFails
  <2>3. failures' \in 0 .. MaxStartFailures
    BY <1>4, EngineAssumption DEF SessionFails, IInv, TypeOK
  <2>4. TypeOK'
    BY <1>2, <1>4, <2>1, <2>2, <2>3 DEF SessionFails, IInv, TypeOK, Goto, stop
  <2>5. Resting(n)' /\ Quiet(n)'
    BY <1>1, <1>2, <2>1 DEF Resting, Quiet, InFlightStates
  <2> QED
    BY <1>1, <1>2, <2>1, <2>2, <2>4, <2>5, SilentStep DEF IInv, Recorded
<1> QED
  BY <1>3, <1>4

\* dispatch returning keeps the invariant.
LEMMA LaunchedKeeps == ASSUME IInv, NEW n \in Ids, Launched(n) PROVE IInv'
<1> DEFINE y == IF reason THEN "stop" ELSE "events"
<1>1. /\ MayRun /\ pc[n] = "launch" /\ pc[n] # "none" /\ caller = "none" /\ todo = << >>
      /\ led.node[n] = "assigned" /\ launched[n] < Len(led.attempts[n])
      /\ led.terminal # "none" => Quiet(n)
      /\ launched[n] \in Nat /\ Len(led.attempts[n]) \in Nat
  BY Found DEF Launched, At, Resting
<1>2. led.terminal = "none"
  BY <1>1 DEF Quiet
<1>3. UNCHANGED <<led, up, wave, adv, stop, lost, res>>
  BY DEF Launched
<1>4. Goto(n, y) /\ pc'[n] = y /\ y \in Stations \ {"none"}
  BY DEF Launched, Goto, IInv, TypeOK, Stations
<1>5. launched' = [launched EXCEPT ![n] = launched[n] + 1] /\ launched \in [Ids -> Nat]
  BY DEF Launched, IInv, TypeOK
<1>6. launched'[n] <= Len(led.attempts[n]) /\ \A m \in Ids \ {n} : launched'[m] = launched[m]
  BY <1>1, <1>5
<1>7. launched' \in [Ids -> Nat]
  BY <1>1, <1>5
<1>8. TypeOK'
  BY <1>3, <1>4, <1>7 DEF Launched, IInv, TypeOK, AppendsAs, Goto, stop, Callers
<1> HIDE DEF y
<1>9. CASE ~reason
  <2>1. todo' = <<Running(n)>> /\ caller' = "task" /\ y = "events"
    BY <1>9 DEF Launched, AppendsAs, When, y
  <2>2. RunWriting(n)'
    BY <1>1, <1>3, <1>4, <2>1 DEF RunWriting
  <2>3. Writing(n)' /\ TaskScript'
    BY <2>2 DEF Writing, TaskScript
  <2>4. todo' \in Seq(Event) /\ todo' # << >>
    BY <2>1, EventTypes, TodoForms
  <2> QED
    BY <1>1, <1>2, <1>3, <1>4, <1>6, <1>8, <2>1, <2>3, <2>4, TaskStep DEF IInv
<1>10. CASE reason
  <2>1. todo' = todo /\ caller' = caller /\ y = "stop"
    BY <1>1, <1>10 DEF Launched, AppendsAs, When, y
  <2>2. Resting(n)'
    BY <1>1, <1>3, <1>4, <2>1 DEF Resting
  <2> QED
    BY <1>1, <1>2, <1>3, <1>4, <1>6, <1>8, <2>1, <2>2, SilentStep DEF IInv
<1> QED
  BY <1>9, <1>10 DEF IInv, TypeOK

\* The attempt ends by an error: it is finished unless it already is
LEMMA GivesUpKeeps ==
  ASSUME IInv, NEW n \in Ids, NEW o \in {"startup_failure", "outcome_unknown"}, MayRun,
         pc[n] \in {"launch", "events", "verdict", "collect"}, GivesUp(n, o)
  PROVE  IInv'
<1>1. /\ pc[n] # "none" /\ caller = "none" /\ todo = << >> /\ Recorded(n)
      /\ led.node[n] \in InFlightStates <=> HasAttemptInFlight(led, n)
      /\ led.terminal # "none" => Quiet(n)
      /\ Resting(n)
  BY Found
<1>2. led.terminal = "none" /\ led.node[n] \in InFlightStates \cup Settled
  BY <1>1 DEF Quiet, Resting, Settled, InFlightStates
<1>3. UNCHANGED <<led, up, wave, adv, stop, lost, launched>>
  BY DEF GivesUp, history
<1>4. Goto(n, "release") /\ pc'[n] = "release" /\ "release" \in Stations \ {"none"}
  BY DEF GivesUp, Goto, IInv, TypeOK, Stations
<1>5. res' = [res EXCEPT ![n] = o] /\ \A m \in Ids \ {n} : res'[m] = res[m]
  BY DEF GivesUp, IInv, TypeOK
<1>6. TypeOK'
  BY <1>3, <1>4, <1>5 DEF GivesUp, IInv, TypeOK, AppendsAs, Goto, stop, history, Callers, Outcomes
<1>7. CASE led.node[n] \in InFlightStates
  <2>1. todo' = <<Finished(n, o)>> /\ caller' = "task" /\ o \in Outcomes
    BY <1>1, <1>7 DEF GivesUp, AppendsAs, When, Outcomes
  <2>2. FinishWriting(n, o)'
    BY <1>3, <1>4, <1>7, <2>1 DEF FinishWriting
  <2>3. Writing(n)' /\ TaskScript'
    BY <2>1, <2>2 DEF Writing, TaskScript
  <2>4. todo' \in Seq(Event) /\ todo' # << >>
    BY <2>1, EventTypes, TodoForms
  <2> QED
    BY <1>1, <1>2, <1>3, <1>4, <1>5, <1>6, <2>1, <2>3, <2>4, TaskStep DEF IInv, Recorded
<1>8. CASE led.node[n] \notin InFlightStates
  <2>1. todo' = todo /\ caller' = caller
    BY <1>1, <1>8 DEF GivesUp, AppendsAs, When
  <2>2. Resting(n)'
    BY <1>2, <1>3, <1>4, <1>8 DEF Resting
  <2> QED
    BY <1>1, <1>2, <1>3, <1>4, <1>5, <1>6, <2>1, <2>2, SilentStep DEF IInv, Recorded
<1> QED
  BY <1>7, <1>8

\* A dispatch that ends at once keeps the invariant.
LEMMA StoppedKeeps == ASSUME IInv, NEW n \in Ids, StoppedAtOnce(n) PROVE IInv'
<1>1. /\ MayRun /\ pc[n] = "stop" /\ pc[n] # "none" /\ caller = "none" /\ Recorded(n)
      /\ led.node[n] = "assigned"
      /\ led.terminal # "none" => Quiet(n)
  BY Found DEF StoppedAtOnce, At, Resting
<1>2. led.terminal = "none"
  BY <1>1 DEF Quiet
<1>3. UNCHANGED <<led, up, wave, adv, stop, lost, res, launched>>
  BY DEF StoppedAtOnce, history
<1>4. Goto(n, "events") /\ pc'[n] = "events" /\ "events" \in Stations \ {"none"}
  BY DEF StoppedAtOnce, Goto, IInv, TypeOK, Stations
<1>5. TypeOK'
  BY <1>3, <1>4 DEF StoppedAtOnce, IInv, TypeOK, AppendsAs, Goto, stop, history, Callers
<1>6. todo' = <<Running(n)>> /\ caller' = "task"
  BY DEF StoppedAtOnce, AppendsAs
<1>7. RunWriting(n)'
  BY <1>1, <1>3, <1>4, <1>6 DEF RunWriting
<1>8. Writing(n)' /\ TaskScript'
  BY <1>7 DEF Writing, TaskScript
<1>9. todo' \in Seq(Event) /\ todo' # << >>
  BY <1>6, EventTypes, TodoForms
<1> QED
  BY <1>1, <1>2, <1>3, <1>4, <1>5, <1>6, <1>8, <1>9, TaskStep DEF IInv, Recorded

\* The adapter's report of an outcome keeps the invariant.
LEMMA ReportedKeeps == ASSUME IInv, NEW n \in Ids, Reported(n) PROVE IInv'
<1>1. /\ MayRun /\ pc[n] = "events" /\ pc[n] # "none" /\ caller = "none" /\ Recorded(n)
      /\ led.node[n] = "running"
      /\ led.terminal # "none" => Quiet(n)
  BY Found DEF Reported, At, Resting
<1>2. led.terminal = "none"
  BY <1>1 DEF Quiet
<1>3. UNCHANGED <<led, up, wave, adv, stop, lost, launched>>
  BY DEF Reported, history
<1>4. PICK o \in Reports :
        /\ res' = [res EXCEPT ![n] = o]
        /\ Goto(n, IF IsVerifier(n) /\ o \in AtOnce THEN "verdict" ELSE "collect")
        /\ AppendsAs("task", <<Finished(n, o)>>)
  BY DEF Reported, AtOnce
<1> DEFINE y == IF IsVerifier(n) /\ o \in AtOnce THEN "verdict" ELSE "collect"
<1>5. o \in Outcomes
  BY EngineAssumption DEF Outcomes
<1>6. Goto(n, y) /\ pc'[n] = y /\ y \in Stations \ {"none"}
  BY <1>4 DEF Goto, IInv, TypeOK, Stations
<1>7. res'[n] = o /\ \A m \in Ids \ {n} : res'[m] = res[m]
  BY <1>4 DEF IInv, TypeOK
<1>8. TypeOK'
  BY <1>3, <1>4, <1>5, <1>6 DEF IInv, TypeOK, AppendsAs, Goto, stop, history, Callers, Reported
<1>9. todo' = <<Finished(n, o)>> /\ caller' = "task"
  BY <1>4 DEF AppendsAs
<1>10. FinishWriting(n, o)'
  BY <1>1, <1>3, <1>6, <1>7, <1>9 DEF FinishWriting
<1> HIDE DEF y
<1>11. Writing(n)' /\ TaskScript'
  BY <1>5, <1>10 DEF Writing, TaskScript
<1>12. todo' \in Seq(Event) /\ todo' # << >>
  BY <1>5, <1>9, EventTypes, TodoForms
<1> QED
  BY <1>1, <1>2, <1>3, <1>6, <1>7, <1>8, <1>9, <1>11, <1>12, TaskStep DEF IInv, Recorded

\* After a revise verdict there is always something to append.
LEMMA AfterReviseTyped ==
  ASSUME NEW t \in Ids, NEW n \in Ids, NEW L
  PROVE  AfterRevise(L, t, n) \in Seq(Event) /\ AfterRevise(L, t, n) # << >>
<1>1. /\ Rework(t) \in Ids /\ Rework(n) \in Ids
      /\ GateExhausted(t) \in Event /\ ReworkOf(t, n) \in Event
  BY NodePairs, EventTypes
<1>2. GateOpened(Rework(t)) \in Event /\ GateOpened(Rework(n)) \in Event
  BY <1>1, EventTypes
<1>3. ASSUME NEW a \in Event, NEW b \in Event, NEW c \in Event, NEW p \in BOOLEAN, NEW q \in BOOLEAN
      PROVE  /\ <<a>> \o When(p, <<b>>) \o When(q, <<c>>) \in Seq(Event)
             /\ <<a>> \o When(p, <<b>>) \o When(q, <<c>>) # << >>
  BY DEF When
<1>4. NeedsApproval(L, Rework(t)) \in BOOLEAN /\ NeedsApproval(L, Rework(n)) \in BOOLEAN
  BY DEF NeedsApproval
<1>5. <<GateExhausted(t)>> \in Seq(Event) /\ <<GateExhausted(t)>> # << >>
  BY <1>1
<1> QED
  BY <1>1, <1>2, <1>3, <1>4, <1>5 DEF AfterRevise

\* The nodes and their revisions are finitely many.
LEMMA FiniteNodes == IsFiniteSet(Ids)
<1>1. IsFiniteSet({0, 1})
  <2>1. {0, 1} = {0} \cup {1}
    OBVIOUS
  <2>2. IsFiniteSet({0}) /\ IsFiniteSet({1})
    BY FS_Singleton
  <2>3. IsFiniteSet({0} \cup {1})
    BY <2>2, FS_Union, Zenon
  <2> QED
    BY <2>1, <2>3
<1> QED
  BY <1>1, PlanAssumption, FS_Product DEF Ids

\* A verifier of one node judges that node.
LEMMA SingleTarget ==
  ASSUME NEW n \in Ids, Cardinality(DepsOf(n)) = 1
  PROVE  \E t \in Ids : DepsOf(n) = {t} /\ (CHOOSE u \in DepsOf(n) : TRUE) = t
<1>1. DepsOf(n) \in SUBSET Ids
  BY NodePairs
<1>2. PICK t : DepsOf(n) = {t}
  BY <1>1, FiniteNodes, FS_Subset, FS_Singleton
<1> QED
  BY <1>1, <1>2

\* Reading a verifier's verdict, or finding none, keeps the invariant.
LEMMA VerdictKeeps ==
  ASSUME IInv, NEW n \in Ids, VerdictPublished(n) \/ NoVerdict(n) PROVE IInv'
<1>1. /\ MayRun /\ pc[n] = "verdict" /\ pc[n] # "none" /\ caller = "none" /\ Recorded(n)
      /\ led.node[n] \in {"awaiting_verification", "failed"}
      /\ IsVerifier(n) /\ led.verdict[n] = "none"
      /\ led.terminal # "none" => Quiet(n)
  BY Found DEF VerdictPublished, NoVerdict, At, Resting
<1>2. led.terminal = "none"
  BY <1>1 DEF Quiet
<1>3. UNCHANGED <<led, up, wave, adv, stop, lost, res, launched>>
  BY DEF VerdictPublished, NoVerdict, history
<1>4. Goto(n, "collect") /\ pc'[n] = "collect" /\ "collect" \in Stations \ {"none"}
  BY DEF VerdictPublished, NoVerdict, Goto, IInv, TypeOK, Stations
<1>5. CASE NoVerdict(n)
  <2>1. TypeOK'
    BY <1>3, <1>4, <1>5 DEF NoVerdict, IInv, TypeOK, Goto, stop, history
  <2>2. todo' = todo /\ caller' = caller
    BY <1>5 DEF NoVerdict
  <2>3. Resting(n)'
    BY <1>1, <1>3, <1>4 DEF Resting, Settled
  <2> QED
    BY <1>1, <1>2, <1>3, <1>4, <2>1, <2>2, <2>3, SilentStep DEF IInv, Recorded
<1>6. CASE VerdictPublished(n)
  <2> DEFINE v(k) == Verdict(n, DepsOf(n), k)
             follow(k) == When(k = "revise" /\ Cardinality(DepsOf(n)) = 1,
                               AfterRevise(led, CHOOSE t \in DepsOf(n) : TRUE, n))
  <2>1. PICK k \in Judgements \ {"none"} :
          /\ AppendsAs("task", <<v(k)>> \o follow(k))
          /\ asked' = IF k = "revise" THEN asked \cup {n} ELSE asked
    BY <1>6 DEF VerdictPublished
  <2>2. k \in Verdicts /\ DepsOf(n) \in SUBSET Ids
    BY EngineAssumption, NodePairs
  <2>3. v(k) \in Event
    BY <2>2, EventTypes
  <2>4. /\ todo' \in Seq(Event) /\ todo' # << >> /\ caller' = "task"
        /\ VerdictWriting(n, k)'
    <3>1. CASE k = "revise" /\ Cardinality(DepsOf(n)) = 1
      <4>1. PICK t \in Ids : DepsOf(n) = {t} /\ (CHOOSE u \in DepsOf(n) : TRUE) = t
        BY <3>1, SingleTarget
      <4>2. <<v(k)>> \o follow(k) = <<v(k)>> \o AfterRevise(led, t, n)
        BY <3>1, <4>1 DEF When
      <4> HIDE DEF v, follow
      <4>3. <<v(k)>> \o AfterRevise(led, t, n) \in Seq(Event)
            /\ <<v(k)>> \o AfterRevise(led, t, n) # << >>
        BY <2>3, AfterReviseTyped
      <4>4. todo' = <<v(k)>> \o AfterRevise(led, t, n) /\ caller' = "task"
        BY <2>1, <4>2, <4>3 DEF AppendsAs
      <4>5. AfterRevise(led', t, n) = AfterRevise(led, t, n)
        BY <1>3
      <4>6. todo' = <<Verdict(n, DepsOf(n), k)>> \o AfterRevise(led', t, n)
        BY <4>4, <4>5 DEF v
      <4>7. led' = led
        BY <1>3
      <4>8. VerdictWriting(n, k)'
        BY <1>1, <1>4, <3>1, <4>1, <4>6, <4>7 DEF VerdictWriting
      <4> QED
        BY <4>3, <4>4, <4>8
    <3>2. CASE ~(k = "revise" /\ Cardinality(DepsOf(n)) = 1)
      <4>0. follow(k) = << >>
        BY <3>2 DEF When
      <4> HIDE DEF v, follow
      <4>1. <<v(k)>> \o follow(k) = <<v(k)>>
        BY <2>3, <4>0
      <4>2. todo' = <<v(k)>> /\ caller' = "task"
        BY <2>1, <4>1 DEF AppendsAs
      <4>3. VerdictWriting(n, k)'
        BY <1>1, <1>3, <1>4, <4>2 DEF VerdictWriting, v
      <4> QED
        BY <2>3, <4>2, <4>3, TodoForms
    <3> QED BY <3>1, <3>2
  <2>5. Writing(n)' /\ TaskScript'
    BY <2>2, <2>4 DEF Writing, TaskScript
  <2>6. TypeOK'
    BY <1>3, <1>4, <1>6, <2>1, <2>4 DEF VerdictPublished, IInv, TypeOK, Goto, stop, Callers
  <2> QED
    BY <1>1, <1>2, <1>3, <1>4, <2>4, <2>5, <2>6, TaskStep DEF IInv, Recorded
<1> QED
  BY <1>5, <1>6

\* collect returning keeps the invariant.
LEMMA CollectedKeeps == ASSUME IInv, NEW n \in Ids, Collected(n) PROVE IInv'
<1>1. /\ MayRun /\ pc[n] = "collect" /\ pc[n] # "none" /\ caller = "none" /\ todo = << >>
      /\ Recorded(n) /\ led.node[n] \in Settled
      /\ res[n] = "succeeded" /\ ~IsVerifier(n) => led.node[n] = "awaiting_verification"
      /\ led.terminal # "none" => Quiet(n)
  BY Found DEF Collected, At, Resting
<1>2. led.terminal = "none"
  BY <1>1 DEF Quiet
<1>3. UNCHANGED <<led, up, wave, adv, stop, lost, res, launched>>
  BY DEF Collected, history
<1>4. Goto(n, "release") /\ pc'[n] = "release" /\ "release" \in Stations \ {"none"}
  BY DEF Collected, Goto, IInv, TypeOK, Stations
<1>5. TypeOK'
  BY <1>3, <1>4 DEF Collected, IInv, TypeOK, AppendsAs, Goto, stop, history, Callers
<1>6. CASE res[n] = "succeeded" /\ n[1] \in Deterministic
  <2>1. todo' = <<Verdict(n, {n}, "pass")>> /\ caller' = "task"
    BY <1>6 DEF Collected, AppendsAs, When
  <2>2. ~IsVerifier(n)
    BY <1>6, PlanAssumption DEF IsVerifier
  <2>3. PassWriting(n)'
    BY <1>1, <1>3, <1>4, <1>6, <2>1, <2>2 DEF PassWriting
  <2>4. Writing(n)' /\ TaskScript'
    BY <2>3 DEF Writing, TaskScript
  <2>5. Verdict(n, {n}, "pass") \in Event
    <3>1. {n} \in SUBSET Ids /\ "pass" \in Verdicts
      BY DEF Verdicts
    <3> QED
      BY <3>1, EventTypes
  <2>6. todo' \in Seq(Event) /\ todo' # << >>
    BY <2>1, <2>5, TodoForms
  <2> QED
    BY <1>1, <1>2, <1>3, <1>4, <1>5, <2>1, <2>4, <2>6, TaskStep DEF IInv, Recorded
<1>7. CASE ~(res[n] = "succeeded" /\ n[1] \in Deterministic)
  <2>1. todo' = todo /\ caller' = caller
    BY <1>1, <1>7 DEF Collected, AppendsAs, When
  <2>2. Resting(n)'
    BY <1>1, <1>3, <1>4 DEF Resting
  <2> QED
    BY <1>1, <1>2, <1>3, <1>4, <1>5, <2>1, <2>2, SilentStep DEF IInv, Recorded
<1> QED
  BY <1>6, <1>7

\* release returning, and the decision on a retry, keep the invariant.
LEMMA ReleasedKeeps == ASSUME IInv, NEW n \in Ids, Released(n) PROVE IInv'
<1>1. /\ MayRun /\ pc[n] = "release" /\ pc[n] # "none" /\ caller = "none" /\ todo = << >>
      /\ Recorded(n) /\ led.node[n] \in Settled
      /\ led.terminal # "none" => Quiet(n)
  BY Found DEF Released, At, Resting
<1>2. led.terminal = "none"
  BY <1>1 DEF Quiet
<1>3. UNCHANGED <<led, up, wave, adv, stop, lost, launched>>
  BY DEF Released, history
<1>4. /\ pc \in [Ids -> Stations] /\ {"session", "ended"} \subseteq Stations \ {"none"}
      /\ res \in [Ids -> {"none"} \cup Outcomes]
  BY DEF IInv, TypeOK, Stations
<1>5. res' = [res EXCEPT ![n] = "none"] /\ \A m \in Ids \ {n} : res'[m] = res[m]
  BY <1>4 DEF Released
<1>6. res' \in [Ids -> {"none"} \cup Outcomes]
  BY <1>4, <1>5
<1>7. CASE Goto(n, "ended") /\ NoAppend
  <2>1. pc'[n] = "ended" /\ todo' = todo /\ caller' = caller
    BY <1>4, <1>7 DEF Goto, NoAppend
  <2>2. Resting(n)'
    BY <1>1, <1>3, <2>1 DEF Resting, Settled, InFlightStates
  <2>3. TypeOK'
    BY <1>3, <1>4, <1>6, <1>7, <2>1 DEF Released, IInv, TypeOK, Goto, stop, history
  <2> QED
    BY <1>1, <1>2, <1>3, <1>4, <1>5, <1>7, <2>1, <2>2, <2>3, SilentStep DEF IInv, Recorded
<1>8. CASE /\ Goto(n, "session") /\ AppendsAs("task", <<Retried(n)>>)
           /\ led.node[n] = "outcome_unknown" /\ n \notin led.retried
  <2>1. pc'[n] = "session" /\ todo' = <<Retried(n)>> /\ caller' = "task"
    BY <1>4, <1>8 DEF Goto, AppendsAs
  <2>2. RetryWriting(n)'
    BY <1>3, <1>8, <2>1 DEF RetryWriting
  <2>3. Writing(n)' /\ TaskScript'
    BY <2>2 DEF Writing, TaskScript
  <2>4. todo' \in Seq(Event) /\ todo' # << >>
    BY <2>1, EventTypes, TodoForms
  <2>5. TypeOK'
    BY <1>3, <1>4, <1>6, <1>8, <2>1 DEF Released, IInv, TypeOK, Goto, stop, history, Callers
  <2> QED
    BY <1>1, <1>2, <1>3, <1>4, <1>5, <1>8, <2>1, <2>3, <2>4, <2>5, TaskStep DEF IInv, Recorded
<1>9. CASE /\ Goto(n, "ended") /\ AppendsAs("task", <<Status(n, "blocked")>>)
           /\ led.node[n] = "outcome_unknown" /\ n \in led.retried
  <2>1. pc'[n] = "ended" /\ todo' = <<Status(n, "blocked")>> /\ caller' = "task"
    BY <1>4, <1>9 DEF Goto, AppendsAs
  <2>2. BlockWriting(n)'
    BY <1>3, <1>9, <2>1 DEF BlockWriting
  <2>3. Writing(n)' /\ TaskScript'
    BY <2>2 DEF Writing, TaskScript
  <2>4. todo' \in Seq(Event) /\ todo' # << >>
    BY <2>1, EventTypes, TodoForms
  <2>5. TypeOK'
    BY <1>3, <1>4, <1>6, <1>9, <2>1 DEF Released, IInv, TypeOK, Goto, stop, history, Callers
  <2> QED
    BY <1>1, <1>2, <1>3, <1>4, <1>5, <1>9, <2>1, <2>3, <2>4, <2>5, TaskStep DEF IInv, Recorded
<1>10. CASE led.node[n] # "outcome_unknown" \/ res[n] \notin Retryable
  <2>1. Goto(n, "ended") /\ NoAppend
    BY <1>10 DEF Released
  <2> QED
    BY <1>7, <2>1
<1>11. CASE /\ ~(led.node[n] # "outcome_unknown" \/ res[n] \notin Retryable)
            /\ n \notin led.retried
  BY <1>8, <1>11 DEF Released
<1>12. CASE /\ ~(led.node[n] # "outcome_unknown" \/ res[n] \notin Retryable)
            /\ n \in led.retried
  <2>1. Goto(n, "ended") /\ AppendsAs("task", <<Status(n, "blocked")>>)
    BY <1>12 DEF Released
  <2> QED
    BY <1>9, <1>12, <2>1
<1> QED
  BY <1>10, <1>11, <1>12

\* Every step of a coroutine keeps the invariant.
LEMMA ExecuteNodeKeeps == ASSUME IInv, NEW n \in Ids, ExecuteNode(n) PROVE IInv'
<1>1. CASE LaunchFails(n)
  <2>1. PICK o \in LaunchErrors : GivesUp(n, o)
    BY <1>1 DEF LaunchFails
  <2>2. o \in {"startup_failure", "outcome_unknown"} /\ MayRun /\ pc[n] = "launch"
    BY <1>1, EngineAssumption DEF LaunchFails, At
  <2> QED
    BY <2>1, <2>2, GivesUpKeeps
<1>2. CASE Breaks(n)
  BY <1>2, GivesUpKeeps DEF Breaks, At
<1> QED
  BY <1>1, <1>2, BeginKeeps, SessionKeeps, LaunchedKeeps, StoppedKeeps, ReportedKeeps, VerdictKeeps,
     CollectedKeeps, ReleasedKeeps DEF ExecuteNode
-----------------------------------------------------------------------------
(* start, advance, cancel, resolve_premium_gate, a refusal, a death *)

\* SetToSeqs lists a finite set
LEMMA Orders ==
  ASSUME NEW S, IsFiniteSet(S), NEW order \in SetToSeqs(S)
  PROVE  /\ order \in Seq(S)
         /\ order = << >> <=> S = {}
         /\ \A x \in S : \E i \in DOMAIN order : order[i] = x
<1> DEFINE k == Cardinality(S)
<1>1. k \in Nat /\ (k = 0 <=> S = {})
  BY FS_CardinalityType, FS_EmptySet
<1>2. order \in [1 .. k -> S] /\ \A i, j \in 1 .. k : i # j => order[i] # order[j]
  BY DEF SetToSeqs
<1>3. order \in Seq(S) /\ (order = << >> <=> S = {})
  BY <1>1, <1>2
<1>4. ASSUME NEW x \in S, \A i \in 1 .. k : order[i] # x PROVE FALSE
  <2>1. IsFiniteSet(S \ {x}) /\ Cardinality(S \ {x}) = k - 1
    BY FS_RemoveElement
  <2>2. IsFiniteSet(1 .. k) /\ Cardinality(1 .. k) = k
    BY <1>1, FS_Interval
  <2>3. order \in [1 .. k -> S \ {x}]
    BY <1>2, <1>4
  <2>4. Cardinality(S \ {x}) < Cardinality(1 .. k)
    BY <1>1, <2>1, <2>2
  <2> HIDE DEF k
  <2> QED
    <3>1. \E i, j \in 1 .. k : i # j /\ order[i] = order[j]
      BY <2>1, <2>2, <2>3, <2>4, FS_PigeonHole, Zenon
    <3> QED
      BY <1>2, <3>1
<1> QED
  BY <1>2, <1>3, <1>4

\* Nothing happens to the nodes between two scripts
LEMMA NodesStay ==
  ASSUME IInv, caller = "none", UNCHANGED <<led, up, pc, res, launched, lost>>
  PROVE  NodesFit'
<1> SUFFICES ASSUME NEW n \in Ids PROVE Resting(n)' /\ Taken(n)' /\ Recorded(n)' /\ Dropped(n)'
  BY DEF NodesFit
<1>1. Resting(n) /\ Taken(n) /\ Recorded(n) /\ Dropped(n)
  BY DEF IInv, NodesFit
<1>2. Resting(n)'
  BY <1>1 DEF Resting, Fresh
<1> QED
  BY <1>1, <1>2 DEF Taken, Recorded, Dropped

\* What the loop finds between two scripts
LEMMA Between ==
  ASSUME IInv, todo = << >>
  PROVE  /\ caller = "none" /\ led \in Ledger
         /\ led.terminal # "none" => \A n \in Ids : pc[n] \in {"none", "begin", "session", "ended"}
BY DEF IInv, ScriptFits, TypeOK, Control, Quiet

\* The call of cancel keeps the invariant.
LEMMA CancelKeeps == ASSUME IInv, Cancel PROVE IInv'
<1>1. /\ up /\ todo = << >> /\ caller = "none" /\ led.terminal = "none"
      /\ UNCHANGED <<led, up, pc, res, wave, adv, launched, raised, asked, lost, failures, crashes>>
  BY Between DEF Cancel, LoopFree, tasks
<1>2. PICK order \in SetToSeqs(OpenGates(led)) :
        AppendsAs("cancel", [i \in DOMAIN order |-> GateResolved(order[i], "cancelled")])
  BY DEF Cancel
<1>3. order \in Seq(Ids)
  <2>1. OpenGates(led) \in SUBSET Ids
    BY DEF OpenGates
  <2>2. IsFiniteSet(OpenGates(led))
    BY <2>1, FiniteNodes, FS_Subset
  <2>3. order \in Seq(OpenGates(led))
    BY <2>2, Orders
  <2> QED
    BY <2>1, <2>3
<1>4. todo' = [i \in DOMAIN order |-> GateResolved(order[i], "cancelled")]
  BY <1>2 DEF AppendsAs
<1>5. \A i \in DOMAIN todo' : todo'[i] \in Event /\ \E m \in Ids : todo'[i] = GateResolved(m, "cancelled")
  <2>1. \A m \in Ids : GateResolved(m, "cancelled") \in Event
    BY EventTypes DEF Decisions
  <2> QED
    BY <1>3, <1>4, <2>1
<1>6. todo' \in Seq(Event)
  BY <1>3, <1>4, <1>5
<1>7. caller' = IF todo' = << >> THEN "none" ELSE "cancel"
  BY <1>2 DEF AppendsAs
<1>8. /\ reason' = TRUE /\ cancels' \in 0 .. MaxCancels
      /\ canc' \in {"dispatches", "tasks", "nodes"} /\ awaited' \in {Dispatches, wave}
      /\ canc' = "tasks" => wave # {} /\ awaited' = wave
      /\ canc' = "nodes" => wave = {}
  BY EngineAssumption DEF Cancel, IInv, TypeOK
<1>9. TypeOK'
  BY <1>1, <1>7, <1>8 DEF IInv, TypeOK, Callers, Dispatches
<1>10. ScriptFits'
  BY <1>5, <1>7, <1>8 DEF ScriptFits, CancelScript
<1>11. Control'
  BY <1>1, <1>8 DEF IInv, Control, CancelIsNext, Idle
<1> QED
  BY <1>1, <1>6, <1>9, <1>10, <1>11, NodesStay DEF IInv, TodoTyped

\* What cancel waits for, ending, keeps the invariant.
LEMMA WaitKeeps == ASSUME IInv, DispatchesStopped \/ TasksGathered PROVE IInv'
<1>1. /\ up /\ todo = << >> /\ caller = "none"
      /\ UNCHANGED <<led, up, todo, caller, pc, res, wave, adv, reason, launched, raised,
                     asked, lost, failures, crashes, cancels>>
  BY Between DEF DispatchesStopped, TasksGathered, LoopFree, tasks, history
<1>2. /\ canc' \in {"raised", "tasks", "nodes"} /\ awaited' \subseteq Ids
      /\ canc' = "tasks" => wave # {} /\ awaited' = wave
      /\ canc' = "nodes" => wave = {} \/ CancelIsNext
  BY DEF DispatchesStopped, TasksGathered, IInv, TypeOK
<1>3. TypeOK'
  BY <1>1, <1>2 DEF IInv, TypeOK
<1>4. ScriptFits'
  BY <1>1 DEF ScriptFits
<1>5. Control'
  BY <1>1, <1>2 DEF IInv, Control, CancelIsNext, Idle, Quiet
<1> QED
  BY <1>1, <1>3, <1>4, <1>5, NodesStay DEF IInv, TodoTyped

\* cancel dropping the nodes one by one keeps the invariant.
LEMMA CancelNodeKeeps == ASSUME IInv, CancelNode \/ CancelEnds PROVE IInv'
<1>1. /\ up /\ todo = << >> /\ caller = "none" /\ led \in Ledger /\ canc = "nodes" /\ Idle
      /\ UNCHANGED <<led, up, pc, res, wave, adv, awaited, reason, launched, raised,
                     asked, lost, failures, crashes, cancels>>
      /\ canc' \in {"nodes", "done"}
  BY Between DEF CancelNode, CancelEnds, IInv, Control, tasks, history, stop
<1>2. todo' \in Seq(Event) /\ todo' # << >> /\ caller' = "cancel" /\ CancelScript'
  <2>1. CASE CancelNode
    <3>1. PICK n \in Unfinished :
            AppendsAs("cancel", When(led.node[n] = "pending", <<Status(n, "ready")>>)
                                \o <<Status(n, "cancelled")>>)
      BY <2>1 DEF CancelNode
    <3>2. n \in Ids /\ Status(n, "ready") \in Event /\ Status(n, "cancelled") \in Event
      BY EventTypes DEF Unfinished, Nodes
    <3>3. led.node[n] \notin InFlightStates
      BY <1>1, <3>2 DEF IInv, NodesFit, Resting, Idle, Unstarted, InFlightStates
    <3>4. canc' = "nodes"
      BY <1>1, <2>1 DEF CancelNode, stop
    <3>5. CASE led.node[n] = "pending"
      <4>1. When(led.node[n] = "pending", <<Status(n, "ready")>>) \o <<Status(n, "cancelled")>>
              = <<Status(n, "ready"), Status(n, "cancelled")>>
        BY <3>2, <3>5, TodoForms DEF When
      <4>2. todo' = <<Status(n, "ready"), Status(n, "cancelled")>> /\ caller' = "cancel"
        BY <3>1, <4>1 DEF AppendsAs
      <4>3. Dropping(n)'
        BY <1>1, <3>3, <3>5, <4>2 DEF Dropping
      <4> QED
        BY <3>2, <3>4, <4>2, <4>3, TodoForms DEF CancelScript
    <3>6. CASE led.node[n] # "pending"
      <4>1. When(led.node[n] = "pending", <<Status(n, "ready")>>) \o <<Status(n, "cancelled")>>
              = <<Status(n, "cancelled")>>
        BY <3>2, <3>6, TodoForms DEF When
      <4>2. todo' = <<Status(n, "cancelled")>> /\ caller' = "cancel"
        BY <3>1, <4>1 DEF AppendsAs
      <4>3. Dropping(n)'
        BY <1>1, <3>3, <4>2 DEF Dropping
      <4> QED
        BY <3>2, <3>4, <4>2, <4>3, TodoForms DEF CancelScript
    <3> QED BY <3>5, <3>6
  <2>2. CASE CancelEnds
    <3>1. todo' = <<Terminal("cancelled")>> /\ caller' = "cancel"
      BY <2>2 DEF CancelEnds, AppendsAs
    <3>2. Terminal("cancelled") \in Event
      BY EventTypes DEF Terminals
    <3> QED
      BY <1>1, <3>1, <3>2, TodoForms DEF CancelScript, Idle
  <2> QED BY <2>1, <2>2
<1>3. TypeOK'
  BY <1>1, <1>2 DEF IInv, TypeOK, Callers
<1>4. ScriptFits'
  BY <1>2 DEF ScriptFits
<1>5. Control'
  BY <1>1 DEF IInv, Control, CancelIsNext, Idle, Quiet
<1> QED
  BY <1>1, <1>2, <1>3, <1>4, <1>5, NodesStay DEF IInv, TodoTyped

\* The three steps of a skip
LEMMA SkipForms ==
  ASSUME NEW e \in Event, NEW f \in Event, NEW g \in Event
  PROVE  /\ <<e, f, g>> \in Seq(Event) /\ <<e, f, g>> # << >> /\ <<e>> \o <<f, g>> = <<e, f, g>>
         /\ Head(<<e, f, g>>) = e /\ Tail(<<e, f, g>>) = <<f, g>>
<1>1. /\ <<e, f, g>> \in Seq(Event) /\ <<e, f, g>> # << >> /\ Len(<<e, f, g>>) = 3
      /\ <<f, g>> \in Seq(Event) /\ Len(<<f, g>>) = 2
      /\ <<e>> \in Seq(Event) /\ Len(<<e>>) = 1
      /\ Head(<<e, f, g>>) = e
  OBVIOUS
<1>2. <<e>> \o <<f, g>> = <<e, f, g>>
  <2>1. /\ <<e>> \o <<f, g>> \in Seq(Event) /\ Len(<<e>> \o <<f, g>>) = 3
        /\ (<<e>> \o <<f, g>>)[1] = e /\ (<<e>> \o <<f, g>>)[2] = f /\ (<<e>> \o <<f, g>>)[3] = g
    BY <1>1, ConcatProperties
  <2>2. \A i \in 1 .. Len(<<e>> \o <<f, g>>) : (<<e>> \o <<f, g>>)[i] = <<e, f, g>>[i]
    BY <2>1
  <2> QED
    BY <1>1, <2>1, <2>2, SeqEqual
<1>3. Tail(<<e, f, g>>) = <<f, g>>
  <2>1. /\ Tail(<<e, f, g>>) \in Seq(Event) /\ Len(Tail(<<e, f, g>>)) = 2
        /\ Tail(<<e, f, g>>)[1] = f /\ Tail(<<e, f, g>>)[2] = g
    BY <1>1, HeadTailProperties
  <2>2. \A i \in 1 .. Len(Tail(<<e, f, g>>)) : Tail(<<e, f, g>>)[i] = <<f, g>>[i]
    BY <2>1
  <2> QED
    BY <1>1, <2>1, <2>2, SeqEqual
<1> QED
  BY <1>1, <1>2, <1>3

\* What is appended for a human's answer to a premium gate
LEMMA ResolveScripts ==
  ASSUME IInv, ResolvePremiumGate
  PROVE  \E n \in Ids, d \in Decisions :
           /\ led.gate[n] = "open" /\ caller' = "user"
           /\ \/ d # "skip" /\ todo' = <<GateResolved(n, d)>>
              \/ /\ d = "skip" /\ led.node[n] = "pending"
                 /\ todo' = <<GateResolved(n, d), Status(n, "ready"), Status(n, "cancelled")>>
              \/ /\ d = "skip" /\ led.node[n] # "pending"
                 /\ todo' = <<GateResolved(n, d), Status(n, "cancelled")>>
<1>1. PICK n \in OpenGates(led), d \in GateChoices :
        AppendsAs("user", <<GateResolved(n, d)>> \o
            When(d = "skip", When(led.node[n] = "pending", <<Status(n, "ready")>>)
                             \o <<Status(n, "cancelled")>>))
  BY DEF ResolvePremiumGate
<1>2. n \in Ids /\ led.gate[n] = "open" /\ d \in Decisions
  BY EngineAssumption DEF OpenGates, Decisions
<1> DEFINE g == GateResolved(n, d)
           r == Status(n, "ready")
           c == Status(n, "cancelled")
<1>3. g \in Event /\ r \in Event /\ c \in Event
  BY <1>2, EventTypes
<1>4. AppendsAs("user", <<g>> \o When(d = "skip", When(led.node[n] = "pending", <<r>>) \o <<c>>))
  BY <1>1
<1> HIDE DEF g, r, c
<1>5. CASE d # "skip"
  <2>1. todo' = <<g>> \o << >>
    BY <1>4, <1>5 DEF AppendsAs, When
  <2>2. todo' = <<g>> /\ todo' # << >>
    BY <1>3, <2>1, TodoForms, ConcatEmptySeq
  <2> QED
    BY <1>2, <1>4, <1>5, <2>2 DEF AppendsAs, g
<1>6. CASE d = "skip" /\ led.node[n] = "pending"
  <2>1. todo' = <<g>> \o (<<r>> \o <<c>>)
    BY <1>4, <1>6 DEF AppendsAs, When
  <2>2. <<r>> \o <<c>> = <<r, c>>
    BY <1>3, TodoForms
  <2>3. <<g>> \o <<r, c>> = <<g, r, c>>
    BY <1>3, SkipForms
  <2>4. todo' = <<g, r, c>>
    BY <2>1, <2>2, <2>3
  <2>5. caller' = "user"
    BY <1>4 DEF AppendsAs
  <2>6. todo' = <<GateResolved(n, d), Status(n, "ready"), Status(n, "cancelled")>>
    BY <2>4 DEF g, r, c
  <2> QED
    BY <1>2, <1>6, <2>5, <2>6
<1>7. CASE d = "skip" /\ led.node[n] # "pending"
  <2>1. todo' = <<g>> \o (<< >> \o <<c>>)
    BY <1>4, <1>7 DEF AppendsAs, When
  <2>2. todo' = <<g, c>> /\ todo' # << >>
    BY <1>3, <2>1, TodoForms
  <2> QED
    BY <1>2, <1>4, <1>7, <2>2 DEF AppendsAs, g, c
<1> QED
  BY <1>5, <1>6, <1>7

\* A human's answer to a premium gate keeps the invariant.
LEMMA ResolveKeeps == ASSUME IInv, ResolvePremiumGate PROVE IInv'
<1>1. /\ up /\ todo = << >> /\ caller = "none" /\ led.terminal = "none"
      /\ UNCHANGED <<led, up, pc, res, wave, adv, canc, awaited, reason, launched, raised,
                     asked, lost, failures, crashes, cancels>>
  BY Between DEF ResolvePremiumGate, LoopFree, tasks, stop, history
<1>2. PICK n \in Ids, d \in Decisions :
        /\ led.gate[n] = "open" /\ caller' = "user"
        /\ \/ d # "skip" /\ todo' = <<GateResolved(n, d)>>
           \/ /\ d = "skip" /\ led.node[n] = "pending"
              /\ todo' = <<GateResolved(n, d), Status(n, "ready"), Status(n, "cancelled")>>
           \/ /\ d = "skip" /\ led.node[n] # "pending"
              /\ todo' = <<GateResolved(n, d), Status(n, "cancelled")>>
  BY ResolveScripts
<1>3. pc[n] = "none" /\ led.attempts[n] = << >> /\ led.node[n] \in Unstarted
  BY <1>2 DEF IInv, NodesFit, Taken, Sound, GateFits
<1>4. GateResolved(n, d) \in Event /\ Status(n, "ready") \in Event /\ Status(n, "cancelled") \in Event
  BY EventTypes
<1> DEFINE g == GateResolved(n, d)
           r == Status(n, "ready")
           c == Status(n, "cancelled")
<1>5. todo' \in Seq(Event) /\ todo' # << >>
  <2>1. todo' = <<g>> \/ todo' = <<g, r, c>> \/ todo' = <<g, c>>
    BY <1>2
  <2>2. g \in Event /\ r \in Event /\ c \in Event
    BY <1>4
  <2> HIDE DEF g, r, c
  <2>3. /\ <<g>> \in Seq(Event) /\ <<g>> # << >>
        /\ <<g, c>> \in Seq(Event) /\ <<g, c>> # << >>
    BY <2>2, TodoForms
  <2>4. <<g, r, c>> \in Seq(Event) /\ <<g, r, c>> # << >>
    BY <2>2, SkipForms
  <2> QED
    BY <2>1, <2>3, <2>4
<1>6. UserScript'
  <2>1. CASE d # "skip"
    BY <1>2, <2>1 DEF UserScript
  <2>2. CASE d = "skip"
    <3>1. Skipping(n)'
      BY <1>1, <1>2, <1>3, <2>2 DEF Skipping
    <3> QED
      BY <3>1 DEF UserScript
  <2> QED BY <2>1, <2>2
<1>7. TypeOK'
  BY <1>1, <1>2 DEF IInv, TypeOK, Callers
<1>8. ScriptFits'
  BY <1>2, <1>5, <1>6 DEF ScriptFits
<1>9. Control'
  BY <1>1 DEF IInv, Control, CancelIsNext, Idle, Quiet
<1> QED
  BY <1>1, <1>5, <1>7, <1>8, <1>9, NodesStay DEF IInv, TodoTyped

\* What a new engine object, or a caller whose append was refused, is left with
LEMMA ForgottenFits ==
  ASSUME IInv, Forgotten, UNCHANGED <<led, launched>>,
         \A n \in lost' : n \in Ids =>
           led.node[n] \in InFlightStates \cup {"outcome_unknown", "cancelled"}
  PROVE  TodoTyped' /\ Control' /\ ScriptFits' /\ NodesFit'
<1>1. /\ ~up' /\ todo' = << >> /\ caller' = "none" /\ adv' = "idle" /\ wave' = {}
      /\ canc' = "none" /\ led' = led /\ launched' = launched
      /\ \A n \in Ids : pc'[n] = "none"
  BY DEF Forgotten
<1>2. Control'
  BY <1>1 DEF Control, CancelIsNext, Quiet
<1>3. ScriptFits'
  BY <1>1 DEF ScriptFits
<1>4. ASSUME NEW n \in Ids PROVE Resting(n)' /\ Taken(n)' /\ Recorded(n)' /\ Dropped(n)'
  <2>1. Recorded(n)
    BY DEF IInv, NodesFit
  <2>2. Resting(n)'
    BY <1>1 DEF Resting
  <2> QED
    BY <1>1, <2>1, <2>2 DEF Taken, Recorded, Dropped
<1> QED
  BY <1>1, <1>2, <1>3, <1>4, TodoForms DEF TodoTyped, NodesFit

\* The death of the process at any await or between any two appends keeps the invariant.
LEMMA CrashKeeps == ASSUME IInv, Crash PROVE IInv'
<1>1. /\ Forgotten /\ UNCHANGED <<led, launched, raised, asked, failures, cancels>>
      /\ lost' = lost \cup {n \in Ids : HasAttemptInFlight(led, n)}
  BY DEF Crash
<1>2. crashes' \in 0 .. MaxCrashes
  BY EngineAssumption DEF Crash, IInv, TypeOK
<1>3. TypeOK'
  BY <1>1, <1>2 DEF IInv, TypeOK, Forgotten, Stations
<1>4. ASSUME NEW n \in Ids, HasAttemptInFlight(led, n) PROVE led.node[n] \in InFlightStates
  <2>1. led \in Ledger /\ AttemptsFit(led, n)
    BY DEF IInv, Sound
  <2>2. led.node[n] \in NodeState
    BY <2>1 DEF Ledger
  <2> QED
    BY <1>4, <2>1, <2>2, LastStates DEF AttemptsFit, Left, InFlight, InFlightStates, NodeState
<1>5. ASSUME NEW n \in lost', n \in Ids
      PROVE  led.node[n] \in InFlightStates \cup {"outcome_unknown", "cancelled"}
  BY <1>1, <1>4, <1>5 DEF IInv, NodesFit, Dropped
<1> QED
  BY <1>1, <1>3, <1>5, ForgottenFits DEF IInv

\* An append the reducer refuses keeps the invariant.
LEMMA RefusedKeeps == ASSUME IInv, Refused PROVE IInv'
<1>1. /\ todo # << >> /\ raised' = raised \cup {caller}
      /\ UNCHANGED <<led, launched, asked, lost, failures, crashes, cancels>>
  BY DEF Refused
<1>2. caller \in Callers
  BY <1>1 DEF IInv, ScriptFits, TypeOK
<1>3. CASE caller \in {"start", "task", "advance"}
  <2>1. Forgotten
    BY <1>3 DEF Refused
  <2>2. TypeOK'
    BY <1>1, <1>2, <2>1 DEF IInv, TypeOK, Forgotten, Stations
  <2>3. \A n \in lost' : n \in Ids =>
          led.node[n] \in InFlightStates \cup {"outcome_unknown", "cancelled"}
    BY <1>1 DEF IInv, NodesFit, Dropped
  <2> QED
    BY <1>1, <2>1, <2>2, <2>3, ForgottenFits DEF IInv
<1>4. CASE caller \notin {"start", "task", "advance"}
  <2>1. /\ todo' = << >> /\ caller' = "none" /\ canc' \in {canc, "raised"}
        /\ UNCHANGED <<up, pc, res, wave, adv, awaited, reason>>
    BY <1>4 DEF Refused, tasks
  <2>2. TypeOK'
    BY <1>1, <1>2, <2>1 DEF IInv, TypeOK
  <2>3. up
    BY <1>1 DEF IInv, Control
  <2>4. Control'
    BY <1>1, <1>4, <2>1, <2>3 DEF IInv, Control, CancelIsNext, Idle, Quiet
  <2>5. ASSUME NEW n \in Ids PROVE Resting(n)' /\ Taken(n)' /\ Recorded(n)' /\ Dropped(n)'
    <3>1. Resting(n) /\ Taken(n) /\ Recorded(n) /\ Dropped(n)
      BY <1>4 DEF IInv, NodesFit
    <3>2. Resting(n)'
      BY <1>1, <1>4, <2>1, <3>1 DEF Resting, Fresh
    <3> QED
      BY <1>1, <2>1, <3>1, <3>2 DEF Taken, Recorded, Dropped
  <2> QED
    BY <1>1, <2>1, <2>2, <2>4, <2>5, TodoForms DEF IInv, TodoTyped, ScriptFits, NodesFit
<1> QED
  BY <1>3, <1>4

\* The first start, and a restart with its reconciliation, keep the invariant.
LEMMA StartKeeps == ASSUME IInv, Start PROVE IInv'
<1>1. /\ ~up /\ up' = TRUE /\ led.terminal = "none"
      /\ UNCHANGED <<led, pc, res, wave, adv, canc, awaited, reason, launched, raised,
                     asked, lost, failures, crashes, cancels>>
  BY DEF Start, tasks, stop, history
<1>2. /\ todo = << >> /\ caller = "none" /\ canc = "none" /\ led \in Ledger
      /\ \A n \in Ids : pc[n] = "none"
  BY <1>1, Between DEF IInv, Control
<1>3. /\ todo' \in Seq(Event)
      /\ caller' = IF todo' = << >> THEN "none" ELSE "start"
      /\ caller' = "start" => StartScript'
      /\ \A n \in Ids : led.node[n] \in InFlightStates =>
           caller' = "start" /\ \E i \in DOMAIN todo' : todo'[i] = Reconciled(n)
  <2>1. CASE led.phase = "none"
    <3>1. led = [EmptyLedger EXCEPT !.phase = led.phase]
      BY <2>1 DEF IInv, Sound, Unpublished
    <3>2. /\ \A n \in Ids : led.gate[n] = "none" /\ led.node[n] \in {"pending", "absent"}
          /\ led = [EmptyLedger EXCEPT !.phase = led.phase, !.gate = led.gate]
      <4>1. /\ led.gate = EmptyLedger.gate /\ led.node = EmptyLedger.node
            /\ led = [EmptyLedger EXCEPT !.phase = led.phase, !.gate = EmptyLedger.gate]
        BY <3>1 DEF EmptyLedger
      <4>2. led = [EmptyLedger EXCEPT !.phase = led.phase, !.gate = led.gate]
        BY <4>1
      <4> QED
        BY <4>1, <4>2 DEF EmptyLedger
    <3>3. PICK order \in SetToSeqs(GatesOf(led, Planned)) :
            AppendsAs("start", <<Created, Published>> \o
                               [i \in DOMAIN order |-> GateOpened(order[i])])
      BY <1>1, <2>1 DEF Start
    <3>4. GatesOf(led, Planned) \in SUBSET Planned /\ GatesOf(led, Planned) \in SUBSET Ids
      BY PlannedAreNodes DEF GatesOf
    <3>5. order \in Seq(GatesOf(led, Planned))
      BY <3>4, FiniteNodes, FS_Subset, Orders
    <3> DEFINE gs == [i \in DOMAIN order |-> GateOpened(order[i])]
    <3>6. ASSUME NEW i \in DOMAIN order
          PROVE  order[i] \in Planned /\ order[i][1] \in Premium /\ GateOpened(order[i]) \in Event
      <4>1. order[i] \in GatesOf(led, Planned)
        BY <3>5
      <4> QED
        BY <3>4, <4>1, EventTypes DEF GatesOf, NeedsApproval
    <3>7. gs \in Seq(Event) /\ DOMAIN gs = DOMAIN order /\ \A i \in DOMAIN gs : gs[i] = GateOpened(order[i])
      BY <3>5, <3>6
    <3> HIDE DEF gs
    <3>8. <<Created, Published>> \in Seq(Event) /\ Len(<<Created, Published>>) = 2
      BY EventTypes
    <3>9. todo' = <<Created, Published>> \o gs
      BY <3>3 DEF AppendsAs, gs
    <3>10. /\ todo' \in Seq(Event) /\ Len(todo') = 2 + Len(gs) /\ Len(gs) \in Nat
           /\ \A i \in 1 .. 2 + Len(gs) :
                todo'[i] = IF i <= 2 THEN <<Created, Published>>[i] ELSE gs[i - 2]
      BY <3>7, <3>8, <3>9, ConcatProperties
    <3>11. todo' # << >>
      BY <3>10
    <3>12. ASSUME NEW i \in DOMAIN todo'
           PROVE  \/ todo'[i] \in {Created, Published}
                  \/ \E m \in Planned : todo'[i] = GateOpened(m) /\ m[1] \in Premium
      <4>1. i \in 1 .. 2 + Len(gs)
        BY <3>10
      <4>2. CASE i <= 2
        BY <3>10, <4>1, <4>2
      <4>3. CASE i > 2
        <5>1. i - 2 \in DOMAIN gs /\ todo'[i] = gs[i - 2]
          BY <3>7, <3>10, <4>1, <4>3
        <5> QED
          BY <3>6, <3>7, <5>1
      <4> QED BY <3>10, <4>1, <4>2, <4>3
    <3>13. FirstStart'
      BY <1>1, <3>2, <3>12 DEF FirstStart
    <3> QED
      BY <1>1, <1>2, <3>2, <3>3, <3>10, <3>11, <3>13 DEF AppendsAs, StartScript, InFlightStates
  <2>2. CASE led.phase # "none"
    <3>1. PICK order \in SetToSeqs(InflightAtRestart(led)) :
            AppendsAs("start", [i \in DOMAIN order |-> Reconciled(order[i])])
      BY <2>2 DEF Start
    <3>2. InflightAtRestart(led) \in SUBSET Ids
      BY DEF InflightAtRestart
    <3>3. IsFiniteSet(InflightAtRestart(led))
      BY <3>2, FiniteNodes, FS_Subset
    <3>4. /\ order \in Seq(Ids)
          /\ \A x \in InflightAtRestart(led) : \E i \in DOMAIN order : order[i] = x
      <4>1. order \in Seq(InflightAtRestart(led))
        BY <3>3, Orders
      <4> QED
        BY <3>2, <3>3, <4>1, Orders
    <3>5. todo' = [i \in DOMAIN order |-> Reconciled(order[i])]
      BY <3>1 DEF AppendsAs
    <3>6. /\ todo' \in Seq(Event) /\ DOMAIN todo' = DOMAIN order
          /\ \A i \in DOMAIN todo' : \E m \in Ids : todo'[i] = Reconciled(m)
      BY <3>4, <3>5, EventTypes
    <3>7. ASSUME NEW n \in Ids, led.node[n] \in InFlightStates
          PROVE  \E i \in DOMAIN todo' : todo'[i] = Reconciled(n)
      <4>1. AttemptsFit(led, n)
        BY DEF IInv, Sound
      <4>2. HasAttemptInFlight(led, n)
        BY <1>2, <3>7, <4>1, LastStates DEF AttemptsFit, Left, InFlightStates, InFlight
      <4> QED
        BY <3>4, <3>5, <4>2 DEF InflightAtRestart
    <3>8. todo' = << >> \/ \A n \in Ids : led.node[n] \in InFlightStates => caller' = "start"
      BY <3>1 DEF AppendsAs
    <3>9. \A n \in Ids : led.node[n] \in InFlightStates => todo' # << >>
      BY <3>7
    <3> QED
      BY <1>1, <1>2, <3>1, <3>6, <3>7, <3>8, <3>9 DEF AppendsAs, StartScript, Restart
  <2> QED BY <2>1, <2>2
<1>4. TypeOK'
  BY <1>1, <1>3 DEF IInv, TypeOK, Callers
<1>5. ScriptFits'
  BY <1>3 DEF ScriptFits
<1>6. Control'
  BY <1>1, <1>2 DEF IInv, Control, CancelIsNext, Idle, Quiet
<1>7. ASSUME NEW n \in Ids PROVE Resting(n)' /\ Taken(n)' /\ Recorded(n)' /\ Dropped(n)'
  <2>1. Recorded(n) /\ Dropped(n)
    BY DEF IInv, NodesFit
  <2>2. Resting(n)'
    BY <1>1, <1>2, <1>3 DEF Resting
  <2> QED
    BY <1>1, <1>2, <2>1, <2>2 DEF Taken, Recorded, Dropped
<1> QED
  BY <1>1, <1>3, <1>4, <1>5, <1>6, <1>7 DEF IInv, TodoTyped, NodesFit

\* The scheduler takes no node that waits for another or for a human
LEMMA AdvanceKeeps == ASSUME IInv, Advance PROVE IInv'
<1>1. /\ up /\ todo = << >> /\ caller = "none" /\ canc # "nodes" /\ adv = "idle"
      /\ led.terminal = "none" /\ led \in Ledger /\ wave = {}
      /\ UNCHANGED <<led, up, todo, caller, res, canc, awaited, reason, launched, raised,
                     asked, lost, failures, crashes, cancels>>
      /\ adv' = "waiting"
  BY Between DEF Advance, LoopFree, IInv, Control, stop, history
<1>2. \A n \in Ids : pc[n] = "none"
  BY <1>1 DEF IInv, Control
<1>3. PICK S \in Waves(led) :
        wave' = S /\ pc' = [n \in Ids |-> IF n \in S THEN "begin" ELSE pc[n]]
  BY DEF Advance
<1>4. S \subseteq Candidates(led)
  BY DEF Waves
<1>5. S \subseteq Ids
  BY <1>4 DEF Candidates
<1>6. \A n \in Ids : pc'[n] = IF n \in S THEN "begin" ELSE "none"
  BY <1>2, <1>3
<1>7. TypeOK'
  <2>1. pc' \in [Ids -> Stations]
    BY <1>2, <1>3 DEF Stations
  <2> QED
    BY <1>1, <1>3, <1>5, <2>1 DEF IInv, TypeOK
<1>8. ScriptFits'
  BY <1>1 DEF ScriptFits
<1>9. Control'
  <2>1. Idle'
    BY <1>6 DEF Idle
  <2>2. \A n \in Ids : n \in wave' <=> pc'[n] # "none"
    BY <1>3, <1>6
  <2>3. canc' = "tasks" => awaited' = {} \/ awaited' = wave'
    BY <1>1 DEF IInv, Control
  <2> QED
    BY <1>1, <2>1, <2>2, <2>3 DEF Control
<1>10. ASSUME NEW n \in Ids PROVE Resting(n)' /\ Taken(n)' /\ Recorded(n)' /\ Dropped(n)'
  <2>1. Resting(n) /\ Recorded(n) /\ Dropped(n) /\ AttemptsFit(led, n) /\ GateFits(led, n)
    BY <1>1 DEF IInv, NodesFit, Sound
  <2>2. CASE n \in S
    <3>1. /\ led.node[n] \in {"pending", "ready"}
          /\ \A d \in DepsOf(n) : DependencyMet(led, n, d)
          /\ NeedsApproval(led, n) => n \in Approved(led)
      BY <1>4, <2>2 DEF Candidates
    <3>2. Fresh(led, n)
      <4>1. led.node[n] = "pending" => LastState(led, n) = "never"
        BY <2>1 DEF AttemptsFit, Left
      <4>2. led.node[n] = "pending" => led.attempts[n] = << >>
        BY <1>1, <4>1, LastStates
      <4> QED
        BY <2>1, <3>1, <4>2 DEF AttemptsFit, Fresh
    <3>3. led.gate[n] # "open"
      BY <2>1, <3>1 DEF GateFits, Approved
    <3>4. ASSUME NEW d \in DepsOf(n) PROVE DepSettled(led, n, d) /\ pc'[d] = "none"
      <4>1. d \in Ids /\ AttemptsFit(led, d)
        BY NodePairs DEF IInv, Sound
      <4>2. DepSettled(led, n, d)
        BY <3>1, <4>1 DEF DependencyMet, DepSettled, Looks, AttemptsFit, Left
      <4>3. d \notin S
        BY <1>4, <3>1 DEF Candidates, DependencyMet
      <4> QED
        BY <1>6, <4>1, <4>2, <4>3
    <3>5. Resting(n)'
      BY <1>1, <1>6, <2>2, <3>1, <3>2 DEF Resting, Unstarted, Fresh
    <3>6. Taken(n)'
      BY <1>1, <3>1, <3>3, <3>4 DEF Taken
    <3>7. Dropped(n)'
      BY <1>1, <2>1, <3>1 DEF Dropped, InFlightStates
    <3> QED
      BY <1>1, <2>1, <3>5, <3>6, <3>7 DEF Recorded
  <2>3. CASE n \notin S
    BY <1>1, <1>2, <1>6, <2>1, <2>3 DEF Resting, Taken, Recorded, Dropped
  <2> QED BY <2>2, <2>3
<1> QED
  BY <1>1, <1>7, <1>8, <1>9, <1>10 DEF IInv, TodoTyped, NodesFit

\* The end of a wave keeps the invariant.
LEMMA GatheredKeeps == ASSUME IInv, Gathered PROVE IInv'
<1>1. /\ up /\ todo = << >> /\ caller = "none" /\ canc # "nodes" /\ adv' = "idle" /\ wave' = {}
      /\ led \in Ledger /\ \A n \in wave : pc[n] = "ended"
      /\ pc' = [n \in Ids |-> IF n \in wave THEN "none" ELSE pc[n]]
      /\ awaited' = IF canc = "tasks" THEN awaited \ wave ELSE awaited
      /\ AppendsAs("advance", Settlement(led))
      /\ UNCHANGED <<led, up, res, canc, reason, launched, raised,
                     asked, lost, failures, crashes, cancels>>
  BY Between DEF Gathered, LoopFree, history
<1>2. \A n \in Ids : pc'[n] = "none" /\ (pc[n] = "none" \/ pc[n] = "ended")
  BY <1>1 DEF IInv, Control
<1>3. \/ Settlement(led) = << >>
      \/ \E s \in Terminals : Settlement(led) = <<Terminal(s)>>
  BY DEF Settlement, When, Terminals
<1>4. /\ todo' \in Seq(Event) /\ caller' = IF todo' = << >> THEN "none" ELSE "advance"
      /\ todo' # << >> => \E s \in Terminals : todo' = <<Terminal(s)>>
  BY <1>1, <1>3, EventTypes, TodoForms DEF AppendsAs
<1>5. Idle'
  BY <1>2 DEF Idle
<1>6. TypeOK'
  <2>1. pc' \in [Ids -> Stations]
    BY <1>1, <1>2 DEF Stations
  <2> QED
    BY <1>1, <1>4, <2>1 DEF IInv, TypeOK, Callers
<1>7. ScriptFits'
  BY <1>4, <1>5 DEF ScriptFits
<1>8. Control'
  <2>1. canc' = "tasks" => awaited' = {}
    BY <1>1 DEF IInv, Control
  <2> QED
    BY <1>1, <1>2, <1>5, <2>1 DEF Control, Quiet
<1>9. ASSUME NEW n \in Ids PROVE Resting(n)' /\ Taken(n)' /\ Recorded(n)' /\ Dropped(n)'
  <2>1. Resting(n) /\ Recorded(n) /\ Dropped(n)
    BY <1>1 DEF IInv, NodesFit
  <2>2. led.node[n] \notin InFlightStates
    BY <1>1, <1>2, <2>1 DEF Resting
  <2>3. Resting(n)'
    BY <1>1, <1>2, <2>2 DEF Resting
  <2> QED
    BY <1>1, <1>2, <2>1, <2>3 DEF Taken, Recorded, Dropped
<1> QED
  BY <1>1, <1>4, <1>6, <1>7, <1>8, <1>9 DEF IInv, TodoTyped, NodesFit
-----------------------------------------------------------------------------
(* _append: the event at the head of a script is recorded *)

\* The next event of a script, and the script that is left.
LEMMA Heads ==
  ASSUME TodoTyped, todo # << >>
  PROVE  /\ Head(todo) \in Event /\ Head(todo) = todo[1] /\ 1 \in DOMAIN todo
         /\ Tail(todo) \in Seq(Event)
         /\ \A i \in DOMAIN Tail(todo) : i + 1 \in DOMAIN todo /\ Tail(todo)[i] = todo[i + 1]
         /\ \A i \in DOMAIN todo :
              i = 1 \/ (i - 1 \in DOMAIN Tail(todo) /\ Tail(todo)[i - 1] = todo[i])
<1>1. /\ todo \in Seq(Event) /\ Len(todo) \in Nat \ {0} /\ DOMAIN todo = 1 .. Len(todo)
      /\ Head(todo) = todo[1] /\ todo[1] \in Event
  BY DEF TodoTyped
<1>2. /\ Tail(todo) \in Seq(Event) /\ Len(Tail(todo)) = Len(todo) - 1
      /\ \A i \in 1 .. Len(Tail(todo)) : Tail(todo)[i] = todo[i + 1]
  BY <1>1, HeadTailProperties
<1>3. DOMAIN Tail(todo) = 1 .. Len(todo) - 1
  BY <1>2
<1>4. ASSUME NEW i \in DOMAIN todo, i # 1
      PROVE  i - 1 \in DOMAIN Tail(todo) /\ Tail(todo)[i - 1] = todo[i]
  <2>1. i - 1 \in 1 .. Len(todo) - 1 /\ (i - 1) + 1 = i
    BY <1>1, <1>4
  <2> QED
    BY <1>2, <1>3, <2>1
<1> QED
  BY <1>1, <1>2, <1>3, <1>4

\* A need for approval is only ever taken away
LEMMA ApprovalKept ==
  ASSUME NEW L \in Ledger, NEW M \in Ledger, Advances(L, M), NEW n \in Ids
  PROVE  /\ NeedsApproval(M, n) => NeedsApproval(L, n)
         /\ n \in Approved(L) => n \in Approved(M)
BY NodePairs, PlannedAreNodes DEF Advances, NeedsApproval, Approved

\* A coroutine's next event is about its own node.
LEMMA WriterNode ==
  ASSUME NEW n \in Ids, Writing(n)
  PROVE  /\ todo # << >> /\ Head(todo).node = n
         /\ Head(todo).type \in {"node_status_changed", "running", "attempt_dispatched",
                                 "worker_finished", "retry_created", "verdict_recorded"}
         /\ Head(todo).type = "attempt_dispatched" => pc[n] = "launch"
<1>1. CASE \E k \in Verdicts : VerdictWriting(n, k)
  <2>1. PICK k \in Verdicts : VerdictWriting(n, k)
    BY <1>1
  <2> DEFINE v == Verdict(n, DepsOf(n), k)
  <2>2. v \in Event /\ v.node = n /\ v.type = "verdict_recorded"
    BY NodePairs, EventTypes DEF Verdict
  <2>3. CASE todo = <<v>>
    BY <2>2, <2>3
  <2>4. CASE \E t \in Ids : todo = <<v>> \o AfterRevise(led, t, n)
    <3>1. PICK t \in Ids : todo = <<v>> \o AfterRevise(led, t, n)
      BY <2>4
    <3> HIDE DEF v
    <3>2. todo # << >> /\ Head(todo) = v
      BY <2>2, <3>1, AfterReviseTyped
    <3> QED
      BY <2>2, <3>2
  <2>5. DepsOf(n) \subseteq Ids
    BY NodePairs
  <2> QED
    BY <2>1, <2>3, <2>4, <2>5 DEF VerdictWriting
<1>2. CASE ~ \E k \in Verdicts : VerdictWriting(n, k)
  BY <1>2 DEF Writing, ReadyWriting, DispatchWriting, RunWriting, FinishWriting, RetryWriting,
     BlockWriting, PassWriting, Status, Dispatched, Running, Finished, Retried, Verdict
<1> QED
  BY <1>1, <1>2

\* What every append has in common; the reducer is never asked for more
LEMMA WriteStep ==
  ASSUME IInv, Write, Safe(led, Head(todo)),
         Head(todo).type = "gate_created" => pc[Head(todo).node] = "none",
         Head(todo).type = "run_terminal" => Idle,
         \A n \in Touched(Head(todo)) :
           /\ Resting(n)' \/ (caller' = "task" /\ Writing(n)')
           /\ n \in lost => led'.node[n] \in InFlightStates \cup {"outcome_unknown", "cancelled"},
         caller' = "start"   => StartScript',
         caller' = "task"    => TaskScript',
         caller' # "advance",
         caller' = "cancel"  => CancelScript',
         caller' = "user"    => UserScript'
  PROVE  IInv' /\ Safe(led, Head(todo))
<1> DEFINE e == Head(todo)
<1>1. /\ todo # << >> /\ Legal(led, e) /\ led' = Applied(led, e) /\ todo' = Tail(todo)
      /\ caller' = IF todo' = << >> THEN "none" ELSE caller
      /\ UNCHANGED <<up, pc, res, wave, adv, canc, awaited, reason, launched, raised,
                     asked, lost, failures, crashes, cancels>>
  BY DEF Write, tasks, stop, history
<1>2. /\ e \in Event /\ e = todo[1] /\ todo' \in Seq(Event) /\ caller # "none" /\ up
      /\ led \in Ledger /\ led.terminal = "none"
      /\ \A i \in DOMAIN todo :
              i = 1 \/ (i - 1 \in DOMAIN todo' /\ todo'[i - 1] = todo[i])
  BY <1>1, Heads DEF IInv, ScriptFits, TypeOK, Control, Legal
<1> HIDE DEF e
<1>3. Sound(led') /\ Advances(led, led') /\ led' \in Ledger
  <2>1. Sound(Applied(led, e)) /\ Advances(led, Applied(led, e))
    BY <1>1, <1>2, SoundKept DEF IInv, e
  <2> QED
    BY <1>1, <2>1 DEF Sound
<1>4. TypeOK'
  BY <1>1, <1>2, <1>3 DEF IInv, TypeOK
<1>5. ScriptFits'
  BY <1>1, <1>2 DEF ScriptFits
<1>6. Control'
  <2>1. led'.terminal # "none" => \A n \in Ids : Quiet(n)'
    <3>1. CASE e.type = "run_terminal"
      BY <1>1, <3>1 DEF e, Idle, Quiet
    <3>2. CASE e.type # "run_terminal"
      BY <1>1, <1>2, <3>2, AppliedRest
    <3> QED BY <3>1, <3>2
  <2> QED
    BY <1>1, <1>2, <2>1 DEF IInv, Control, CancelIsNext, Idle
<1>7. ASSUME NEW n \in Ids
      PROVE  /\ Resting(n)' \/ (caller' = "task" /\ Writing(n)')
             /\ Dropped(n)'
  <2>1. CASE n \in Touched(e)
    BY <1>1, <2>1 DEF e, IInv, NodesFit, Dropped
  <2>2. CASE n \notin Touched(e)
    <3>1. /\ led'.node[n] = led.node[n] /\ led'.attempts[n] = led.attempts[n]
          /\ led'.verdict[n] = led.verdict[n]
          /\ n \in led'.retried <=> n \in led.retried
      BY <1>1, <1>2, <2>2, Untouched
    <3>2. Dropped(n)'
      BY <1>1, <3>1 DEF IInv, NodesFit, Dropped
    <3>3. Resting(n)
      <4>1. ASSUME Writing(n) PROVE FALSE
        BY <2>2, <4>1, WriterNode DEF e, Touched
      <4> QED
        BY <4>1 DEF IInv, NodesFit
    <3>4. ASSUME pc'[n] = "none", led'.node[n] \in InFlightStates
          PROVE  caller' = "start" /\ \E i \in DOMAIN todo' : todo'[i] = Reconciled(n)
      <4>1. caller = "start" /\ \E i \in DOMAIN todo : todo[i] = Reconciled(n)
        BY <1>1, <1>2, <3>1, <3>3, <3>4 DEF Resting
      <4>2. PICK i \in DOMAIN todo : todo[i] = Reconciled(n)
        BY <4>1
      <4>3. i # 1
        BY <1>2, <2>2, <4>2 DEF Touched, Reconciled
      <4>4. i - 1 \in DOMAIN todo' /\ todo'[i - 1] = Reconciled(n)
        BY <1>2, <4>2, <4>3
      <4>5. todo' # << >>
        BY <4>4
      <4> QED
        BY <1>1, <4>1, <4>4, <4>5
    <3>5. Resting(n)'
      BY <1>1, <3>1, <3>3, <3>4 DEF Resting, Fresh
    <3> QED
      BY <3>2, <3>5
  <2> QED BY <2>1, <2>2
<1>8. ASSUME NEW n \in Ids PROVE Taken(n)'
  <2>1. Taken(n)
    BY DEF IInv, NodesFit
  <2>2. ASSUME pc[n] # "none" PROVE led'.gate[n] # "open"
    <3>1. led.gate[n] # "open"
      BY <2>1, <2>2 DEF Taken
    <3>2. CASE e.type = "gate_created"
      <4>1. e.node \in Ids /\ e.node # n /\ led'.gate = [led.gate EXCEPT ![e.node] = "open"]
        <5>1. PICK m \in Ids : e = GateOpened(m)
          BY <1>2, <3>2, EventFields DEF Created, Published, Status, Running, Dispatched, Finished,
             Reconciled, Retried, ReworkOf, GateOpened, GateExhausted, GateResolved, Verdict, Terminal
        <5>2. e.node = m
          BY <5>1 DEF GateOpened
        <5>3. led' = [led EXCEPT !.gate[m] = "open"]
          BY <1>1, <5>1 DEF Applied, GateOpened
        <5> QED
          BY <1>2, <2>2, <3>2, <5>2, <5>3 DEF e, Ledger
      <4> QED
        BY <1>2, <3>1, <4>1 DEF Ledger
    <3>3. CASE e.type = "gate_resolved"
      <4>1. PICK m \in Ids, d \in Decisions : e = GateResolved(m, d)
        BY <1>2, <3>3, EventFields DEF Created, Published, Status, Running, Dispatched, Finished,
           Reconciled, Retried, ReworkOf, GateOpened, GateExhausted, GateResolved, Verdict, Terminal
      <4>2. led' = [led EXCEPT !.gate[m] = d] /\ d # "open"
        BY <1>1, <4>1 DEF Applied, GateResolved, Decisions
      <4> QED
        BY <1>2, <3>1, <4>2 DEF Ledger
    <3>4. CASE e.type \notin {"gate_created", "gate_resolved"}
      BY <1>1, <1>2, <3>1, <3>4, AppliedRest
    <3> QED BY <3>2, <3>3, <3>4
  <2>3. ASSUME pc[n] # "none"
        PROVE  /\ led'.node[n] # "absent"
               /\ NeedsApproval(led', n) => n \in Approved(led')
               /\ \A d \in DepsOf(n) : DepSettled(led', n, d) /\ pc[d] = "none"
    <3>1. DepsSettled(led, n)
      BY <2>1, <2>3 DEF Taken, DepsSettled
    <3>2. DepsSettled(led', n)
      BY <1>2, <1>3, <3>1, SettledKept
    <3> QED
      BY <1>2, <1>3, <2>1, <2>3, <3>2, ApprovalKept DEF Taken, DepsSettled, Advances
  <2> QED
    BY <1>1, <2>2, <2>3 DEF Taken
<1>9. ASSUME NEW n \in Ids PROVE Recorded(n)'
  <2>1. Recorded(n) /\ launched[n] \in Nat
    BY DEF IInv, NodesFit, TypeOK
  <2>2. Len(led.attempts[n]) \in Nat /\ Len(led'.attempts[n]) \in Nat
    BY <1>2, <1>3, LastStates
  <2>3. Len(led.attempts[n]) <= Len(led'.attempts[n])
    BY <1>3 DEF Advances
  <2> QED
    BY <1>1, <1>2, <1>3, <2>1, <2>2, <2>3, ApprovalKept DEF Recorded
<1> QED
  BY <1>2, <1>3, <1>4, <1>5, <1>6, <1>7, <1>8, <1>9 DEF IInv, TodoTyped, NodesFit

\* What an append changes, and what it leaves alone.
LEMMA Appending ==
  ASSUME IInv, Write
  PROVE  /\ todo # << >> /\ up /\ led \in Ledger /\ led.terminal = "none"
         /\ Legal(led, Head(todo)) /\ led' = Applied(led, Head(todo)) /\ todo' = Tail(todo)
         /\ Head(todo) \in Event /\ Head(todo) = todo[1] /\ 1 \in DOMAIN todo
         /\ caller # "none" /\ caller' = IF todo' = << >> THEN "none" ELSE caller
         /\ \A i \in DOMAIN todo' : i + 1 \in DOMAIN todo /\ todo'[i] = todo[i + 1]
         /\ UNCHANGED <<up, pc, res, wave, adv, canc, launched, lost>>
<1>1. /\ todo # << >> /\ Legal(led, Head(todo)) /\ led' = Applied(led, Head(todo))
      /\ todo' = Tail(todo) /\ caller' = IF todo' = << >> THEN "none" ELSE caller
      /\ UNCHANGED <<up, pc, res, wave, adv, canc, launched, lost>>
  BY DEF Write, tasks, stop, history
<1> QED
  BY <1>1, Heads DEF IInv, ScriptFits, TypeOK, Control, Legal

\* The marks that touch no node
LEMMA MarkWrites ==
  ASSUME IInv, Write, caller # "advance" \/ todo' = << >>,
         Head(todo).type \in {"run_created", "graph_published", "rework_exhausted",
                              "gate_resolved", "run_terminal"},
         Head(todo).type = "run_terminal" => Idle,
         caller' = "start"   => StartScript',
         caller' = "task"    => TaskScript',
         caller' = "cancel"  => CancelScript',
         caller' = "user"    => UserScript'
  PROVE  IInv' /\ Safe(led, Head(todo))
<1>1. Touched(Head(todo)) = {} /\ Safe(led, Head(todo)) /\ Head(todo).type # "gate_created"
  BY DEF Touched, Safe
<1>2. caller' # "advance"
  BY Appending
<1> QED
  BY <1>1, <1>2, WriteStep

\* A gate opens on a node that waits
LEMMA GateWrites ==
  ASSUME IInv, Write, NEW m \in Ids, Head(todo) = GateOpened(m), caller # "advance",
         NeedsApproval(led, m), led.node[m] = "pending", pc[m] = "none",
         caller' = "start"   => StartScript',
         caller' = "task"    => TaskScript',
         caller' = "cancel"  => CancelScript',
         caller' = "user"    => UserScript'
  PROVE  IInv' /\ Safe(led, Head(todo))
<1>1. led.attempts[m] = << >>
  <2>1. AttemptsFit(led, m) /\ led \in Ledger
    BY DEF IInv, Sound
  <2> QED
    BY <2>1, LastStates DEF AttemptsFit, Left
<1>2. Touched(GateOpened(m)) = {} /\ GateOpened(m).node = m /\ GateOpened(m).type = "gate_created"
  BY DEF Touched, GateOpened
<1>3. Safe(led, GateOpened(m))
  BY <1>1, <1>2 DEF Safe, Unstarted
<1>4. caller' # "advance"
  BY Appending
<1> QED
  BY <1>2, <1>3, <1>4, WriteStep

\* An append of start keeps the invariant and is safe.
LEMMA StartWrites == ASSUME IInv, Write, caller = "start" PROVE IInv' /\ Safe(led, Head(todo))
<1>1. \A n \in Ids : pc[n] = "none" /\ pc'[n] = "none"
  BY Appending DEF IInv, ScriptFits, StartScript
<1>2. CASE FirstStart
  <2>0. /\ led = [EmptyLedger EXCEPT !.phase = led.phase, !.gate = led.gate]
        /\ \A n \in Ids : led.gate[n] \in {"none", "open"}
        /\ \A i \in DOMAIN todo :
             \/ todo[i] \in {Created, Published}
             \/ \E m \in Planned : todo[i] = GateOpened(m) /\ m[1] \in Premium
    BY <1>2 DEF FirstStart
  <2>1. ASSUME led' = [EmptyLedger EXCEPT !.phase = led'.phase, !.gate = led'.gate],
               \A n \in Ids : led'.gate[n] \in {"none", "open"}
        PROVE  StartScript'
    <3>1. \A i \in DOMAIN todo' :
             \/ todo'[i] \in {Created, Published}
             \/ \E m \in Planned : todo'[i] = GateOpened(m) /\ m[1] \in Premium
      BY <2>0, Appending
    <3> QED
      BY <1>1, <2>1, <3>1 DEF StartScript, FirstStart
  <2>2. CASE Head(todo) \in {Created, Published}
    <3>1. PICK p \in {"run_created", "graph_published"} : led' = [led EXCEPT !.phase = p]
      BY <2>2, Appending, AppliedForms, Zenon
    <3>2. /\ led' = [EmptyLedger EXCEPT !.phase = p, !.gate = led.gate]
          /\ led'.gate = led.gate /\ led'.phase = p
      BY <2>0, <3>1 DEF EmptyLedger
    <3>3. StartScript'
      BY <2>0, <2>1, <3>2
    <3>4. Head(todo).type \in {"run_created", "graph_published"}
      BY <2>2 DEF Created, Published
    <3> QED
      BY <3>3, <3>4, Appending, MarkWrites
  <2>3. CASE \E m \in Planned : Head(todo) = GateOpened(m) /\ m[1] \in Premium
    <3>1. PICK m \in Planned : Head(todo) = GateOpened(m) /\ m[1] \in Premium
      BY <2>3
    <3>2. m \in Ids
      BY PlannedAreNodes
    <3>3. led' = [led EXCEPT !.gate[m] = "open"]
      BY <3>1, Appending DEF Applied, GateOpened
    <3>4. /\ led' = [EmptyLedger EXCEPT !.phase = led.phase, !.gate = led'.gate]
          /\ led'.phase = led.phase
          /\ led'.gate = [led.gate EXCEPT ![m] = "open"]
      <4>1. [led EXCEPT !.gate = [led.gate EXCEPT ![m] = "open"]]
              = [EmptyLedger EXCEPT !.phase = led.phase, !.gate = [led.gate EXCEPT ![m] = "open"]]
        BY <2>0 DEF EmptyLedger
      <4>2. led'.gate = [led.gate EXCEPT ![m] = "open"] /\ led'.phase = led.phase
        BY <3>3, Appending DEF Ledger
      <4> QED
        BY <3>3, <4>1, <4>2
    <3>5. \A n \in Ids : led'.gate[n] \in {"none", "open"}
      BY <2>0, <3>4, Appending DEF Ledger
    <3>6. StartScript'
      BY <2>1, <3>4, <3>5
    <3>7. NeedsApproval(led, m) /\ led.node[m] = "pending"
      <4>1. led.node = EmptyLedger.node
        BY <2>0 DEF EmptyLedger
      <4>2. led.node[m] = "pending"
        BY <3>2, <4>1 DEF EmptyLedger
      <4> QED
        BY <2>0, <3>1, <3>2, <4>2, NodePairs, PlannedAreNodes DEF NeedsApproval
    <3> QED
      BY <1>1, <3>1, <3>2, <3>6, <3>7, Appending, GateWrites
  <2> QED BY <2>0, <2>2, <2>3, Appending
<1>3. CASE Restart
  <2>1. PICK m \in Ids : Head(todo) = Reconciled(m)
    BY <1>3, Appending DEF Restart
  <2>2. /\ Reconciled(m).node = m /\ Reconciled(m).type = "reconciled"
        /\ Touched(Reconciled(m)) = {m} /\ Safe(led, Reconciled(m))
    BY DEF Reconciled, Touched, Safe
  <2>3. led'.node[m] = "outcome_unknown"
    <3>1. led'.node = [led.node EXCEPT ![m] = "outcome_unknown"]
      <4>1. led' = Applied(led, Reconciled(m)) /\ led \in Ledger
        BY <2>1, Appending
      <4> QED
        BY <4>1, NodeEffects
    <3> QED
      BY <3>1, Appending DEF Ledger
  <2>4. Resting(m)'
    BY <1>1, <2>3 DEF Resting, InFlightStates
  <2>5. Restart'
    BY <1>3, Appending DEF Restart
  <2>6. StartScript'
    BY <1>1, <2>5 DEF StartScript
  <2>7. caller' \in {"none", "start"}
    BY Appending
  <2> QED
    BY <2>1, <2>2, <2>3, <2>4, <2>6, <2>7, WriteStep
<1> QED
  BY <1>2, <1>3 DEF IInv, ScriptFits, StartScript

\* The terminal event is the whole script of advance, and the last of cancel
LEMMA TerminalWrites ==
  ASSUME IInv, Write, NEW s \in Terminals, todo = <<Terminal(s)>>, Idle PROVE IInv' /\ Safe(led, Head(todo))
<1>1. Terminal(s) \in Event /\ Terminal(s).type = "run_terminal"
  BY EventTypes DEF Terminal
<1>2. todo' = << >> /\ Head(todo) = Terminal(s)
  BY <1>1, Appending, TodoForms
<1>3. caller' = "none"
  BY <1>2, Appending
<1> QED
  BY <1>1, <1>2, <1>3, MarkWrites

\* A step of one node outside a coroutine
LEMMA StatusWrites ==
  ASSUME IInv, Write, NEW n \in Ids, NEW s \in {"ready", "cancelled"},
         Head(todo) = Status(n, s), caller \in {"cancel", "user"},
         s = "ready" => led.node[n] = "pending",
         led.node[n] \notin InFlightStates, pc[n] \in {"none", "begin"},
         caller' = "cancel"  => CancelScript',
         caller' = "user"    => UserScript'
  PROVE  IInv' /\ Safe(led, Head(todo))
<1>1. /\ Status(n, s).node = n /\ Status(n, s).status = s
      /\ Status(n, s).type = "node_status_changed" /\ Touched(Status(n, s)) = {n}
  BY DEF Status, Touched
<1>2. Safe(led, Status(n, s))
  BY <1>1 DEF Safe, InFlightStates
<1>3. led'.node = [led.node EXCEPT ![n] = s] /\ led'.node[n] = s
  <2>1. led'.node = [led.node EXCEPT ![n] = s]
    <3>1. led' = Applied(led, Status(n, s)) /\ led \in Ledger
      BY Appending
    <3>2. led' = Moved(led, n, s) /\ s \in NodeState
      BY <3>1 DEF Applied, Status, NodeState
    <3> QED
      BY <3>1, <3>2, MovedFields
  <2> QED
    BY <2>1, Appending DEF Ledger
<1>4. led'.attempts = led.attempts /\ led'.retried = led.retried
  BY <1>1, Appending, AppliedAttempts, AppliedRest
<1>5. Resting(n) /\ Dropped(n)
  BY DEF IInv, NodesFit
<1>6. Resting(n)'
  <2>1. pc'[n] = pc[n]
    BY Appending
  <2> QED
    BY <1>3, <1>4, <1>5, <2>1 DEF Resting, Unstarted, InFlightStates, Fresh
<1>7. n \in lost => s = "cancelled"
  BY <1>5 DEF Dropped, InFlightStates
<1>8. caller' \in {"none", "cancel", "user"}
  BY Appending
<1> QED
  BY <1>1, <1>2, <1>3, <1>6, <1>7, <1>8, WriteStep DEF Status

\* An append of cancel keeps the invariant and is safe.
LEMMA CancelWrites == ASSUME IInv, Write, caller = "cancel" PROVE IInv' /\ Safe(led, Head(todo))
<1>1. CASE Idle /\ todo = <<Terminal("cancelled")>>
  BY <1>1, TerminalWrites DEF Terminals
<1>2. CASE canc = "nodes" /\ \E n \in Ids : Dropping(n)
  <2>1. PICK n \in Ids : Dropping(n)
    BY <1>2
  <2>2. /\ Status(n, "ready") \in Event /\ Status(n, "cancelled") \in Event
        /\ pc[n] \in {"none", "begin"} /\ led.node[n] \notin InFlightStates
    BY <1>2, <2>1, EventTypes DEF IInv, Control, Idle, Dropping
  <2>3. CASE todo = <<Status(n, "cancelled")>>
    <3>1. todo' = << >> /\ Head(todo) = Status(n, "cancelled")
      BY <2>2, <2>3, Appending, TodoForms
    <3>2. caller' = "none"
      BY <3>1, Appending
    <3> QED
      BY <1>2, <2>2, <3>1, <3>2, StatusWrites
  <2>4. CASE led.node[n] = "pending" /\ todo = <<Status(n, "ready"), Status(n, "cancelled")>>
    <3>1. todo' = <<Status(n, "cancelled")>> /\ Head(todo) = Status(n, "ready")
      BY <2>2, <2>4, Appending, TodoForms
    <3>2. led'.node[n] = "ready"
      <4>1. led'.node = [led.node EXCEPT ![n] = "ready"]
        <5>1. led' = Applied(led, Status(n, "ready")) /\ led \in Ledger
          BY <3>1, Appending
        <5> QED
          BY <5>1, NodeEffects
      <4> QED
        BY <4>1, Appending DEF Ledger
    <3>3. CancelScript'
      BY <1>2, <3>1, <3>2, Appending DEF CancelScript, Dropping, InFlightStates
    <3>4. caller' \in {"none", "cancel"}
      BY Appending
    <3> QED
      BY <2>2, <2>4, <3>1, <3>3, <3>4, StatusWrites
  <2> QED BY <2>1, <2>3, <2>4 DEF Dropping
<1>3. CASE /\ canc \in {"dispatches", "tasks", "nodes"}
           /\ \A i \in DOMAIN todo : \E m \in Ids : todo[i] = GateResolved(m, "cancelled")
  <2>1. Head(todo).type = "gate_resolved"
    BY <1>3, Appending DEF GateResolved
  <2>2. CancelScript'
    BY <1>3, Appending DEF CancelScript
  <2>3. caller' \in {"none", "cancel"}
    BY Appending
  <2> QED
    BY <2>1, <2>2, <2>3, MarkWrites
<1> QED
  BY <1>1, <1>2, <1>3 DEF IInv, ScriptFits, CancelScript

\* An append of a gate decision keeps the invariant and is safe.
LEMMA UserWrites == ASSUME IInv, Write, caller = "user" PROVE IInv' /\ Safe(led, Head(todo))
<1>0. caller' \in {"none", "user"}
  BY Appending
<1>1. CASE \E n \in Ids, d \in Decisions : todo = <<GateResolved(n, d)>>
  <2>1. PICK n \in Ids, d \in Decisions : todo = <<GateResolved(n, d)>>
    BY <1>1
  <2>2. GateResolved(n, d) \in Event /\ GateResolved(n, d).type = "gate_resolved"
    BY EventTypes DEF GateResolved
  <2>3. todo' = << >> /\ Head(todo) = GateResolved(n, d)
    BY <2>1, <2>2, Appending, TodoForms
  <2>4. caller' = "none"
    BY <2>3, Appending
  <2> QED
    BY <2>2, <2>3, <2>4, MarkWrites
<1>2. CASE \E n \in Ids : Skipping(n)
  <2>1. PICK n \in Ids : Skipping(n)
    BY <1>2
  <2> DEFINE r == Status(n, "ready")
             c == Status(n, "cancelled")
             g == GateResolved(n, "skip")
  <2>2. r \in Event /\ c \in Event /\ g \in Event /\ g.type = "gate_resolved"
    BY EventTypes DEF Decisions, GateResolved
  <2>3. /\ pc[n] = "none" /\ pc' = pc /\ led.attempts[n] = << >> /\ led.node[n] \in Unstarted
        /\ led.node[n] \notin InFlightStates
    BY <2>1, Appending DEF Skipping, Unstarted, InFlightStates
  <2>4. \/ todo = <<c>> \/ todo = <<g, c>>
        \/ led.node[n] = "pending" /\ todo = <<r, c>>
        \/ led.node[n] = "pending" /\ todo = <<g, r, c>>
    BY <2>1 DEF Skipping
  <2>5. Head(todo) = g => led'.node = led.node /\ led'.attempts = led.attempts
    BY <2>2, Appending, AppliedRest
  <2>6. Head(todo) = r => led'.node = [led.node EXCEPT ![n] = "ready"] /\ led'.attempts = led.attempts
    <3> SUFFICES ASSUME Head(todo) = r
                 PROVE  led'.node = [led.node EXCEPT ![n] = "ready"] /\ led'.attempts = led.attempts
      OBVIOUS
    <3>1. led'.node = [led.node EXCEPT ![n] = "ready"]
      <4>1. led' = Applied(led, Status(n, "ready")) /\ led \in Ledger
        BY Appending
      <4> QED
        BY <4>1, NodeEffects
    <3>2. led'.attempts = led.attempts
      BY Appending, AppliedAttempts DEF Status
    <3> QED
      BY <3>1, <3>2
  <2>7. led.node \in [Ids -> NodeState]
    BY Appending DEF Ledger
  <2>8. CASE todo = <<c>>
    <3>1. todo' = << >> /\ Head(todo) = c
      BY <2>2, <2>8, Appending, TodoForms
    <3>2. caller' = "none"
      BY <3>1, Appending
    <3> QED
      BY <2>3, <3>1, <3>2, StatusWrites
  <2>9. CASE todo = <<g, c>>
    <3>1. todo' = <<c>> /\ Head(todo) = g
      BY <2>2, <2>9, Appending, TodoForms
    <3>2. Skipping(n)'
      BY <2>3, <2>5, <3>1 DEF Skipping
    <3> QED
      BY <1>0, <2>2, <3>1, <3>2, MarkWrites DEF UserScript
  <2>10. CASE led.node[n] = "pending" /\ todo = <<r, c>>
    <3>1. todo' = <<c>> /\ Head(todo) = r
      BY <2>2, <2>10, Appending, TodoForms
    <3>2. Skipping(n)'
      BY <2>3, <2>6, <2>7, <3>1 DEF Skipping, Unstarted
    <3> QED
      BY <1>0, <2>3, <2>10, <3>1, <3>2, StatusWrites DEF UserScript
  <2>11. CASE led.node[n] = "pending" /\ todo = <<g, r, c>>
    <3>1. todo' = <<r, c>> /\ Head(todo) = g
      BY <2>2, <2>11, Appending, SkipForms
    <3>2. Skipping(n)'
      BY <2>3, <2>5, <2>11, <3>1 DEF Skipping
    <3> QED
      BY <1>0, <2>2, <3>1, <3>2, MarkWrites DEF UserScript
  <2> QED BY <2>4, <2>8, <2>9, <2>10, <2>11
<1> QED
  BY <1>1, <1>2 DEF IInv, ScriptFits, UserScript

\* A coroutine's append about its own node
LEMMA LastTaskWrite ==
  ASSUME IInv, Write, NEW n \in Ids, NEW e \in Event, todo = <<e>>, e.node = n,
         e.type \in {"node_status_changed", "running", "attempt_dispatched", "worker_finished",
                     "retry_created"},
         pc[n] # "none", Safe(led, e), Resting(n)'
  PROVE  IInv' /\ Safe(led, Head(todo))
<1>1. Head(todo) = e /\ todo' = << >> /\ Touched(e) = {n} /\ caller' = "none"
  BY Appending, TodoForms DEF Touched
<1>2. n \notin lost
  BY DEF IInv, NodesFit, Dropped
<1> QED
  BY <1>1, <1>2, WriteStep

\* A coroutine's append about its own attempt keeps the invariant and is safe.
LEMMA TaskWrites ==
  ASSUME IInv, Write, NEW n \in Ids,
         \/ ReadyWriting(n) \/ DispatchWriting(n) \/ RunWriting(n)
         \/ \E o \in Outcomes : FinishWriting(n, o)
         \/ RetryWriting(n) \/ BlockWriting(n)
  PROVE  IInv' /\ Safe(led, Head(todo))
<1>1. /\ pc' = pc /\ res' = res /\ launched' = launched /\ up' = up /\ led \in Ledger
      /\ led.node \in [Ids -> NodeState]
      /\ \A e \in Event : todo = <<e>> => led' = Applied(led, e) /\ Legal(led, e)
  BY Appending, TodoForms DEF Ledger
<1>2. AttemptsFit(led, n) /\ VerdictFits(led, n) /\ Taken(n) /\ Recorded(n) /\ launched[n] \in Nat
  BY DEF IInv, Sound, NodesFit, TypeOK
<1>3. CASE ReadyWriting(n)
  <2>1. /\ todo = <<Status(n, "ready")>> /\ pc[n] = "session"
        /\ led.node[n] = "pending" /\ Fresh(led, n)
    BY <1>3 DEF ReadyWriting
  <2>2. /\ Status(n, "ready") \in Event /\ Status(n, "ready").node = n
        /\ Status(n, "ready").type = "node_status_changed" /\ Status(n, "ready").status = "ready"
    BY EventTypes DEF Status
  <2>3. led' = Applied(led, Status(n, "ready"))
    BY <1>1, <2>1, <2>2
  <2>4. led'.node = [led.node EXCEPT ![n] = "ready"]
    BY <1>1, <2>3, NodeEffects
  <2>5. led'.attempts = led.attempts /\ led'.retried = led.retried
    BY <1>1, <2>2, <2>3, AppliedAttempts, AppliedRest
  <2>6. Safe(led, Status(n, "ready"))
    BY <2>1, <2>2 DEF Safe
  <2>7. Resting(n)'
    BY <1>1, <2>1, <2>4, <2>5 DEF Resting, Fresh
  <2> QED
    BY <2>1, <2>2, <2>6, <2>7, LastTaskWrite
<1>4. CASE DispatchWriting(n)
  <2> DEFINE e == Dispatched(n)
  <2>1. /\ todo = <<e>> /\ pc[n] = "launch" /\ led.node[n] \in {"ready", "cancelled"}
    BY <1>4 DEF DispatchWriting
  <2>2. e \in Event /\ e.node = n /\ e.type = "attempt_dispatched"
    BY EventTypes DEF Dispatched
  <2>3. led' = Applied(led, e)
    BY <1>1, <2>1, <2>2
  <2>4. led'.node = [led.node EXCEPT ![n] = "assigned"]
    BY <1>1, <2>3, NodeEffects
  <2>5. led'.attempts[n] = Append(led.attempts[n], "dispatched")
    BY <1>1, <2>2, <2>3, AppliedAttempts
  <2>6. Safe(led, e)
    <3>1. led.gate[n] # "open" /\ DepsSettled(led, n)
      BY <1>2, <2>1 DEF Taken, DepsSettled
    <3> QED
      BY <2>1, <2>2, <3>1 DEF Safe
  <2>7. launched[n] < Len(led'.attempts[n])
    <3>1. led.attempts[n] \in Seq(AttemptState)
      BY <1>1 DEF Ledger
    <3>2. Len(led'.attempts[n]) = Len(led.attempts[n]) + 1 /\ Len(led.attempts[n]) \in Nat
      BY <2>5, <3>1
    <3> QED
      BY <1>2, <3>2 DEF Recorded
  <2>8. Resting(n)'
    BY <1>1, <2>1, <2>4, <2>7 DEF Resting
  <2> HIDE DEF e
  <2> QED
    BY <2>1, <2>2, <2>6, <2>8, LastTaskWrite
<1>5. CASE RunWriting(n)
  <2> DEFINE e == Running(n)
  <2>1. todo = <<e>> /\ pc[n] = "events"
    BY <1>5 DEF RunWriting
  <2>2. e \in Event /\ e.node = n /\ e.type = "running"
    BY EventTypes DEF Running
  <2>3. led' = Applied(led, e)
    BY <1>1, <2>1, <2>2
  <2>4. led'.node = [led.node EXCEPT ![n] = "running"]
    BY <1>1, <2>3, NodeEffects
  <2>5. Safe(led, e)
    BY <2>2 DEF Safe
  <2>6. Resting(n)'
    BY <1>1, <2>1, <2>4 DEF Resting
  <2> HIDE DEF e
  <2> QED
    BY <2>1, <2>2, <2>5, <2>6, LastTaskWrite
<1>6. CASE \E o \in Outcomes : FinishWriting(n, o)
  <2>1. PICK o \in Outcomes : FinishWriting(n, o)
    BY <1>6
  <2> DEFINE e == Finished(n, o)
  <2>2. /\ todo = <<e>> /\ led.node[n] \in InFlightStates
        /\ pc[n] \in {"verdict", "collect", "release"}
    BY <2>1 DEF FinishWriting, InFlightStates
  <2>3. e \in Event /\ e.node = n /\ e.type = "worker_finished"
    BY EventTypes DEF Finished
  <2>4. led' = Applied(led, e)
    BY <1>1, <2>2, <2>3
  <2>5. led'.node = [led.node EXCEPT ![n] = NodeAfter(o)]
    <3>1. led' = Moved(WithAttempt(led, n, AttemptAfter(o)), n, NodeAfter(o))
      BY <2>4 DEF Applied, Finished, Ended
    <3> QED
      BY <1>1, <3>1 DEF Moved, WithAttempt, Ledger
  <2>6. led'.verdict = led.verdict
    BY <1>1, <2>3, <2>4, AppliedVerdict
  <2>7. Safe(led, e)
    BY <2>3 DEF Safe
  <2>8. /\ NodeAfter(o) \in Settled
        /\ o = "succeeded" => NodeAfter(o) = "awaiting_verification"
        /\ o = "failed" => NodeAfter(o) = "failed"
    BY DEF NodeAfter, Settled, Outcomes
  <2>9. led.verdict[n] = "none"
    BY <1>2, <2>2 DEF VerdictFits, InFlightStates
  <2>10. Resting(n)'
    <3>1. pc'[n] = pc[n] /\ res'[n] = res[n] /\ led'.node[n] = NodeAfter(o) /\ led'.verdict[n] = "none"
      BY <1>1, <2>5, <2>6, <2>9
    <3>2. CASE pc[n] = "verdict"
      BY <2>1, <2>8, <3>1, <3>2 DEF FinishWriting, Resting, AtOnce
    <3>3. CASE pc[n] = "collect"
      BY <2>1, <2>8, <3>1, <3>3 DEF FinishWriting, Resting
    <3>4. CASE pc[n] = "release"
      BY <2>8, <3>1, <3>4 DEF Resting
    <3> QED BY <2>2, <3>2, <3>3, <3>4
  <2> HIDE DEF e
  <2> QED
    BY <2>2, <2>3, <2>7, <2>10, LastTaskWrite
<1>7. CASE RetryWriting(n)
  <2> DEFINE e == Retried(n)
  <2>1. /\ todo = <<e>> /\ pc[n] = "session"
        /\ led.node[n] = "outcome_unknown" /\ n \notin led.retried
    BY <1>7 DEF RetryWriting
  <2>2. e \in Event /\ e.node = n /\ e.type = "retry_created"
    BY EventTypes DEF Retried
  <2>3. led' = Applied(led, e)
    BY <1>1, <2>1, <2>2
  <2>4. led'.node = [led.node EXCEPT ![n] = "ready"]
    BY <1>1, <2>3, NodeEffects
  <2>5. led'.attempts = led.attempts /\ n \in led'.retried
    BY <1>1, <2>2, <2>3, AppliedAttempts
  <2>6. Safe(led, e)
    BY <2>2 DEF Safe
  <2>7. Len(led.attempts[n]) = 1
    <3>1. LastState(led, n) = "outcome_unknown"
      BY <1>2, <2>1 DEF AttemptsFit, Left
    <3>2. Len(led.attempts[n]) \in Nat /\ Len(led.attempts[n]) # 0
      BY <1>1, <3>1, LastStates
    <3>3. Len(led.attempts[n]) <= 1
      BY <1>2, <2>1 DEF AttemptsFit
    <3>4. \A k \in Nat : k # 0 /\ k <= 1 => k = 1
      OBVIOUS
    <3> QED
      BY <3>2, <3>3, <3>4, Zenon
  <2>8. Resting(n)'
    BY <1>1, <2>1, <2>4, <2>5, <2>7 DEF Resting, Fresh
  <2> HIDE DEF e
  <2> QED
    BY <2>1, <2>2, <2>6, <2>8, LastTaskWrite
<1>8. CASE BlockWriting(n)
  <2> DEFINE e == Status(n, "blocked")
  <2>1. /\ todo = <<e>> /\ pc[n] = "ended"
        /\ led.node[n] = "outcome_unknown" /\ n \in led.retried
    BY <1>8 DEF BlockWriting
  <2>2. /\ e \in Event /\ e.node = n /\ e.type = "node_status_changed" /\ e.status = "blocked"
    BY EventTypes DEF Status
  <2>3. led' = Applied(led, e)
    BY <1>1, <2>1, <2>2
  <2>4. led'.node = [led.node EXCEPT ![n] = "blocked"]
    BY <1>1, <2>3, NodeEffects
  <2>5. Safe(led, e)
    BY <2>1, <2>2 DEF Safe
  <2>6. Resting(n)'
    BY <1>1, <2>1, <2>4 DEF Resting, InFlightStates
  <2> HIDE DEF e
  <2> QED
    BY <2>1, <2>2, <2>5, <2>6, LastTaskWrite
<1> QED
  BY <1>3, <1>4, <1>5, <1>6, <1>7, <1>8

\* What the recorded verdict leaves: the node it comes from is settled with it
LEMMA VerdictEffects ==
  ASSUME NEW L \in Ledger, NEW n \in Ids, NEW ts \in SUBSET Ids, NEW k \in Verdicts
  PROVE  /\ Applied(L, Verdict(n, ts, k)).verdict = [L.verdict EXCEPT ![n] = k]
         /\ \A m \in ts : Applied(L, Verdict(n, ts, k)).node[m] = Judged(k)
         /\ n \notin ts => Applied(L, Verdict(n, ts, k)).node[n] =
                            IF L.node[n] \in {"running", "awaiting_verification"}
                            THEN IF k = "pass" THEN "passed" ELSE "failed" ELSE L.node[n]
         /\ Applied(L, Verdict(n, ts, k)).attempts = L.attempts
         /\ Applied(L, Verdict(n, ts, k)).retried = L.retried
         /\ Applied(L, Verdict(n, ts, k)).gate = L.gate
<1> DEFINE e == Verdict(n, ts, k)
           M == Applied(L, e)
<1>1. /\ e \in Event /\ e.type = "verdict_recorded" /\ e.node = n /\ e.targets = ts
      /\ e.verdict = k
      /\ FollowsVerdict(L, e) <=> ts # {n} /\ L.node[n] \in {"running", "awaiting_verification"}
      /\ OwnState(e) = IF k = "pass" THEN "passed" ELSE "failed"
  BY EventTypes DEF Verdict, FollowsVerdict, OwnState
<1> HIDE DEF e
<1>3. M.attempts = L.attempts /\ M.retried = L.retried /\ M.gate = L.gate
  BY <1>1, AppliedAttempts, AppliedRest
<1>4. /\ M.verdict = [L.verdict EXCEPT ![n] = k]
      /\ \A m \in Ids : M.node[m] =
           IF m \in ts THEN Judged(k) ELSE IF FollowsVerdict(L, e) /\ m = n THEN OwnState(e) ELSE L.node[m]
  BY <1>1, AppliedVerdict
<1> HIDE DEF M
<1>5. \A m \in ts : M.node[m] = Judged(k)
  BY <1>4
<1>6. n \notin ts => M.node[n] = IF L.node[n] \in {"running", "awaiting_verification"}
                             THEN IF k = "pass" THEN "passed" ELSE "failed" ELSE L.node[n]
  BY <1>1, <1>4
<1> QED
  BY <1>3, <1>4, <1>5, <1>6 DEF e, M

\* The verdict of a deterministic policy keeps the invariant and is safe.
LEMMA PassWrites == ASSUME IInv, Write, NEW n \in Ids, PassWriting(n) PROVE IInv' /\ Safe(led, Head(todo))
<1> DEFINE e == Verdict(n, {n}, "pass")
<1>1. /\ todo = <<e>> /\ pc[n] = "release" /\ n[1] \in Deterministic
      /\ led.node[n] = "awaiting_verification"
  BY DEF PassWriting
<1>2. e \in Event /\ e.type = "verdict_recorded" /\ Touched(e) = {n} /\ "pass" \in Verdicts
  BY EventTypes DEF Verdict, Touched, Verdicts
<1>3. Head(todo) = e /\ todo' = << >>
  BY <1>1, <1>2, Appending, TodoForms
<1>4. led' = Applied(led, e) /\ led \in Ledger /\ caller' = "none" /\ pc' = pc /\ res' = res
  BY <1>3, Appending
<1>5. led'.node[n] = Judged("pass")
  <2>1. ASSUME NEW ts \in SUBSET Ids, NEW k \in Verdicts
        PROVE  /\ Applied(led, Verdict(n, ts, k)).verdict = [led.verdict EXCEPT ![n] = k]
               /\ \A m \in ts : Applied(led, Verdict(n, ts, k)).node[m] = Judged(k)
    <3>1. led \in Ledger
      BY <1>4
    <3> QED
      BY <3>1, VerdictEffects
  <2>2. {n} \in SUBSET Ids /\ n \in {n}
    OBVIOUS
  <2> QED
    BY <1>2, <1>4, <2>1, <2>2
<1>6. Resting(n)'
  BY <1>1, <1>4, <1>5 DEF Resting, Judged, Settled
<1>7. led.verdict[n] = "none"
  BY <1>1 DEF IInv, Sound, VerdictFits
<1>8. Safe(led, e)
  BY <1>1, <1>7 DEF Safe, Verdict
<1>9. n \notin lost
  BY <1>1 DEF IInv, NodesFit, Dropped
<1> HIDE DEF e
<1> QED
  BY <1>2, <1>3, <1>4, <1>6, <1>8, <1>9, WriteStep

\* What a coroutine decides after a revise does not depend on the verdict itself
LEMMA SameRevise ==
  ASSUME NEW L \in Ledger, NEW M \in Ledger, NEW t \in Ids, NEW n \in Ids, M.gate = L.gate,
         \A m \in Ids : M.node[m] = "absent" <=> L.node[m] = "absent"
  PROVE  AfterRevise(M, t, n) = AfterRevise(L, t, n)
<1>1. <<t[1], 0>> \in Ids /\ Rework(<<t[1], 0>>) \in Ids
  BY NodePairs, PlannedAreNodes
<1>2. Reworked(M, <<t[1], 0>>) <=> Reworked(L, <<t[1], 0>>)
  BY <1>1 DEF Reworked
<1>3. \A m : NeedsApproval(M, m) <=> NeedsApproval(L, m)
  BY DEF NeedsApproval
<1> QED
  BY <1>2, <1>3 DEF AfterRevise, When

\* A verifier's verdict keeps the invariant and is safe.
LEMMA VerdictWrites ==
  ASSUME IInv, Write, caller = "task", NEW n \in Ids, NEW k \in Verdicts, VerdictWriting(n, k)
  PROVE  IInv' /\ Safe(led, Head(todo))
<1> DEFINE ts == DepsOf(n)
           e == Verdict(n, ts, k)
<1>1. /\ IsVerifier(n) /\ pc[n] = "collect" /\ led.verdict[n] = "none"
      /\ led.node[n] \in {"awaiting_verification", "failed"}
      /\ \/ todo = <<e>>
         \/ k = "revise" /\ \E t \in ts : ts = {t} /\ todo = <<e>> \o AfterRevise(led, t, n)
  BY DEF VerdictWriting
<1>2. ts \in SUBSET Ids /\ n \notin ts
  BY NodePairs
<1>3. /\ e \in Event /\ e.type = "verdict_recorded" /\ Touched(e) = ts \cup {n}
      /\ e.node = n /\ e.targets = ts /\ e.verdict = k
  BY <1>2, EventTypes DEF Verdict, Touched
<1>4. /\ Taken(n) /\ Dropped(n) /\ pc' = pc /\ res' = res /\ led \in Ledger /\ lost' = lost
      /\ led.node \in [Ids -> NodeState] /\ led.verdict \in [Ids -> {"none"} \cup Verdicts]
  BY Appending DEF IInv, NodesFit, Ledger
<1>5. DepsSettled(led, n) /\ \A d \in ts : pc[d] = "none"
  BY <1>1, <1>4 DEF Taken, DepsSettled
<1>6. Safe(led, e)
  BY <1>1, <1>3, <1>5 DEF Safe
<1> HIDE DEF e
<1>7. /\ Head(todo) = e
      /\ \/ todo' = << >>
         \/ k = "revise" /\ \E t \in ts : ts = {t} /\ todo' = AfterRevise(led, t, n)
  <2>1. CASE todo = <<e>>
    BY <1>3, <2>1, Appending, TodoForms
  <2>2. CASE k = "revise" /\ \E t \in ts : ts = {t} /\ todo = <<e>> \o AfterRevise(led, t, n)
    <3>1. PICK t \in ts : ts = {t} /\ todo = <<e>> \o AfterRevise(led, t, n)
      BY <2>2
    <3>2. t \in Ids /\ AfterRevise(led, t, n) \in Seq(Event)
      BY <1>2, <3>1, AfterReviseTyped
    <3>3. Head(<<e>> \o AfterRevise(led, t, n)) = e /\ Tail(<<e>> \o AfterRevise(led, t, n)) = AfterRevise(led, t, n)
      <4> DEFINE q == AfterRevise(led, t, n)
                 a == <<e>> \o q
      <4>1. q \in Seq(Event) /\ Len(q) \in Nat
        BY <3>2
      <4> HIDE DEF q
      <4>2. /\ a \in Seq(Event) /\ Len(a) = 1 + Len(q) /\ a # << >>
            /\ \A i \in 1 .. 1 + Len(q) : a[i] = IF i <= 1 THEN e ELSE q[i - 1]
        <5>1. <<e>> \in Seq(Event) /\ Len(<<e>>) = 1 /\ <<e>>[1] = e
          BY <1>3
        <5>2. /\ a \in Seq(Event) /\ Len(a) = 1 + Len(q)
              /\ \A i \in 1 .. 1 + Len(q) : a[i] = IF i <= 1 THEN <<e>>[i] ELSE q[i - 1]
          BY <4>1, <5>1, ConcatProperties
        <5>3. \A i \in 1 .. 1 + Len(q) : i <= 1 => i = 1
          BY <4>1
        <5> QED
          BY <4>1, <5>1, <5>2, <5>3
      <4> HIDE DEF a
      <4>3. Head(a) = a[1] /\ a[1] = e
        BY <4>1, <4>2
      <4>4. /\ Tail(a) \in Seq(Event) /\ Len(Tail(a)) = Len(q)
            /\ \A i \in 1 .. Len(Tail(a)) : Tail(a)[i] = a[i + 1]
        BY <4>1, <4>2, HeadTailProperties
      <4>5. \A i \in 1 .. Len(Tail(a)) : Tail(a)[i] = q[i]
        BY <4>1, <4>2, <4>4
      <4>6. Tail(a) = q
        BY <4>1, <4>4, <4>5, SeqEqual
      <4> QED
        BY <4>3, <4>6 DEF q, a
    <3> QED
      BY <2>2, <3>1, <3>3, Appending
  <2> QED BY <1>1, <2>1, <2>2 DEF e
<1>8. led' = Applied(led, Verdict(n, ts, k))
  BY <1>7, Appending DEF e
<1>9. /\ led'.verdict = [led.verdict EXCEPT ![n] = k]
      /\ \A d \in ts : led'.node[d] = Judged(k)
      /\ led'.node[n] \in {"passed", "failed"}
      /\ k = "revise" => led'.node[n] = "failed"
      /\ led'.gate = led.gate
  <2>1. /\ Applied(led, Verdict(n, ts, k)).verdict = [led.verdict EXCEPT ![n] = k]
        /\ \A m \in ts : Applied(led, Verdict(n, ts, k)).node[m] = Judged(k)
        /\ n \notin ts => Applied(led, Verdict(n, ts, k)).node[n] =
                            IF led.node[n] \in {"running", "awaiting_verification"}
                            THEN IF k = "pass" THEN "passed" ELSE "failed" ELSE led.node[n]
        /\ Applied(led, Verdict(n, ts, k)).gate = led.gate
    <3> HIDE DEF ts
    <3> QED
      BY <1>2, <1>4, VerdictEffects
  <2> HIDE DEF ts
  <2> QED
    BY <1>1, <1>2, <1>8, <2>1
<1>10. Judged(k) \in {"passed", "failed", "inconclusive"} /\ (k = "revise" => Judged(k) = "failed")
  BY DEF Judged, Verdicts
<1>11. Resting(n)' /\ n \notin lost
  BY <1>1, <1>4, <1>9 DEF Resting, Settled, Dropped
<1>12. ASSUME NEW d \in ts PROVE Resting(d)' /\ d \notin lost
  <2>1. led'.node[d] \notin InFlightStates /\ pc'[d] = "none"
    BY <1>4, <1>5, <1>9, <1>10 DEF InFlightStates
  <2>2. led.node[d] \in {"passed", "awaiting_verification", "failed", "inconclusive"}
    BY <1>5 DEF DepsSettled, DepSettled
  <2>3. Dropped(d)
    BY <1>2 DEF IInv, NodesFit
  <2> QED
    BY <2>1, <2>2, <2>3 DEF Resting, Dropped, InFlightStates
<1>13. caller' = "task" => TaskScript'
  <2> SUFFICES ASSUME caller' = "task" PROVE TaskScript'
    OBVIOUS
  <2>1. todo' # << >>
    BY Appending
  <2>2. PICK t \in ts : ts = {t} /\ todo' = AfterRevise(led, t, n) /\ k = "revise"
    BY <1>7, <2>1
  <2>3. t \in Ids
    BY <1>2
  <2>4. Sound(led') /\ led' \in Ledger
    <3>1. Legal(led, e)
      BY <1>7, Appending
    <3> QED
      BY <1>3, <1>6, <1>7, <3>1, Appending, SoundKept DEF IInv, Sound
  <2>5. \A m \in Ids : led'.node[m] = "absent" <=> led.node[m] = "absent"
    <3> SUFFICES ASSUME NEW m \in Ids PROVE led'.node[m] = "absent" <=> led.node[m] = "absent"
      OBVIOUS
    <3>1. CASE m \notin ts \cup {n}
      BY <1>3, <1>4, <1>7, <3>1, Appending, Untouched
    <3>2. CASE m \in ts
      BY <1>5, <1>9, <1>10, <3>2 DEF DepsSettled, DepSettled
    <3>3. CASE m = n
      BY <1>1, <1>9, <3>3
    <3> QED BY <3>1, <3>2, <3>3
  <2>6. AfterRevise(led', t, n) = AfterRevise(led, t, n)
    BY <1>4, <1>9, <2>3, <2>4, <2>5, SameRevise
  <2>7. led'.verdict[n] = "revise" /\ led'.node[n] = "failed" /\ led'.node[t] = "failed"
    BY <1>4, <1>9, <1>10, <2>2
  <2>8. ReviseScript(n, t)'
    BY <1>1, <2>2, <2>6, <2>7 DEF ReviseScript
  <2> QED
    BY <2>3, <2>8 DEF TaskScript
<1>14. caller' \in {"none", "task"}
  BY Appending
<1> HIDE DEF ts
<1> QED
  BY <1>3, <1>6, <1>7, <1>11, <1>12, <1>13, <1>14, WriteStep

\* Opening the gate of a premium rework keeps the invariant and is safe.
LEMMA GateScriptWrites ==
  ASSUME IInv, Write, caller = "task", GateScript
  PROVE  IInv' /\ Safe(led, Head(todo))
<1>1. PICK m \in Ids : /\ Head(todo) = GateOpened(m) /\ NeedsApproval(led, m)
                       /\ led.node[m] = "pending" /\ pc[m] = "none"
  BY Appending DEF GateScript
<1>2. led' = [led EXCEPT !.gate[m] = "open"]
  BY <1>1, Appending DEF Applied, GateOpened
<1>3. led'.node = led.node /\ led'.gate = [led.gate EXCEPT ![m] = "open"]
  BY <1>2, Appending DEF Ledger
<1>4. ASSUME NEW x \in Ids, NeedsApproval(led, x) PROVE NeedsApproval(led', x)
  BY <1>3, <1>4, NodePairs, PlannedAreNodes, Appending DEF NeedsApproval, Ledger
<1>5. GateScript'
  <2> SUFFICES ASSUME NEW i \in DOMAIN todo'
               PROVE  \E x \in Ids : /\ todo'[i] = GateOpened(x) /\ NeedsApproval(led', x)
                                     /\ led'.node[x] = "pending" /\ pc'[x] = "none"
    BY DEF GateScript
  <2>1. i + 1 \in DOMAIN todo /\ todo'[i] = todo[i + 1]
    BY Appending
  <2>2. PICK x \in Ids : /\ todo[i + 1] = GateOpened(x) /\ NeedsApproval(led, x)
                         /\ led.node[x] = "pending" /\ pc[x] = "none"
    BY <2>1 DEF GateScript
  <2> QED
    BY <1>3, <1>4, <2>1, <2>2, Appending
<1>6. caller' \in {"none", "task"}
  BY Appending
<1> QED
  BY <1>1, <1>5, <1>6, GateWrites DEF TaskScript

\* What follows a revise verdict keeps the invariant and is safe.
LEMMA ReviseWrites ==
  ASSUME IInv, Write, caller = "task", NEW n \in Ids, NEW t \in Ids, ReviseScript(n, t)
  PROVE  IInv' /\ Safe(led, Head(todo))
<1>1. /\ IsVerifier(n) /\ DepsOf(n) = {t} /\ todo = AfterRevise(led, t, n)
      /\ led.verdict[n] = "revise" /\ led.node[n] = "failed" /\ led.node[t] = "failed"
  BY DEF ReviseScript
<1>2. /\ pc' = pc /\ res' = res /\ lost' = lost /\ led \in Ledger /\ caller' \in {"none", "task"}
      /\ led.node \in [Ids -> NodeState]
  BY Appending DEF Ledger
<1>3. CASE Reworked(led, <<t[1], 0>>)
  <2>1. GateExhausted(t) \in Event /\ GateExhausted(t).type = "rework_exhausted"
    BY EventTypes DEF GateExhausted
  <2>2. todo = <<GateExhausted(t)>>
    BY <1>1, <1>3 DEF AfterRevise
  <2>3. todo' = << >> /\ Head(todo) = GateExhausted(t)
    BY <2>1, <2>2, Appending, TodoForms
  <2>4. caller' = "none"
    BY <2>3, Appending
  <2> QED
    BY <2>1, <2>3, <2>4, MarkWrites
<1>4. CASE ~Reworked(led, <<t[1], 0>>)
  <2> DEFINE e == ReworkOf(t, n)
             a == When(NeedsApproval(led, Rework(t)), <<GateOpened(Rework(t))>>)
             b == When(NeedsApproval(led, Rework(n)), <<GateOpened(Rework(n))>>)
  <2>1. /\ Rework(t) \in Ids /\ Rework(n) \in Ids /\ e \in Event
        /\ GateOpened(Rework(t)) \in Event /\ GateOpened(Rework(n)) \in Event
    BY NodePairs, EventTypes
  <2>2. /\ a \in Seq(Event) /\ b \in Seq(Event)
        /\ \A i \in DOMAIN a : a[i] = GateOpened(Rework(t)) /\ NeedsApproval(led, Rework(t))
        /\ \A i \in DOMAIN b : b[i] = GateOpened(Rework(n)) /\ NeedsApproval(led, Rework(n))
    BY <2>1 DEF When
  <2>3. todo = <<e>> \o a \o b
    BY <1>1, <1>4 DEF AfterRevise
  <2>4. e.type = "rework_created" /\ e.node = t /\ e.verifier = n
    BY DEF ReworkOf
  <2>5. t \in Planned /\ n \in Planned /\ t \in DepsOf(n)
    <3>1. t[2] = 0
      <4>1. t[2] = 1 => Rework(<<t[1], 0>>) = t
        BY NodePairs DEF Rework
      <4> QED
        BY <1>1, <1>4, <4>1, NodePairs DEF Reworked
    <3>2. t \in DepsOf(n) /\ t[2] = n[2]
      BY <1>1 DEF DepsOf
    <3> QED
      BY <3>1, <3>2, PlannedAreNodes
  <2>6. Safe(led, e)
    BY <1>1, <2>4, <2>5 DEF Safe
  <2> HIDE DEF e, a, b
  <2>7. \A i \in DOMAIN todo : i # 1 =>
          \/ todo[i] = GateOpened(Rework(t)) /\ NeedsApproval(led, Rework(t))
          \/ todo[i] = GateOpened(Rework(n)) /\ NeedsApproval(led, Rework(n))
    <3>1. /\ <<e>> \in Seq(Event) /\ Len(<<e>>) = 1 /\ Len(a) \in Nat /\ Len(b) \in Nat
          /\ DOMAIN a = 1 .. Len(a) /\ DOMAIN b = 1 .. Len(b)
      BY <2>1, <2>2
    <3>2. /\ <<e>> \o a \in Seq(Event) /\ Len(<<e>> \o a) = 1 + Len(a)
          /\ \A i \in 1 .. 1 + Len(a) : (<<e>> \o a)[i] = IF i <= 1 THEN <<e>>[i] ELSE a[i - 1]
      BY <2>2, <3>1, ConcatProperties
    <3>3. /\ todo \in Seq(Event) /\ Len(todo) = 1 + Len(a) + Len(b)
          /\ \A i \in 1 .. 1 + Len(a) + Len(b) :
               todo[i] = IF i <= 1 + Len(a) THEN (<<e>> \o a)[i] ELSE b[i - (1 + Len(a))]
      BY <2>2, <2>3, <3>1, <3>2, ConcatProperties
    <3> SUFFICES ASSUME NEW i \in DOMAIN todo, i # 1
                 PROVE  \/ todo[i] = GateOpened(Rework(t)) /\ NeedsApproval(led, Rework(t))
                        \/ todo[i] = GateOpened(Rework(n)) /\ NeedsApproval(led, Rework(n))
      OBVIOUS
    <3>4. i \in 2 .. 1 + Len(a) + Len(b)
      BY <3>1, <3>3
    <3>5. CASE i <= 1 + Len(a)
      <4>1. i - 1 \in DOMAIN a /\ todo[i] = a[i - 1]
        BY <3>1, <3>2, <3>3, <3>4, <3>5
      <4> QED
        BY <2>2, <4>1
    <3>6. CASE i > 1 + Len(a)
      <4>1. i - (1 + Len(a)) \in DOMAIN b /\ todo[i] = b[i - (1 + Len(a))]
        BY <3>1, <3>3, <3>4, <3>6
      <4> QED
        BY <2>2, <4>1
    <3> QED BY <3>1, <3>4, <3>5, <3>6
  <2>8. Head(todo) = e
    <3>1. <<e>> \o a \in Seq(Event) /\ <<e>> \o a # << >> /\ Head(<<e>> \o a) = e
      BY <2>1, <2>2
    <3>2. Head((<<e>> \o a) \o b) = e
      BY <2>2, <3>1
    <3> QED
      BY <2>3, <3>2
  <2>9. /\ led' = Applied(led, e) /\ Legal(led, e)
    BY <2>8, Appending
  <2>10. led.node[Rework(t)] = "absent" /\ led.node[Rework(n)] = "absent"
    <3>1. LegalWhenPublished(led, e)
      BY <2>1, <2>4, <2>9, LegalPublished DEF Created, Published
    <3>2. MayRework(led, e)
      BY <2>4, <3>1 DEF LegalWhenPublished
    <3> QED
      BY <2>4, <2>5, <3>2, PlannedAreNodes DEF MayRework, Reworked
  <2>11. /\ led'.node[Rework(t)] = "pending" /\ led'.node[Rework(n)] = "pending"
         /\ led'.gate = led.gate
    <3>1. led'.node = [led.node EXCEPT ![Rework(t)] = "pending", ![Rework(n)] = "pending"]
      BY <1>2, <2>1, <2>4, <2>9, AppliedNode
    <3>2. led'.gate = led.gate
      BY <1>2, <2>1, <2>4, <2>9, AppliedRest
    <3> QED
      BY <1>2, <2>1, <3>1, <3>2
  <2>12. ASSUME NEW m \in {Rework(t), Rework(n)}
         PROVE  pc[m] = "none" /\ Resting(m)' /\ m \notin lost
    <3>1. m \in Ids /\ led.node[m] = "absent"
      BY <2>1, <2>10
    <3>2. Taken(m) /\ Dropped(m)
      BY <3>1 DEF IInv, NodesFit
    <3>3. pc[m] = "none" /\ m \notin lost
      BY <3>1, <3>2 DEF Taken, Dropped, InFlightStates
    <3> QED
      BY <1>2, <2>11, <3>3 DEF Resting, InFlightStates
  <2>13. GateScript'
    <3> SUFFICES ASSUME NEW i \in DOMAIN todo'
                 PROVE  \E x \in Ids : /\ todo'[i] = GateOpened(x) /\ NeedsApproval(led', x)
                                       /\ led'.node[x] = "pending" /\ pc'[x] = "none"
      BY DEF GateScript
    <3>1. i + 1 \in DOMAIN todo /\ todo'[i] = todo[i + 1] /\ i + 1 # 1
      <4>1. i + 1 \in DOMAIN todo /\ todo'[i] = todo[i + 1]
        BY Appending
      <4>2. i \in Nat \ {0}
        BY Heads, Appending DEF IInv
      <4> QED
        BY <4>1, <4>2
    <3>2. PICK x \in {Rework(t), Rework(n)} : todo'[i] = GateOpened(x) /\ NeedsApproval(led, x)
      BY <2>7, <3>1
    <3>3. NeedsApproval(led', x)
      BY <2>11, <3>2 DEF NeedsApproval
    <3> QED
      BY <1>2, <2>1, <2>11, <2>12, <3>2, <3>3
  <2>14. Touched(e) = {Rework(t), Rework(n)}
    BY <2>4 DEF Touched
  <2> QED
    BY <1>2, <2>4, <2>6, <2>8, <2>12, <2>13, <2>14, WriteStep DEF TaskScript
<1> QED
  BY <1>3, <1>4

\* Every append keeps the invariant and is safe.
LEMMA WriteKeeps == ASSUME IInv, Write PROVE IInv' /\ Safe(led, Head(todo))
<1>1. CASE caller = "task"
  <2>1. CASE \E n \in Ids : Writing(n)
    <3>1. PICK n \in Ids : Writing(n)
      BY <2>1
    <3> QED
      BY <1>1, <3>1, TaskWrites, PassWrites, VerdictWrites DEF Writing
  <2>2. CASE \E n, t \in Ids : ReviseScript(n, t)
    BY <1>1, <2>2, ReviseWrites
  <2>3. CASE GateScript
    BY <1>1, <2>3, GateScriptWrites
  <2> QED
    BY <1>1, <2>1, <2>2, <2>3 DEF IInv, ScriptFits, TaskScript
<1>2. CASE caller = "advance"
  BY <1>2, TerminalWrites DEF IInv, ScriptFits
<1> QED
  BY <1>1, <1>2, StartWrites, CancelWrites, UserWrites, Appending DEF IInv, TypeOK, Callers

\* Every step keeps the invariant.
LEMMA NextKeeps == ASSUME IInv, [Next]_vars PROVE IInv'
<1>1. CASE UNCHANGED vars
  <2>1. UNCHANGED <<led, up, todo, caller, pc, res, wave, adv, canc, awaited, reason, launched,
                    raised, asked, lost, failures, crashes, cancels>>
    BY <1>1 DEF vars, tasks, stop, history
  <2>2. TypeOK' /\ TodoTyped' /\ Control' /\ Sound(led)'
    BY <2>1 DEF IInv, TypeOK, TodoTyped, Control, CancelIsNext, Idle, Quiet
  <2>3. ASSUME NEW n \in Ids
        PROVE  /\ Writing(n)' <=> Writing(n)
               /\ Resting(n)' <=> Resting(n)
               /\ Dropping(n)' <=> Dropping(n)
               /\ Skipping(n)' <=> Skipping(n)
               /\ \A t \in Ids : ReviseScript(n, t)' <=> ReviseScript(n, t)
    <3>1. \A o \in Outcomes : FinishWriting(n, o)' <=> FinishWriting(n, o)
      BY <2>1 DEF FinishWriting
    <3>2. \A k \in Verdicts : VerdictWriting(n, k)' <=> VerdictWriting(n, k)
      BY <2>1 DEF VerdictWriting
    <3>3. Writing(n)' <=> Writing(n)
      BY <2>1, <3>1, <3>2 DEF Writing, ReadyWriting, DispatchWriting, RunWriting, RetryWriting,
         BlockWriting, PassWriting, Fresh
    <3>4. Resting(n)' <=> Resting(n)
      BY <2>1 DEF Resting, Fresh
    <3> QED
      BY <2>1, <3>3, <3>4 DEF Dropping, Skipping, ReviseScript
  <2>4. ScriptFits'
    <3>1. TaskScript' <=> TaskScript
      BY <2>1, <2>3 DEF TaskScript, GateScript
    <3>2. CancelScript' <=> CancelScript
      BY <2>1, <2>3 DEF CancelScript, Idle
    <3>3. UserScript' <=> UserScript
      BY <2>1, <2>3 DEF UserScript
    <3>4. StartScript' <=> StartScript
      BY <2>1 DEF StartScript, FirstStart, Restart
    <3> QED
      BY <2>1, <3>1, <3>2, <3>3, <3>4 DEF IInv, ScriptFits, Idle
  <2>5. NodesFit'
    BY <2>1, <2>3 DEF IInv, NodesFit, Taken, Recorded, Dropped
  <2> QED
    BY <2>2, <2>4, <2>5 DEF IInv
<1>2. CASE Next
  BY <1>2, WriteKeeps, RefusedKeeps, CrashKeeps, StartKeeps, ExecuteNodeKeeps, AdvanceKeeps,
     GatheredKeeps, CancelKeeps, WaitKeeps, CancelNodeKeeps, ResolveKeeps DEF Next
<1> QED
  BY <1>1, <1>2

(* The inductive invariant: how the journal and the coroutines of the engine *)
(* agree at every await and between every two appends.                       *)
THEOREM EngineInvariant == Spec => []IInv
<1>1. Init => IInv
  BY InitFits
<1>2. IInv /\ [Next]_vars => IInv'
  BY NextKeeps
<1> QED
  BY <1>1, <1>2, PTL DEF Spec

(* Every variable of the engine has its type at all times.                   *)
THEOREM EngineTyped == Spec => []TypeOK
<1>1. IInv => TypeOK
  BY DEF IInv
<1> QED
  BY <1>1, EngineInvariant, PTL

(* The scheduler's promise, for every plan: what was ever dispatched had its *)
(* dependencies met for good, and nothing premium runs without a human's yes *)
(* for that node or for the node it revises (scheduler.py, ADR 0007).        *)
THEOREM EngineLaunchesAllowed == Spec => []LaunchesAllowed
<1>1. ASSUME IInv, NEW n \in Ids, led.attempts[n] # << >>, NEW d \in DepsOf(n)
      PROVE  \/ led.node[d] = "passed"
             \/ /\ IsVerifier(n) \/ n[1] \in Reviewers
                /\ led.node[d] \in {"awaiting_verification", "failed", "inconclusive"}
                /\ Last(led.attempts[d]) = "succeeded"
  <2>1. DepSettled(led, n, d)
    BY <1>1 DEF IInv, Sound, DepsSettled
  <2> QED
    BY <2>1 DEF DepSettled, Looks, LastState, Last
<1>2. ASSUME IInv, NEW n \in Ids, launched[n] > 0, n[1] \in Premium
      PROVE  "use_fallback" \in {led.gate[n], led.gate[<<n[1], 0>>]} \/ n \in Approved(led)
  BY <1>2 DEF IInv, NodesFit, Recorded, NeedsApproval
<1>3. IInv => LaunchesAllowed
  BY <1>1, <1>2 DEF LaunchesAllowed
<1> QED
  BY <1>3, EngineInvariant, PTL

(* The adapter is never asked to run a node more often than the journal has  *)
(* attempts for it, over any number of deaths, and a second attempt follows  *)
(* only on an unknown first one.                                             *)
THEOREM EngineLaunchesRecorded == Spec => []LaunchesRecorded
<1>1. IInv => LaunchesRecorded
  BY DEF IInv, NodesFit, Recorded, Sound, AttemptsFit, LaunchesRecorded
<1> QED
  BY <1>1, EngineInvariant, PTL

(* No node passes on its own word, whoever judges whom in the plan.          *)
THEOREM EnginePassNeedsVerdict == Spec => []PassNeedsVerdict
<1>1. ASSUME IInv, NEW n \in Nodes(led), led.node[n] = "passed"
      PROVE  /\ led.attempts[n] # << >> /\ Last(led.attempts[n]) = "succeeded"
             /\ \/ (IsVerifier(n) \/ n[1] \in Deterministic) /\ led.verdict[n] = "pass"
                \/ \E v \in Nodes(led) : IsVerifier(v) /\ n \in DepsOf(v) /\ led.verdict[v] = "pass"
  <2>1. n \in Ids /\ led \in Ledger /\ AttemptsFit(led, n) /\ Proven(led, n)
    BY <1>1 DEF Nodes, IInv, Sound
  <2>2. LastState(led, n) = "succeeded"
    BY <1>1, <2>1 DEF AttemptsFit, Left
  <2>3. led.attempts[n] # << >> /\ Last(led.attempts[n]) = "succeeded"
    BY <2>2 DEF LastState, Last
  <2>4. ASSUME NEW v \in Ids, led.verdict[v] = "pass" PROVE v \in Nodes(led)
    BY <1>1, <2>4 DEF IInv, Sound, VerdictFits, Nodes
  <2> QED
    BY <1>1, <2>1, <2>3, <2>4 DEF Proven
<1>2. IInv => PassNeedsVerdict
  BY <1>1 DEF PassNeedsVerdict
<1> QED
  BY <1>2, EngineInvariant, PTL

(* A revision stands only for work that failed on a revise, and stays failed *)
(* (ADR 0005, decision 9).                                                   *)
THEOREM EngineRevisions == Spec => []RevisionsReplaceFailures
<1>1. IInv => RevisionsReplaceFailures
  BY PlannedAreNodes DEF IInv, Sound, RevisionFits, RevisionsReplaceFailures
<1> QED
  BY <1>1, EngineInvariant, PTL

\* The only step that launches
LEMMA OneLauncher ==
  ASSUME IInv, [Next]_vars, NEW n \in Ids, launched'[n] # launched[n]
  PROVE  Launched(n)
<1>1. CASE UNCHANGED vars
  BY <1>1 DEF vars, history
<1>2. CASE \E m \in Ids : ExecuteNode(m)
  <2>1. PICK m \in Ids : ExecuteNode(m)
    BY <1>2
  <2>2. Launched(m)
    BY <2>1 DEF ExecuteNode, Begin, SessionStarted, SessionFails, LaunchFails, GivesUp, StoppedAtOnce,
       Reported, Breaks, VerdictPublished, NoVerdict, Collected, Released, history
  <2>3. m = n
    BY <2>2 DEF Launched, IInv, TypeOK
  <2> QED
    BY <2>2, <2>3
<1>3. CASE Next /\ ~ \E m \in Ids : ExecuteNode(m)
  BY <1>3 DEF Next, Write, Refused, Crash, Start, Advance, Gathered, Cancel, DispatchesStopped,
     TasksGathered, CancelNode, CancelEnds, ResolvePremiumGate, history
<1> QED
  BY <1>1, <1>2, <1>3

(* Once the run has ended nothing is launched any more, not even by the      *)
(* tasks of a wave that began while cancel was waiting.                      *)
THEOREM EngineQuietAfterEnd == Spec => QuietAfterEnd
<1>1. ASSUME IInv, [Next]_vars, led.terminal # "none" PROVE UNCHANGED launched
  <2>1. ASSUME NEW n \in Ids, Launched(n) PROVE FALSE
    BY <1>1, <2>1, Found DEF Launched, At, Quiet
  <2>2. \A n \in Ids : launched'[n] = launched[n]
    BY <1>1, <2>1, OneLauncher
  <2>3. launched \in [Ids -> Nat] /\ launched' \in [Ids -> Nat]
    BY <1>1, NextKeeps DEF IInv, TypeOK
  <2> QED
    BY <2>2, <2>3
<1>2. IInv /\ [Next]_vars => [led.terminal # "none" => UNCHANGED launched]_vars
  BY <1>1
<1> QED
  BY <1>2, EngineInvariant, PTL DEF Spec, QuietAfterEnd

(* An attempt that was in flight when its process died, or ended in an       *)
(* outcome nobody knows, is never launched again (PORTABILITY_CONTRACT 6.1). *)
THEOREM EngineUnknownNeverRelaunched == Spec => UnknownNeverRelaunched
<1>1. ASSUME IInv, [Next]_vars, NEW n \in Ids, Abandoned(n) PROVE launched'[n] = launched[n]
  <2>1. ASSUME Launched(n) PROVE FALSE
    <3>1. pc[n] = "launch" /\ Dropped(n)
      BY <1>1, <2>1 DEF Launched, At, IInv, NodesFit
    <3> QED
      BY <1>1, <3>1 DEF Abandoned, Dropped
  <2> QED
    BY <1>1, <2>1, OneLauncher
<1>2. IInv /\ [Next]_vars =>
        [\A n \in Ids : Abandoned(n) => launched'[n] = launched[n]]_vars
  BY <1>1
<1> QED
  BY <1>2, EngineInvariant, PTL DEF Spec, UnknownNeverRelaunched
-----------------------------------------------------------------------------
(* The limit on parallel work.  Active nodes alone are not inductive: a node *)
(* that advance has chosen becomes active only when its dispatch is          *)
(* journaled, after the session has started.  Its slot and its file scope    *)
(* are taken from the moment it is chosen.                                   *)

Awaiting == {n \in Ids : pc[n] \in {"begin", "session", "launch"}}
Reserve  == Active(led) \cup Awaiting
WaveInv  ==
  /\ Cardinality(Reserve) <= MaxWip
  /\ \A m, n \in Reserve : m # n => ~Clash(m, n)

\* a step that brings nobody in
LEMMA ReserveShrinks ==
  ASSUME WaveInv, Reserve' \subseteq Reserve
  PROVE  WaveInv'
<1>1. IsFiniteSet(Reserve) /\ MaxWip \in Nat
  <2>1. Reserve \subseteq Ids
    BY DEF Reserve, Active, Awaiting
  <2> QED
    BY <2>1, FiniteNodes, FS_Subset, EngineAssumption
<1>2. Cardinality(Reserve') <= Cardinality(Reserve) /\ IsFiniteSet(Reserve')
  BY <1>1, FS_Subset
<1>3. Cardinality(Reserve) \in Nat /\ Cardinality(Reserve') \in Nat
  BY <1>1, <1>2, FS_CardinalityType
<1>4. Cardinality(Reserve') <= MaxWip
  BY <1>1, <1>2, <1>3 DEF WaveInv
<1>5. \A m, n \in Reserve' : m # n => ~Clash(m, n)
  BY DEF WaveInv
<1> QED
  BY <1>4, <1>5 DEF WaveInv, Clash

\* coroutines that move on, in the same order or out of the loop, while nothing is appended
LEMMA ReserveMoves ==
  ASSUME UNCHANGED led,
         \A n \in Ids : pc'[n] \in {"begin", "session", "launch"} =>
           pc[n] \in {"begin", "session", "launch"} \/ led.node[n] = "outcome_unknown"
  PROVE  Reserve' \subseteq Reserve
BY DEF Reserve, Active, Awaiting

\* who appends the dispatch of a node
LEMMA DispatcherNode ==
  ASSUME IInv, Write, Head(todo).type = "attempt_dispatched"
  PROVE  pc[Head(todo).node] = "launch"
<1> DEFINE e == Head(todo)
<1>1. /\ e = todo[1] /\ 1 \in DOMAIN todo /\ caller # "none" /\ e.type = "attempt_dispatched"
      /\ todo # << >>
  BY Appending
<1> HIDE DEF e
<1>2. CASE caller = "task"
  <2>1. CASE \E n \in Ids : Writing(n)
    BY <1>1, <2>1, WriterNode DEF e
  <2>2. CASE \E n, t \in Ids : ReviseScript(n, t)
    <3>1. PICK n \in Ids, t \in Ids : todo = AfterRevise(led, t, n)
      BY <2>2 DEF ReviseScript
    <3>2. \/ e = GateExhausted(t)
          \/ e = ReworkOf(t, n)
      <4>1. \A x, y, z : (<<x>> \o y \o z)[1] = x \/ y \notin Seq(Event) \/ z \notin Seq(Event)
        OBVIOUS
      <4>2. \A b, x : x \in Event => When(b, <<x>>) \in Seq(Event)
        BY DEF When
      <4>3. GateOpened(Rework(t)) \in Event /\ GateOpened(Rework(n)) \in Event
        BY NodePairs, EventTypes
      <4> QED
        BY <1>1, <3>1, <4>1, <4>2, <4>3 DEF AfterRevise
    <3> QED
      BY <1>1, <3>2 DEF GateExhausted, ReworkOf
  <2>3. CASE GateScript
    BY <1>1, <2>3 DEF GateScript, GateOpened
  <2> QED
    BY <1>2, <2>1, <2>2, <2>3 DEF IInv, ScriptFits, TaskScript
<1>3. CASE caller = "start"
  BY <1>1, <1>3 DEF IInv, ScriptFits, StartScript, FirstStart, Restart, Created, Published,
     GateOpened, Reconciled
<1>4. CASE caller = "advance"
  BY <1>1, <1>4 DEF IInv, ScriptFits, Terminal
<1>5. CASE caller = "cancel"
  BY <1>1, <1>5 DEF IInv, ScriptFits, CancelScript, Dropping, Terminal, Status, GateResolved
<1>6. CASE caller = "user"
  BY <1>1, <1>6 DEF IInv, ScriptFits, UserScript, Skipping, Status, GateResolved
<1> QED
  BY <1>1, <1>2, <1>3, <1>4, <1>5, <1>6 DEF e, IInv, TypeOK, Callers

\* an event makes a node active only if it was dispatched, and then it was awaited
LEMMA WriteReserve == ASSUME IInv, Write PROVE Reserve' \subseteq Reserve
<1> DEFINE e == Head(todo)
           Busy == {"assigned", "running", "outcome_unknown"}
<1>1. /\ e \in Event /\ Legal(led, e) /\ led' = Applied(led, e) /\ led \in Ledger /\ pc' = pc
      /\ led.terminal = "none"
  BY Appending
<1>2. e.type = "attempt_dispatched" => pc[e.node] = "launch"
  BY DispatcherNode
<1> HIDE DEF e
<1>3. ASSUME NEW n \in Ids, led'.node[n] \in Busy, led.node[n] \notin Busy
      PROVE  pc[n] = "launch"
  <2>1. n \in Touched(e)
    BY <1>1, <1>3, Untouched
  <2>2. e.type \notin {"run_created", "graph_published"}
    BY <2>1 DEF Touched
  <2>3. LegalWhenPublished(led, e)
    BY <1>1, <2>2, LegalPublished DEF IInv, Created, Published
  <2>4. \A s \in Busy : CanMove(led, n, s) => s = "assigned"
    BY <1>3 DEF CanMove, NodeMoves
  <2>5. ~HasAttemptInFlight(led, n)
    <3>1. AttemptsFit(led, n) /\ led.node[n] \in NodeState
      BY <1>1 DEF IInv, Sound, Ledger
    <3>2. LastState(led, n) \notin InFlight
      BY <1>3, <3>1 DEF AttemptsFit, Left, NodeState, InFlight
    <3> QED
      BY <1>1, <3>2, LastStates
  <2>6. CASE e.type = "node_status_changed"
    <3>1. PICK m \in Ids, s \in {"ready", "cancelled", "blocked"} : e = Status(m, s)
      BY <1>1, <2>6, EventFields DEF Created, Published, Status, Running, Dispatched, Finished,
         Reconciled, Retried, ReworkOf, GateOpened, GateExhausted, GateResolved, Verdict, Terminal
    <3>2. led' = Applied(led, Status(m, s)) /\ led \in Ledger
      BY <1>1, <3>1
    <3>3. led'.node = [led.node EXCEPT ![m] = s]
      <4>1. e.node = m /\ e.status = s
        BY <3>1 DEF Status
      <4>2. Applied(led, e).node = [led.node EXCEPT ![e.node] = e.status]
        BY <1>1, <2>6, AppliedNode
      <4> QED
        BY <1>1, <4>1, <4>2
    <3> QED
      BY <1>1, <1>3, <3>1, <3>3 DEF Ledger
  <2>7. CASE e.type = "running"
    BY <2>1, <2>3, <2>4, <2>7 DEF Touched, LegalWhenPublished, MayStart
  <2>8. CASE e.type \in {"worker_finished", "reconciled"}
    BY <2>1, <2>3, <2>5, <2>8 DEF Touched, LegalWhenPublished, MayFinish, MayReconcile
  <2>9. CASE e.type = "retry_created"
    <3>1. e.node = n
      BY <2>1, <2>9 DEF Touched
    <3>2. e = Retried(n)
      BY <1>1, <2>9, <3>1, EventFields DEF Created, Published, Status, Running, Dispatched, Finished,
         Reconciled, Retried, ReworkOf, GateOpened, GateExhausted, GateResolved, Verdict, Terminal
    <3>3. led'.node = [led.node EXCEPT ![n] = "ready"]
      BY <1>1, <3>2, NodeEffects
    <3> QED
      BY <1>1, <1>3, <3>3 DEF Ledger
  <2>10. CASE e.type = "attempt_dispatched"
    BY <1>2, <2>1, <2>10 DEF Touched
  <2>11. CASE e.type = "verdict_recorded"
    <3>1. /\ e.verdict \in Verdicts
          /\ \A m \in Ids : led'.node[m] =
               IF m \in e.targets THEN Judged(e.verdict)
               ELSE IF FollowsVerdict(led, e) /\ m = e.node THEN OwnState(e) ELSE led.node[m]
      <4>1. e.verdict \in Verdicts
        BY <1>1, <2>11, EventFields DEF Created, Published, Status, Running, Dispatched, Finished,
           Reconciled, Retried, ReworkOf, GateOpened, GateExhausted, GateResolved, Verdict, Terminal
      <4>2. led' = Applied(led, e) /\ led \in Ledger /\ e \in Event
        BY <1>1
      <4>3. \A m \in Ids : Applied(led, e).node[m] =
               IF m \in e.targets THEN Judged(e.verdict)
               ELSE IF FollowsVerdict(led, e) /\ m = e.node THEN OwnState(e) ELSE led.node[m]
        BY <2>11, <4>2, AppliedVerdict, Zenon
      <4> QED
        BY <4>1, <4>2, <4>3, Zenon
    <3>2. Judged(e.verdict) \notin Busy /\ OwnState(e) \notin Busy
      BY <3>1 DEF Judged, OwnState, Verdicts
    <3> QED
      BY <1>3, <3>1, <3>2
  <2>12. CASE e.type = "rework_created"
    <3>1. led'.node = [led.node EXCEPT ![Rework(e.node)] = "pending", ![Rework(e.verifier)] = "pending"]
      BY <1>1, <2>12, AppliedNode
    <3> QED
      BY <1>1, <1>3, <3>1 DEF Ledger
  <2> QED
    BY <2>1, <2>6, <2>7, <2>8, <2>9, <2>10, <2>11, <2>12 DEF Touched
<1> QED
  BY <1>1, <1>3 DEF Reserve, Active, Awaiting

\* a wave is chosen when no coroutine is under way, and fits the free slots
LEMMA AdvanceReserve == ASSUME IInv, WaveInv, Advance PROVE WaveInv'
<1>1. PICK S \in Waves(led) : pc' = [n \in Ids |-> IF n \in S THEN "begin" ELSE pc[n]]
  BY DEF Advance
<1>2. adv = "idle" /\ led' = led
  BY DEF Advance
<1>3. \A n \in Ids : pc[n] = "none"
  BY <1>2 DEF IInv, Control
<1> DEFINE A == Active(led)
           free == IF Cardinality(A) < MaxWip THEN MaxWip - Cardinality(A) ELSE 0
<1>4. /\ S \subseteq Ids /\ A \subseteq Ids
      /\ \A n \in S : \A m \in A : ~Clash(m, n)
      /\ \A m, n \in S : m # n => ~Clash(m, n)
      /\ Cardinality(S) <= free
      /\ S \cap A = {}
  BY DEF Waves, Candidates, Active
<1>5. Reserve' = A \cup S /\ Reserve = A
  BY <1>1, <1>2, <1>3, <1>4 DEF Reserve, Active, Awaiting
<1>6. \A m, n : Clash(m, n) <=> Clash(n, m)
  <2>1. \A x, y : {x, y} = {y, x}
    OBVIOUS
  <2> QED
    BY <2>1 DEF Clash
<1>7. \A m, n \in Reserve' : m # n => ~Clash(m, n)
  <2>1. \A m, n \in A : m # n => ~Clash(m, n)
    BY <1>5 DEF WaveInv
  <2> HIDE DEF A
  <2> QED
    BY <1>4, <1>5, <1>6, <2>1, Zenon
<1>8. IsFiniteSet(A) /\ IsFiniteSet(S)
  BY <1>4, FiniteNodes, FS_Subset
<1>9. /\ Cardinality(A) \in Nat /\ Cardinality(S) \in Nat /\ MaxWip \in Nat
      /\ Cardinality(A \cup S) = Cardinality(A) + Cardinality(S)
  <2>1. Cardinality(A \cup S) = Cardinality(A) + Cardinality(S) - Cardinality(A \cap S)
    BY <1>8, FS_Union
  <2>2. A \cap S = {} /\ Cardinality(A \cap S) = 0
    BY <1>4, FS_EmptySet
  <2>3. Cardinality(A) \in Nat /\ Cardinality(S) \in Nat
    BY <1>8, FS_CardinalityType
  <2> QED
    BY <2>1, <2>2, <2>3, EngineAssumption
<1>10. Cardinality(A) <= MaxWip
  BY <1>5 DEF WaveInv
<1> HIDE DEF A
<1>11. Cardinality(Reserve') <= MaxWip
  BY <1>4, <1>5, <1>9, <1>10
<1> QED
  BY <1>7, <1>11 DEF WaveInv, Clash

\* Every step keeps the limit and the scopes of the reserved nodes.
LEMMA WaveInvKept == ASSUME IInv, WaveInv, [Next]_vars PROVE WaveInv'
<1> DEFINE Ahead == {"begin", "session", "launch"}
<1>0. pc \in [Ids -> Stations]
  BY DEF IInv, TypeOK
<1>1. CASE Write
  BY <1>1, WriteReserve, ReserveShrinks
<1>2. CASE Advance
  BY <1>2, AdvanceReserve
<1>3. CASE \E n \in Ids : ExecuteNode(n)
  <2>1. PICK n \in Ids : ExecuteNode(n)
    BY <1>3
  <2>2. UNCHANGED led
    BY <2>1 DEF ExecuteNode, Begin, SessionStarted, SessionFails, Launched, LaunchFails, GivesUp,
       StoppedAtOnce, Reported, Breaks, VerdictPublished, NoVerdict, Collected, Released
  <2>3. \E y \in Stations :
          /\ pc' = [pc EXCEPT ![n] = y]
          /\ y \in Ahead => pc[n] \in Ahead \/ led.node[n] = "outcome_unknown"
    BY <2>1 DEF ExecuteNode, Begin, SessionStarted, SessionFails, Launched, LaunchFails, GivesUp,
       StoppedAtOnce, Reported, Breaks, VerdictPublished, NoVerdict, Collected, Released, Goto, At,
       Stations
  <2>4. \A m \in Ids : pc'[m] \in Ahead => pc[m] \in Ahead \/ led.node[m] = "outcome_unknown"
    BY <1>0, <2>3
  <2> QED
    BY <2>2, <2>4, ReserveMoves, ReserveShrinks
<1>4. CASE Gathered \/ Crash \/ Refused
  <2>1. UNCHANGED led
    BY <1>4 DEF Gathered, Crash, Refused
  <2>2. \A m \in Ids : pc'[m] = "none" \/ pc'[m] = pc[m]
    BY <1>4 DEF Gathered, Crash, Refused, Forgotten, tasks
  <2> QED
    BY <2>1, <2>2, ReserveMoves, ReserveShrinks
<1>5. CASE UNCHANGED <<led, pc>>
  BY <1>5, ReserveMoves, ReserveShrinks
<1>6. [Next]_vars => \/ Write \/ Advance \/ (\E n \in Ids : ExecuteNode(n))
                     \/ Gathered \/ Crash \/ Refused \/ UNCHANGED <<led, pc>>
  BY DEF Next, Start, Cancel, DispatchesStopped, TasksGathered, CancelNode, CancelEnds,
     ResolvePremiumGate, vars, tasks
<1> QED
  BY <1>1, <1>2, <1>3, <1>4, <1>5, <1>6

(* The work in progress never exceeds the scheduler's limit and overlapping  *)
(* file scopes are never active together, for any plan and over any number   *)
(* of retries, deaths and cancellations (scheduler.py:11 and :44).           *)
THEOREM EngineWaveFits == Spec => []WaveFits
<1>1. Init => WaveInv
  <2> SUFFICES ASSUME Init PROVE WaveInv
    OBVIOUS
  <2>2. Reserve = {}
    <3>1. pc = [n \in Ids |-> "none"] /\ led = EmptyLedger
      BY DEF Init
    <3>2. \A n \in Ids : led.node[n] \in {"pending", "absent"}
      BY <3>1 DEF EmptyLedger
    <3> QED
      BY <3>1, <3>2 DEF Reserve, Active, Awaiting
  <2>3. Cardinality({}) = 0
    BY FS_EmptySet
  <2> QED
    BY <2>2, <2>3, EngineAssumption DEF WaveInv
<1>2. IInv /\ WaveInv /\ [Next]_vars => WaveInv'
  BY WaveInvKept
<1>3. WaveInv => WaveFits
  <2> SUFFICES ASSUME WaveInv PROVE WaveFits
    OBVIOUS
  <2>1. Active(led) \subseteq Reserve /\ IsFiniteSet(Reserve) /\ MaxWip \in Nat
    <3>1. Reserve \subseteq Ids
      BY DEF Reserve, Active, Awaiting
    <3> QED
      BY <3>1, FiniteNodes, FS_Subset, EngineAssumption DEF Reserve
  <2>2. /\ Cardinality(Active(led)) <= Cardinality(Reserve)
        /\ Cardinality(Active(led)) \in Nat /\ Cardinality(Reserve) \in Nat
    BY <2>1, FS_Subset, FS_CardinalityType
  <2> QED
    BY <2>1, <2>2 DEF WaveInv, WaveFits
<1> QED
  BY <1>1, <1>2, <1>3, EngineInvariant, PTL DEF Spec
-----------------------------------------------------------------------------
(* The engine implements RunContract *)

\* Nothing but a revision brings a node into the graph
LEMMA BornByRevision ==
  ASSUME NEW L, Sound(L), NEW e \in Event, Legal(L, e), e.type # "rework_created",
         NEW m \in Ids, L.node[m] = "absent"
  PROVE  Applied(L, e).node[m] = "absent"
<1>0. L \in Ledger
  BY DEF Sound
<1>1. CASE m \notin Touched(e)
  BY <1>0, <1>1, Untouched
<1>2. CASE m \in Touched(e)
  <2>1. e.type \notin {"run_created", "graph_published"}
    BY <1>2 DEF Touched
  <2>2. LegalWhenPublished(L, e)
    BY <2>1, LegalPublished DEF Created, Published
  <2>3. \A s : CanMove(L, m, s) => s = "absent"
    BY DEF CanMove, NodeMoves
  <2>4. L.attempts[m] = << >> /\ ~HasAttemptInFlight(L, m)
    <3>1. LastState(L, m) = "never"
      BY DEF Sound, AttemptsFit, Left
    <3> QED
      BY <1>0, <3>1, LastStates DEF HasAttemptInFlight
  <2>5. CASE e.type = "node_status_changed"
    <3>1. e.node = m /\ CanMove(L, m, e.status)
      BY <1>2, <2>2, <2>5 DEF Touched, LegalWhenPublished, MayChangeStatus
    <3>2. e.status # "absent"
      BY <2>5, EventFields DEF Created, Published, Status, Running, Dispatched, Finished, Reconciled,
         Retried, ReworkOf, GateOpened, GateExhausted, GateResolved, Verdict, Terminal
    <3> QED
      BY <2>3, <3>1, <3>2
  <2>6. CASE e.type \in {"running", "worker_finished", "reconciled", "retry_created"}
    BY <1>2, <2>2, <2>4, <2>6 DEF Touched, LegalWhenPublished, MayStart, MayFinish, MayReconcile, MayRetry
  <2>7. CASE e.type = "attempt_dispatched"
    BY <1>2, <2>2, <2>3, <2>7 DEF Touched, LegalWhenPublished, MayDispatch
  <2>8. CASE e.type = "verdict_recorded"
    <3>1. MayJudge(L, e) /\ m \in e.targets \cup {e.node}
      BY <1>2, <2>2, <2>8 DEF Touched, LegalWhenPublished
    <3>2. m \notin e.targets
      <4>1. e.verdict \in Verdicts
        BY <2>8, EventFields DEF Created, Published, Status, Running, Dispatched, Finished, Reconciled,
           Retried, ReworkOf, GateOpened, GateExhausted, GateResolved, Verdict, Terminal
      <4>2. Judged(e.verdict) # "absent"
        BY <4>1 DEF Judged, Verdicts
      <4> QED
        BY <2>3, <3>1, <4>2 DEF MayJudge
    <3>3. ~FollowsVerdict(L, e)
      BY <3>1, <3>2 DEF FollowsVerdict
    <3> QED
      BY <1>0, <2>8, <3>2, <3>3, AppliedVerdict
  <2> QED
    BY <1>2, <2>5, <2>6, <2>7, <2>8 DEF Touched
<1> QED
  BY <1>1, <1>2

\* The initial state of the engine is one of the contract.
LEMMA ContractInit == Init => Contract!Init
BY PlannedAreNodes DEF Init, EmptyLedger, Contract!Init, Contract!Ids, Ids, Fate, Planned

\* What one node's fate may do in a step that does not revise
LEMMA FateStep ==
  ASSUME NEW L \in Ledger, NEW M \in Ledger, Advances(L, M), NEW n \in Ids,
         L.node[n] = "absent" => M.node[n] = "absent"
  PROVE  /\ Fate(M.node[n]) \in {"unborn", "open", "passed", "failed", "cancelled"}
         /\ Fate(M.node[n]) # Fate(L.node[n]) =>
              Fate(L.node[n]) = "open" /\ Fate(M.node[n]) \in {"passed", "failed", "cancelled"}
<1>1. M.node[n] \in NodeState /\ L.node[n] \in NodeState
  BY DEF Ledger
<1> QED
  BY <1>1 DEF Advances, Fate, NodeState

\* Every step of the engine is a step of the contract or a stutter.
LEMMA ContractStep ==
  ASSUME IInv, [Next]_vars
  PROVE  [Contract!Next]_(Contract!vars)
<1> DEFINE f == [n \in Ids |-> Fate(led.node[n])]
           g == [n \in Ids |-> Fate(led'.node[n])]
<1>1. CASE UNCHANGED led
  BY <1>1 DEF Contract!vars
<1>2. CASE Write
  <2> DEFINE e == Head(todo)
  <2>1. /\ led' = Applied(led, e) /\ Legal(led, e) /\ e \in Event /\ led.terminal = "none"
        /\ Sound(led) /\ Safe(led, e) /\ Sound(led')
    BY <1>2, Appending, WriteKeeps DEF IInv
  <2>2. Advances(led, led') /\ led \in Ledger /\ led' \in Ledger
    BY <2>1, SoundKept DEF Sound
  <2> HIDE DEF e
  <2>3. CASE e.type \notin {"rework_created", "run_terminal"}
    <3>1. led'.terminal = "none"
      BY <2>1, <2>2, <2>3, AppliedRest
    <3>2. \A n \in Ids : led.node[n] = "absent" => led'.node[n] = "absent"
      BY <2>1, <2>3, BornByRevision
    <3>3. \A n \in Ids :
            /\ g[n] \in {"unborn", "open", "passed", "failed", "cancelled"}
            /\ g[n] # f[n] => f[n] = "open" /\ g[n] \in {"passed", "failed", "cancelled"}
      BY <2>2, <3>2, FateStep
    <3>4. g \in [Ids -> {"passed", "failed", "cancelled", "unborn", "open"}]
      BY <3>3
    <3> HIDE DEF f, g
    <3>5. Contract!Decide
      BY <2>1, <3>1, <3>3, <3>4 DEF Contract!Decide, Contract!Ids, Contract!Fates, Ids, f, g
    <3> QED
      BY <3>5 DEF Contract!Next
  <2>4. CASE e.type = "rework_created"
    <3>1. PICK t \in Ids, v \in Ids : e = ReworkOf(t, v)
      BY <2>1, <2>4, EventFields DEF Created, Published, Status, Running, Dispatched, Finished,
         Reconciled, Retried, ReworkOf, GateOpened, GateExhausted, GateResolved, Verdict, Terminal
    <3>2. e.node = t /\ e.verifier = v
      BY <3>1 DEF ReworkOf
    <3>3. /\ t \in Planned /\ v \in Planned /\ t \in DepsOf(v)
          /\ led.node[t] = "failed" /\ led.node[v] = "failed"
      BY <2>1, <2>4, <3>2 DEF Safe
    <3>4. /\ t = <<t[1], 0>> /\ v = <<v[1], 0>> /\ t[1] \in Base /\ v[1] \in Base /\ t[1] # v[1]
      <4>1. t[2] = 0 /\ v[2] = 0
        BY <3>3, PlannedAreNodes
      <4>2. t = <<t[1], t[2]>> /\ t[1] \in Base /\ v = <<v[1], v[2]>> /\ v[1] \in Base
        BY NodePairs
      <4>3. t # v
        BY <3>3, NodePairs
      <4>4. t = <<t[1], 0>> /\ v = <<v[1], 0>>
        BY <4>1, <4>2
      <4>5. t[1] = v[1] => t = v
        <5> SUFFICES ASSUME t[1] = v[1] PROVE t = v
          OBVIOUS
        <5>1. t = <<v[1], 0>>
          BY <4>4, Zenon
        <5> QED
          BY <4>4, <5>1, Zenon
      <4> QED
        BY <4>2, <4>3, <4>4, <4>5, Zenon
    <3>5. led.node[Rework(t)] = "absent" /\ led.node[Rework(v)] = "absent"
      <4>1. LegalWhenPublished(led, e)
        BY <2>1, <2>4, LegalPublished DEF Created, Published
      <4>2. MayRework(led, e)
        BY <2>4, <4>1 DEF LegalWhenPublished
      <4> QED
        BY <3>2, <3>3, <4>2, PlannedAreNodes DEF MayRework, Reworked
    <3>6. led'.node = [led.node EXCEPT ![Rework(t)] = "pending", ![Rework(v)] = "pending"]
      BY <2>1, <2>2, <2>4, <3>2, AppliedNode
    <3>7. led'.terminal = "none"
      BY <2>1, <2>2, <2>4, AppliedRest
    <3>8. Rework(t) \in Ids /\ Rework(v) \in Ids
      BY NodePairs
    <3>9. g = [f EXCEPT ![Rework(t)] = "open", ![Rework(v)] = "open"]
      <4>1. led.node \in [Ids -> NodeState]
        BY <2>2 DEF Ledger
      <4>2. Fate("pending") = "open"
        BY DEF Fate
      <4> QED
        BY <3>6, <3>8, <4>1, <4>2
    <3>10. f[t] = "failed" /\ f[v] = "failed" /\ f[Rework(t)] = "unborn" /\ f[Rework(v)] = "unborn"
      BY <3>3, <3>5, <3>8 DEF Fate
    <3> HIDE DEF f, g
    <3>11. Contract!Revise(t[1], v[1])
      BY <2>1, <3>4, <3>7, <3>9, <3>10 DEF Contract!Revise, Rework, f, g
    <3> QED
      BY <3>4, <3>11 DEF Contract!Next
  <2>5. CASE e.type = "run_terminal"
    <3>1. PICK s \in Terminals : e = Terminal(s)
      BY <2>1, <2>5, EventFields DEF Created, Published, Status, Running, Dispatched, Finished,
         Reconciled, Retried, ReworkOf, GateOpened, GateExhausted, GateResolved, Verdict, Terminal
    <3>2. e.status = s
      BY <3>1 DEF Terminal
    <3>3. led' = [led EXCEPT !.terminal = s]
      BY <2>1, <3>1 DEF Applied, Terminal
    <3>4. led'.terminal = s /\ led'.node = led.node
      BY <2>2, <3>3 DEF Ledger
    <3>5. MayEnd(led, s)
      <4>1. LegalWhenPublished(led, e)
        BY <2>1, <2>5, LegalPublished DEF Created, Published
      <4> QED
        BY <2>5, <3>2, <4>1 DEF LegalWhenPublished
    <3>6. ASSUME s = "succeeded", NEW n \in Ids, f[n] # "unborn",
                 ~(n[2] = 0 /\ f[<<n[1], 1>>] # "unborn")
          PROVE  f[n] = "passed"
      <4>1. Rework(n) \in Ids /\ Rework(n) = <<n[1], 1>>
        BY NodePairs DEF Rework
      <4>2. n \in Unreplaced(led)
        BY <3>6, <4>1 DEF Unreplaced, Nodes, Reworked, Fate
      <4> QED
        BY <3>5, <3>6, <4>2 DEF MayEnd, Fate
    <3>7. Contract!End(s)
      BY <2>1, <3>4, <3>6 DEF Contract!End, Contract!Counts, Contract!Replaced, Contract!Ids, Ids
    <3> QED
      BY <3>7 DEF Contract!Next, Terminals
  <2> QED BY <2>3, <2>4, <2>5
<1>3. CASE Next /\ ~Write
  <2>1. UNCHANGED led
    <3>1. ASSUME NEW n \in Ids, ExecuteNode(n) PROVE UNCHANGED led
      BY <3>1 DEF ExecuteNode, Begin, SessionStarted, SessionFails, Launched, LaunchFails, GivesUp,
         StoppedAtOnce, Reported, Breaks, VerdictPublished, NoVerdict, Collected, Released
    <3> QED
      BY <1>3, <3>1 DEF Next, Refused, Crash, Start, Advance, Gathered, Cancel, DispatchesStopped,
         TasksGathered, CancelNode, CancelEnds, ResolvePremiumGate
  <2> QED
    BY <1>1, <2>1
<1>4. CASE UNCHANGED vars
  BY <1>1, <1>4 DEF vars
<1> QED
  BY <1>2, <1>3, <1>4

(* What the journal shows to its readers is RunContract, for every plan and  *)
(* every adapter: fates are final, one revision replaces failed work and     *)
(* nothing else joins the graph, and success means that all of it passed.    *)
THEOREM EngineImplementsContract == Spec => ImplementsContract
<1>1. Init => Contract!Init
  BY ContractInit
<1>2. IInv /\ [Next]_vars => [Contract!Next]_(Contract!vars)
  BY ContractStep
<1> QED
  BY <1>1, <1>2, EngineInvariant, PTL DEF Spec, ImplementsContract, Contract!Spec
-----------------------------------------------------------------------------
(* Nothing the engine proposes is refused: what every step relies on, and keeps. *)

(* A node that a verifier judges is judged by no other and judges nobody,  *)
(* itself included: the plans of product.py that have no cross-review.     *)
SingleJudges ==
  \A v \in Verifiers :
    /\ Deps[v] \cap (Verifiers \cup Deterministic) = {}
    /\ \A w \in Verifiers : w # v => Deps[v] \cap Deps[w] = {}

(* Before a verifier has published its verdict, nobody has judged its      *)
(* targets, no gate says their rework is used up, and what is not in the   *)
(* graph has no gate.  A verifier is only replaced together with a target. *)
Unjudged(L, v) ==
  \A t \in DepsOf(v) :
    /\ L.node[t] \notin {"passed", "inconclusive"}
    /\ L.node[t] = "failed" => LastState(L, t) # "succeeded"
    /\ v[2] = 1 => t[1] \notin L.exhausted
Attributed(L) ==
  /\ \A v \in Ids : IsVerifier(v) /\ L.verdict[v] = "none" => Unjudged(L, v)
  /\ \A v \in Planned : IsVerifier(v) /\ Reworked(L, v) => \E t \in DepsOf(v) : Reworked(L, t)
  /\ \A n \in Ids : L.node[n] = "absent" => L.gate[n] = "none"

(* What the i-th event of a script s needs of ledger L, so that it is      *)
(* still legal when the events before it have been appended                *)
Acceptable(L, s, i) ==
  /\ \A j \in DOMAIN s : s[j] = s[i] => j = i
  /\ s[i].type = "run_created" => i = 1 /\ L.phase = "none"
  /\ s[i].type = "graph_published" =>
       i \in {1, 2} /\ L.phase = IF i = 1 THEN "run_created" ELSE "none"
  /\ s[i].type = "gate_created" => L.gate[s[i].node] = "none"
  /\ s[i].type = "rework_exhausted" =>
       /\ s[i].node[1] \notin L.exhausted /\ s[i].node[2] = 1
       /\ \A j \in DOMAIN s : s[j].type = "rework_exhausted" => j = i
  /\ s[i].type = "gate_resolved" => i = 1 /\ L.gate[s[i].node] = "open"
  /\ s[i].type = "reconciled" =>
       HasAttemptInFlight(L, s[i].node) /\ \A j \in DOMAIN s : s[j].type = "reconciled"
  /\ s[i].type = "run_terminal" => DOMAIN s = {1} /\ MayEnd(L, s[i].status)
Fitting(L, s) == \A i \in DOMAIN s : Acceptable(L, s, i)

(* A skipped node is made ready first when it is pending. *)
SkipFits(L, s) ==
  \A n \in Ids :
    s = <<Status(n, "cancelled")>> \/ s = <<GateResolved(n, "skip"), Status(n, "cancelled")>> =>
      L.node[n] # "pending"

Undisturbed ==
  /\ canc = "none" /\ caller # "cancel"
  /\ Attributed(led)
  /\ Fitting(led, todo) /\ SkipFits(led, todo)
  /\ led.terminal # "none" => todo = << >> /\ adv = "idle"
  /\ \A i \in DOMAIN todo : todo[i].type = "run_terminal" => adv = "idle"
  /\ \A i \in DOMAIN todo : todo[i].type = "graph_published" => raised = {}
  /\ \A n \in Ids : pc[n] \in {"begin", "session", "launch"} => led.node[n] # "cancelled"
  /\ up /\ led.phase = "none" => todo # << >> /\ todo[1] = Created

AcceptedInv == NothingRefused /\ (cancels = 0 => Undisturbed)

\* Which events mark the run, its gates and its used-up reworks
LEMMA AppliedMarks ==
  ASSUME NEW L \in Ledger, NEW e \in Event
  PROVE  /\ e.type \notin {"run_created", "graph_published"} => Applied(L, e).phase = L.phase
         /\ e.type = "run_created" => Applied(L, e).phase = "run_created"
         /\ e.type = "graph_published" => Applied(L, e).phase = "graph_published"
         /\ e.type # "rework_exhausted" => Applied(L, e).exhausted = L.exhausted
         /\ e.type = "rework_exhausted" =>
              Applied(L, e).exhausted = L.exhausted \cup {e.node[1]}
         /\ e.type \in {"gate_created", "gate_resolved"} =>
              \A m \in Ids : m # e.node => Applied(L, e).gate[m] = L.gate[m]
<1>1. CASE e.type \in {"run_created", "graph_published"}
  BY <1>1 DEF Applied, Ledger
<1>2. CASE e.type \in {"gate_created", "gate_resolved", "rework_exhausted", "run_terminal"}
  BY <1>2 DEF Applied, Ledger
<1>3. CASE e.type \in {"node_status_changed", "running", "attempt_dispatched", "worker_finished",
                       "reconciled", "retry_created", "rework_created"}
  BY <1>3 DEF Applied, Moved, WithAttempt, Ended, Assigned, Revised, Ledger
<1>4. CASE e.type = "verdict_recorded"
  BY <1>4 DEF Applied, Judgement, Ledger
<1> QED
  BY <1>1, <1>2, <1>3, <1>4, EventFields DEF Created, Published, Status, Running, Dispatched, Finished,
     Reconciled, Retried, ReworkOf, GateOpened, GateExhausted, GateResolved, Verdict, Terminal

\* With single judges, different verifiers have different targets.
LEMMA OneJudge ==
  ASSUME SingleJudges, NEW v \in Ids, NEW w \in Ids, NEW t \in Ids, IsVerifier(v), IsVerifier(w),
         t \in DepsOf(v), t \in DepsOf(w)
  PROVE  v = w
<1>1. t[1] \in Deps[v[1]] /\ t[1] \in Deps[w[1]] /\ t[2] = v[2] /\ t[2] = w[2]
  BY DEF DepsOf
<1>2. v[1] \in Verifiers /\ w[1] \in Verifiers
  BY DEF IsVerifier
<1>3. v[1] = w[1]
  BY <1>1, <1>2 DEF SingleJudges
<1> QED
  BY <1>1, <1>3, NodePairs, Zenon

\* A target is no verifier and does not judge itself.
LEMMA TargetsAreWork ==
  ASSUME SingleJudges, NEW v \in Ids, IsVerifier(v), NEW t \in DepsOf(v)
  PROVE  ~IsVerifier(t) /\ t[1] \notin Deterministic /\ t[1] \in Deps[v[1]] /\ t[2] = v[2]
<1>1. t[1] \in Deps[v[1]] /\ t[2] = v[2]
  BY DEF DepsOf, IsVerifier
<1>2. Deps[v[1]] \cap (Verifiers \cup Deterministic) = {}
  BY DEF SingleJudges, IsVerifier
<1> QED
  BY <1>1, <1>2 DEF IsVerifier

\* A verdict reaches the target of a verifier that has not published one yet from nobody else.
LEMMA VerdictElsewhere ==
  ASSUME SingleJudges, NEW L \in Ledger, NEW e \in Event, Safe(L, e), e.type = "verdict_recorded",
         NEW v \in Ids, IsVerifier(v), e.node # v, NEW t \in DepsOf(v)
  PROVE  t \notin Touched(e)
<1>1. e.node \in Ids
  BY EventFields DEF Created, Published, Status, Running, Dispatched, Finished, Reconciled, Retried,
     ReworkOf, GateOpened, GateExhausted, GateResolved, Verdict, Terminal
<1>2. t \in Ids
  BY NodePairs
<1>3. ~IsVerifier(t) /\ t[1] \notin Deterministic
  BY TargetsAreWork
<1>4. Touched(e) = e.targets \cup {e.node}
  BY DEF Touched
<1>5. CASE IsVerifier(e.node) /\ e.targets = DepsOf(e.node)
  BY <1>1, <1>2, <1>3, <1>4, <1>5, OneJudge
<1>6. CASE e.node[1] \in Deterministic /\ e.targets = {e.node}
  BY <1>3, <1>4, <1>6
<1> QED
  BY <1>5, <1>6 DEF Safe

\* What an event that is no verdict makes of a node that is not in the graph or in work
LEMMA FailsByReport ==
  ASSUME NEW L \in Ledger, NEW e \in Event, e.type # "verdict_recorded", LegalWhenPublished(L, e),
         NEW t \in Ids, t \in Touched(e)
  PROVE  /\ Applied(L, e).node[t] \notin {"passed", "inconclusive"}
         /\ Applied(L, e).node[t] = "failed" => LastState(Applied(L, e), t) # "succeeded"
<1> DEFINE M == Applied(L, e)
<1>0. L.node \in [Ids -> NodeState]
  BY DEF Ledger
<1>1. CASE e.type \in {"running", "attempt_dispatched", "reconciled", "retry_created"}
  <2>1. e.node = t
    BY <1>1 DEF Touched
  <2>2. \E s \in {"running", "assigned", "outcome_unknown", "ready"} :
          M.node = [L.node EXCEPT ![e.node] = s]
    BY <1>1, AppliedNode
  <2>3. \E s \in {"running", "assigned", "outcome_unknown", "ready"} : M.node[t] = s
    BY <1>0, <2>1, <2>2
  <2> QED
    BY <2>3
<1>2. CASE e.type = "node_status_changed"
  <2>1. e.node = t
    BY <1>2 DEF Touched
  <2>2. e.status \in {"ready", "cancelled", "blocked"}
    BY <1>2, EventFields DEF Created, Published, Status, Running, Dispatched, Finished, Reconciled,
       Retried, ReworkOf, GateOpened, GateExhausted, GateResolved, Verdict, Terminal
  <2>3. M.node = [L.node EXCEPT ![e.node] = e.status]
    BY <1>2, AppliedNode
  <2>4. M.node[t] = e.status
    BY <1>0, <2>1, <2>3
  <2> QED
    BY <2>2, <2>4
<1>3. CASE e.type = "rework_created"
  <2>1. t = Rework(e.node) \/ t = Rework(e.verifier)
    BY <1>3 DEF Touched
  <2>2. M.node = [L.node EXCEPT ![Rework(e.node)] = "pending", ![Rework(e.verifier)] = "pending"]
    BY <1>3, AppliedNode
  <2> QED
    BY <1>0, <2>1, <2>2
<1>4. CASE e.type = "worker_finished"
  <2>1. e.node = t
    BY <1>4 DEF Touched
  <2>2. e.outcome \in Outcomes
    BY <1>4, EventFields DEF Created, Published, Status, Running, Dispatched, Finished, Reconciled,
       Retried, ReworkOf, GateOpened, GateExhausted, GateResolved, Verdict, Terminal
  <2>3. M.node[t] = NodeAfter(e.outcome)
    <3>1. M.node = [L.node EXCEPT ![e.node] = NodeAfter(e.outcome)]
      BY <1>4, AppliedNode
    <3> QED
      BY <1>0, <2>1, <3>1
  <2>4. NodeAfter(e.outcome) \notin {"passed", "inconclusive"}
    BY <2>2 DEF NodeAfter, Outcomes
  <2>5. ASSUME NodeAfter(e.outcome) = "failed" PROVE LastState(M, t) = "failed"
    <3>1. e.outcome = "failed"
      BY <2>2, <2>5 DEF NodeAfter, Outcomes
    <3>2. AttemptAfter(e.outcome) = "failed"
      BY <3>1 DEF AttemptAfter
    <3>3. L.attempts[t] # << >> /\ L.attempts[t] \in Seq(AttemptState)
      BY <1>4, <2>1 DEF LegalWhenPublished, MayFinish, HasAttemptInFlight, Ledger
    <3>4. M = Moved(WithAttempt(L, t, "failed"), t, NodeAfter(e.outcome))
      BY <1>4, <2>1, <3>2 DEF Applied, Ended
    <3>5. /\ WithAttempt(L, t, "failed") \in Ledger
          /\ WithAttempt(L, t, "failed").attempts =
               [L.attempts EXCEPT ![t] = [@ EXCEPT ![Len(L.attempts[t])] = "failed"]]
      BY <3>3, WithAttemptFields DEF AttemptState
    <3>6. M.attempts = [L.attempts EXCEPT ![t] = [@ EXCEPT ![Len(L.attempts[t])] = "failed"]]
      <4>1. Moved(WithAttempt(L, t, "failed"), t, "failed").attempts
              = WithAttempt(L, t, "failed").attempts
        BY <3>5, MovedFields DEF NodeState
      <4> QED
        BY <2>5, <3>4, <3>5, <4>1
    <3>7. M.attempts[t] = [L.attempts[t] EXCEPT ![Len(L.attempts[t])] = "failed"]
      BY <3>6 DEF Ledger
    <3>8. M.attempts[t] # << >> /\ M.attempts[t][Len(M.attempts[t])] = "failed"
      BY <3>3, <3>7
    <3> QED
      BY <3>8 DEF LastState
  <2> QED
    BY <2>3, <2>4, <2>5
<1> QED
  BY <1>1, <1>2, <1>3, <1>4 DEF Touched

\* An event that is legal and safe keeps every verdict attributable.
LEMMA AttributedKept ==
  ASSUME SingleJudges, NEW L, Sound(L), Attributed(L), NEW e \in Event, Legal(L, e), Safe(L, e),
         e \notin {Created, Published},
         e.type = "rework_exhausted" =>
           \A v \in Ids : IsVerifier(v) /\ v[2] = 1 /\ e.node[1] \in Deps[v[1]] => L.verdict[v] # "none"
  PROVE  Attributed(Applied(L, e))
<1> DEFINE M == Applied(L, e)
<1>0. /\ L \in Ledger /\ Sound(M) /\ M \in Ledger /\ Advances(L, M)
      /\ LegalWhenPublished(L, e)
  BY SoundKept, LegalPublished DEF Sound
<1>1. ASSUME NEW v \in Ids, IsVerifier(v), M.verdict[v] = "none" PROVE Unjudged(M, v)
  <2> SUFFICES ASSUME NEW t \in DepsOf(v)
               PROVE  /\ M.node[t] \notin {"passed", "inconclusive"}
                      /\ M.node[t] = "failed" => LastState(M, t) # "succeeded"
                      /\ v[2] = 1 => t[1] \notin M.exhausted
    BY DEF Unjudged
  <2>1. L.verdict[v] = "none" /\ t \in Ids
    BY <1>0, <1>1, NodePairs DEF Advances
  <2>2. Unjudged(L, v)
    BY <1>1, <2>1 DEF Attributed
  <2>3. v[2] = 1 => t[1] \notin M.exhausted
    <3>1. CASE e.type = "rework_exhausted"
      <4>1. t[1] \in Deps[v[1]]
        BY <1>1, TargetsAreWork
      <4>2. v[2] = 1 => e.node[1] # t[1]
        BY <1>1, <2>1, <3>1, <4>1
      <4> QED
        BY <1>0, <2>2, <3>1, <4>2, AppliedMarks DEF Unjudged
    <3> QED
      BY <1>0, <2>2, <3>1, AppliedMarks DEF Unjudged
  <2>4. CASE t \notin Touched(e)
    <3>1. M.node[t] = L.node[t] /\ LastState(M, t) = LastState(L, t)
      BY <1>0, <2>1, <2>4, Untouched DEF LastState
    <3> QED
      BY <2>2, <2>3, <3>1 DEF Unjudged
  <2>5. CASE t \in Touched(e)
    <3>1. e.type # "verdict_recorded"
      <4> SUFFICES ASSUME e.type = "verdict_recorded" PROVE FALSE
        OBVIOUS
      <4>1. M.verdict = [L.verdict EXCEPT ![e.node] = e.verdict] /\ e.verdict \in Verdicts
        BY <1>0, AppliedVerdict, EventFields DEF Created, Published, Status, Running, Dispatched,
           Finished, Reconciled, Retried, ReworkOf, GateOpened, GateExhausted, GateResolved,
           Verdict, Terminal
      <4>2. e.node # v
        BY <1>0, <1>1, <4>1 DEF Ledger, Verdicts
      <4> QED
        BY <1>0, <1>1, <2>5, <4>2, VerdictElsewhere
    <3> QED
      BY <1>0, <2>1, <2>3, <2>5, <3>1, FailsByReport
  <2> QED
    BY <2>4, <2>5
<1>2. ASSUME NEW v \in Planned, IsVerifier(v), Reworked(M, v)
      PROVE  \E t \in DepsOf(v) : Reworked(M, t)
  <2>1. v \in Ids /\ v[2] = 0 /\ Rework(v) \in Ids
    BY PlannedAreNodes, NodePairs
  <2>2. CASE L.node[Rework(v)] # "absent"
    <3>1. PICK t \in DepsOf(v) : Reworked(L, t)
      BY <1>2, <2>1, <2>2 DEF Attributed, Reworked
    <3>2. Rework(t) \in Ids
      BY <2>1, NodePairs
    <3> QED
      BY <1>0, <3>1, <3>2 DEF Reworked, Advances
  <2>3. CASE L.node[Rework(v)] = "absent"
    <3>1. e.type = "rework_created"
      BY <1>0, <1>2, <2>1, <2>3, BornByRevision DEF Reworked
    <3>2. Rework(v) \in {Rework(e.node), Rework(e.verifier)}
      BY <1>0, <1>2, <2>1, <2>3, <3>1, Untouched DEF Touched, Reworked
    <3>3. /\ e.node \in Planned /\ e.verifier \in Planned /\ e.node \in DepsOf(e.verifier)
          /\ IsVerifier(e.verifier)
      BY <1>0, <3>1 DEF Safe, LegalWhenPublished, MayRework
    <3>4. e.verifier \in Ids /\ e.node \in Ids /\ e.node[2] = 0 /\ ~IsVerifier(e.node)
      BY <3>3, PlannedAreNodes, TargetsAreWork
    <3>5. v[1] = e.verifier[1]
      <4>1. v[1] = e.node[1] \/ v[1] = e.verifier[1]
        BY <3>2 DEF Rework
      <4> QED
        BY <1>2, <3>4, <4>1 DEF IsVerifier
    <3>6. DepsOf(v) = DepsOf(e.verifier)
      BY <2>1, <3>3, <3>4, <3>5, PlannedAreNodes DEF DepsOf, IsVerifier
    <3>7. M.node = [L.node EXCEPT ![Rework(e.node)] = "pending", ![Rework(e.verifier)] = "pending"]
      BY <1>0, <3>1, AppliedNode
    <3>8. L.node \in [Ids -> NodeState] /\ Rework(e.node) \in Ids
      BY <1>0, <3>4, NodePairs DEF Ledger
    <3>9. M.node[Rework(e.node)] = "pending"
      BY <3>7, <3>8
    <3> QED
      BY <3>3, <3>4, <3>6, <3>9 DEF Reworked
  <2> QED
    BY <2>2, <2>3
<1>3. ASSUME NEW n \in Ids, M.node[n] = "absent" PROVE M.gate[n] = "none"
  <2>1. L.node[n] = "absent" /\ L.gate[n] = "none"
    BY <1>0, <1>3 DEF Advances, Attributed
  <2>2. CASE e.type \notin {"gate_created", "gate_resolved"}
    BY <1>0, <2>1, <2>2, AppliedRest
  <2>3. CASE e.type \in {"gate_created", "gate_resolved"}
    <3>1. e.node # n
      BY <1>0, <2>1, <2>3 DEF Safe, Unstarted, LegalWhenPublished, MayResolve
    <3> QED
      BY <1>0, <2>1, <2>3, <3>1, AppliedMarks
  <2> QED
    BY <2>2, <2>3
<1> QED
  BY <1>1, <1>2, <1>3 DEF Attributed

\* What is appended after a revise verdict
LEMMA ReviseForms ==
  ASSUME NEW L, NEW t \in Ids, NEW n \in Ids
  PROVE  /\ Reworked(L, <<t[1], 0>>) => AfterRevise(L, t, n) = <<GateExhausted(t)>>
         /\ ~Reworked(L, <<t[1], 0>>) =>
              \/ AfterRevise(L, t, n) = <<ReworkOf(t, n)>>
              \/ AfterRevise(L, t, n) = <<ReworkOf(t, n), GateOpened(Rework(t))>>
              \/ AfterRevise(L, t, n) = <<ReworkOf(t, n), GateOpened(Rework(n))>>
              \/ AfterRevise(L, t, n) =
                   <<ReworkOf(t, n), GateOpened(Rework(t)), GateOpened(Rework(n))>>
<1> DEFINE r == ReworkOf(t, n)
           g == GateOpened(Rework(t))
           h == GateOpened(Rework(n))
<1>1. r \in Event /\ g \in Event /\ h \in Event
  BY EventTypes, NodePairs
<1> HIDE DEF r, g, h
<1>2. <<r>> \o << >> = <<r>> /\ <<r, g>> \o << >> = <<r, g>>
  BY <1>1, TodoForms, ConcatEmptySeq
<1>3. <<r>> \o <<g>> = <<r, g>> /\ <<r>> \o <<h>> = <<r, h>> /\ <<g>> \o <<h>> = <<g, h>>
  BY <1>1, TodoForms
<1>4. <<r, g>> \o <<h>> = <<r, g, h>>
  <2>1. (<<r>> \o <<g>>) \o <<h>> = <<r>> \o (<<g>> \o <<h>>)
    BY <1>1, TodoForms, ConcatAssociative
  <2>2. <<r>> \o <<g, h>> = <<r, g, h>>
    BY <1>1, SkipForms
  <2> QED
    BY <1>3, <2>1, <2>2
<1>5. AfterRevise(L, t, n) =
        IF Reworked(L, <<t[1], 0>>) THEN <<GateExhausted(t)>>
        ELSE (<<r>> \o When(NeedsApproval(L, Rework(t)), <<g>>))
                    \o When(NeedsApproval(L, Rework(n)), <<h>>)
  BY DEF AfterRevise, r, g, h
<1> QED
  BY <1>2, <1>3, <1>4, <1>5 DEF When, r, g, h

\* The state of a node whose attempt is in flight, and the attempt of one that runs
LEMMA InFlightNode ==
  ASSUME Sound(led), NEW n \in Ids
  PROVE  /\ HasAttemptInFlight(led, n) => led.node[n] \in InFlightStates
         /\ led.node[n] \in InFlightStates => HasAttemptInFlight(led, n)
         /\ led.node[n] \in InFlightStates \cup {"outcome_unknown"} => led.attempts[n] # << >>
<1>1. LastState(led, n) \in Left(led.node[n]) /\ led \in Ledger /\ led.node[n] \in NodeState
  BY DEF Sound, AttemptsFit, Ledger
<1> QED
  BY <1>1, LastStates DEF Left, InFlight, InFlightStates, NodeState

\* What a coroutine still has to append is legal, if nobody cancels.
LEMMA WritingAccepted ==
  ASSUME IInv, Attributed(led), NEW n \in Ids, Writing(n),
         pc[n] \in {"begin", "session", "launch"} => led.node[n] # "cancelled"
  PROVE  LegalWhenPublished(led, Head(todo))
<1>0. Sound(led) /\ led \in Ledger
  BY DEF IInv, Sound
<1>1. \A e \in Event : Head(<<e>>) = e
  BY TodoForms
<1>2. CASE ReadyWriting(n)
  <2>1. Head(todo) = Status(n, "ready") /\ CanMove(led, n, "ready")
    BY <1>1, <1>2, EventTypes DEF ReadyWriting, CanMove, NodeMoves
  <2> QED
    BY <2>1 DEF LegalWhenPublished, MayChangeStatus, Status
<1>3. CASE DispatchWriting(n)
  <2>1. Head(todo) = Dispatched(n) /\ CanMove(led, n, "assigned")
    BY <1>1, <1>3, EventTypes DEF DispatchWriting, CanMove, NodeMoves
  <2> QED
    BY <2>1 DEF LegalWhenPublished, MayDispatch, Dispatched
<1>4. CASE RunWriting(n)
  <2>1. Head(todo) = Running(n) /\ CanMove(led, n, "running")
    BY <1>1, <1>4, EventTypes DEF RunWriting, CanMove, NodeMoves
  <2>2. led.attempts[n] # << >>
    BY <1>0, <1>4, InFlightNode DEF RunWriting, InFlightStates
  <2> QED
    BY <2>1, <2>2 DEF LegalWhenPublished, MayStart, Running
<1>5. ASSUME NEW o \in Outcomes, FinishWriting(n, o) PROVE LegalWhenPublished(led, Head(todo))
  <2>1. Head(todo) = Finished(n, o)
    BY <1>1, <1>5, EventTypes DEF FinishWriting
  <2>2. /\ led.node[n] \in InFlightStates
        /\ led.node[n] = "assigned" => o \in {"startup_failure", "outcome_unknown"}
    BY <1>5 DEF FinishWriting, InFlightStates
  <2>3. CanMove(led, n, NodeAfter(o))
    BY <2>2 DEF CanMove, NodeMoves, NodeAfter, Outcomes, InFlightStates
  <2>4. HasAttemptInFlight(led, n)
    BY <1>0, <2>2, InFlightNode
  <2> QED
    BY <2>1, <2>3, <2>4 DEF LegalWhenPublished, MayFinish, Finished
<1>6. CASE RetryWriting(n)
  <2>1. Head(todo) = Retried(n) /\ CanMove(led, n, "ready") /\ n \notin led.retried
    BY <1>1, <1>6, EventTypes DEF RetryWriting, CanMove, NodeMoves
  <2>2. led.attempts[n] # << >>
    BY <1>0, <1>6, InFlightNode DEF RetryWriting
  <2> QED
    BY <2>1, <2>2 DEF LegalWhenPublished, MayRetry, Retried
<1>7. CASE BlockWriting(n)
  <2>1. Head(todo) = Status(n, "blocked") /\ CanMove(led, n, "blocked")
    BY <1>1, <1>7, EventTypes DEF BlockWriting, CanMove, NodeMoves
  <2> QED
    BY <2>1 DEF LegalWhenPublished, MayChangeStatus, Status
<1>8. CASE PassWriting(n)
  <2> DEFINE e == Verdict(n, {n}, "pass")
  <2>1. Head(todo) = e
    BY <1>1, <1>8, EventTypes DEF PassWriting, Verdicts
  <2>2. e.targets = {n} /\ e.node = n /\ e.verdict = "pass"
    BY DEF Verdict
  <2>3. ~IsVerifier(n)
    BY <1>8, PlanAssumption DEF PassWriting, IsVerifier
  <2>4. CanMove(led, n, Judged("pass"))
    BY <1>8 DEF PassWriting, CanMove, NodeMoves, Judged
  <2> HIDE DEF e
  <2>5. MayJudge(led, e)
    BY <2>2, <2>3, <2>4 DEF MayJudge, FollowsVerdict
  <2> QED
    BY <2>1, <2>5 DEF LegalWhenPublished, Verdict, e
<1>9. ASSUME NEW k \in Verdicts, VerdictWriting(n, k) PROVE LegalWhenPublished(led, Head(todo))
  <2> DEFINE e == Verdict(n, DepsOf(n), k)
  <2>1. Head(todo) = e
    <3>1. e \in Event
      BY EventTypes, NodePairs
    <3>2. \A t \in Ids : Head(<<e>> \o AfterRevise(led, t, n)) = e
      BY <3>1, AfterReviseTyped
    <3> QED
      BY <1>1, <1>9, <3>1, <3>2, NodePairs DEF VerdictWriting
  <2>2. e.targets = DepsOf(n) /\ e.node = n /\ e.verdict = k
    BY DEF Verdict
  <2>3. IsVerifier(n) /\ pc[n] = "collect" /\ led.verdict[n] = "none"
        /\ led.node[n] \in {"awaiting_verification", "failed"}
    BY <1>9 DEF VerdictWriting
  <2>4. ASSUME NEW t \in DepsOf(n) PROVE CanMove(led, t, Judged(k))
    <3>1. DepSettled(led, n, t)
      BY <2>3 DEF IInv, NodesFit, Taken
    <3>2. Unjudged(led, n)
      BY <2>3 DEF Attributed
    <3>3. led.node[t] = "awaiting_verification"
      BY <3>1, <3>2 DEF DepSettled, Unjudged
    <3> QED
      BY <3>3 DEF CanMove, NodeMoves, Judged, Verdicts
  <2>5. FollowsVerdict(led, e) => CanMove(led, n, OwnState(e))
    <3>1. FollowsVerdict(led, e) => led.node[n] = "awaiting_verification"
      BY <2>2, <2>3 DEF FollowsVerdict
    <3> QED
      BY <3>1 DEF CanMove, NodeMoves, OwnState
  <2> HIDE DEF e
  <2>6. MayJudge(led, e)
    BY <2>2, <2>3, <2>4, <2>5 DEF MayJudge
  <2> QED
    BY <2>1, <2>6 DEF LegalWhenPublished, Verdict, e
<1> QED
  BY <1>2, <1>3, <1>4, <1>5, <1>6, <1>7, <1>8, <1>9 DEF Writing

\* What follows an accepted revise verdict is legal.
LEMMA ReviseAccepted ==
  ASSUME IInv, SingleJudges, Attributed(led), NEW n \in Ids, NEW t \in Ids, ReviseScript(n, t),
         Head(todo).type = "rework_exhausted" => Head(todo).node[1] \notin led.exhausted
  PROVE  LegalWhenPublished(led, Head(todo))
<1>0. /\ IsVerifier(n) /\ DepsOf(n) = {t} /\ todo = AfterRevise(led, t, n)
      /\ led.node[n] = "failed" /\ led.node[t] = "failed"
  BY DEF ReviseScript
<1>1. CASE Reworked(led, <<t[1], 0>>)
  <2>1. Head(todo) = GateExhausted(t)
    BY <1>0, <1>1, ReviseForms
  <2>2. t[1] \notin led.exhausted
    BY <2>1 DEF GateExhausted
  <2> QED
    BY <2>1, <2>2 DEF LegalWhenPublished, MayExhaust, GateExhausted
<1>2. CASE ~Reworked(led, <<t[1], 0>>)
  <2>1. Head(todo) = ReworkOf(t, n)
    BY <1>0, <1>2, ReviseForms
  <2>2. led.node[Rework(t)] = "absent"
    BY <1>2 DEF Reworked, Rework
  <2>3. t \in Planned /\ t[2] = 0
    <3>1. t[2] = 1 => Rework(t) = t
      BY NodePairs DEF Rework
    <3>2. t[2] # 1
      BY <1>0, <2>2, <3>1
    <3> QED
      BY <3>2, NodePairs, PlannedAreNodes
  <2>4. n \in Planned /\ n[2] = 0
    BY <1>0, <2>3, PlannedAreNodes, TargetsAreWork
  <2>5. led.node[Rework(n)] = "absent"
    <3> SUFFICES ASSUME Reworked(led, n) PROVE FALSE
      BY <2>4 DEF Reworked
    <3>1. Reworked(led, t)
      BY <1>0, <2>4 DEF Attributed
    <3> QED
      BY <2>2, <3>1 DEF Reworked
  <2>6. ~Reworked(led, t)
    BY <2>2 DEF Reworked
  <2> QED
    BY <1>0, <2>1, <2>5, <2>6 DEF LegalWhenPublished, MayRework, ReworkOf
<1> QED
  BY <1>1, <1>2

\* What the user's decision about a gate appends is legal.
LEMMA UserAccepted ==
  ASSUME IInv, UserScript, todo # << >>, Fitting(led, todo), SkipFits(led, todo)
  PROVE  LegalWhenPublished(led, Head(todo))
<1>0. Head(todo) = todo[1] /\ 1 \in DOMAIN todo
  BY Heads DEF IInv
<1>1. ASSUME NEW n \in Ids, NEW d \in Decisions, todo[1] = GateResolved(n, d)
      PROVE  LegalWhenPublished(led, Head(todo))
  <2>1. led.gate[n] = "open"
    BY <1>0, <1>1 DEF Fitting, Acceptable, GateResolved
  <2> QED
    BY <1>0, <1>1, <2>1 DEF LegalWhenPublished, MayResolve, GateResolved
<1>2. ASSUME NEW n \in Ids, Skipping(n) PROVE LegalWhenPublished(led, Head(todo))
  <2>1. CASE todo = <<Status(n, "cancelled")>>
    <3>1. led.node[n] \in {"ready", "cancelled"}
      BY <1>2, <2>1 DEF Skipping, SkipFits, Unstarted
    <3>2. CanMove(led, n, "cancelled")
      BY <3>1 DEF CanMove, NodeMoves
    <3>3. Head(todo) = Status(n, "cancelled")
      BY <1>0, <2>1
    <3> QED
      BY <3>2, <3>3 DEF LegalWhenPublished, MayChangeStatus, Status
  <2>2. CASE led.node[n] = "pending" /\ todo = <<Status(n, "ready"), Status(n, "cancelled")>>
    <3>1. CanMove(led, n, "ready")
      BY <2>2 DEF CanMove, NodeMoves
    <3>2. Head(todo) = Status(n, "ready")
      BY <1>0, <2>2
    <3> QED
      BY <3>1, <3>2 DEF LegalWhenPublished, MayChangeStatus, Status
  <2>3. CASE todo[1] = GateResolved(n, "skip")
    BY <1>1, <2>3 DEF Decisions
  <2> QED
    BY <1>2, <2>1, <2>2, <2>3 DEF Skipping
<1>3. ASSUME NEW n \in Ids, NEW d \in Decisions, todo = <<GateResolved(n, d)>>
      PROVE  todo[1] = GateResolved(n, d)
  BY <1>3
<1> QED
  BY <1>1, <1>2, <1>3 DEF UserScript

\* The event at the head of a script is legal, or the graph was never published.
LEMMA AcceptedHead ==
  ASSUME IInv, SingleJudges, Undisturbed, todo # << >>
  PROVE  Legal(led, Head(todo)) \/ (led.phase = "run_created" /\ Head(todo) # Published)
<1> DEFINE e == Head(todo)
<1>0. /\ e \in Event /\ e = todo[1] /\ 1 \in DOMAIN todo /\ Acceptable(led, todo, 1)
      /\ led.terminal = "none" /\ Attributed(led) /\ Sound(led) /\ led \in Ledger /\ up
      /\ caller \in {"start", "task", "advance", "user"}
  BY Heads DEF IInv, Undisturbed, Fitting, Control, Sound, TypeOK, Callers, ScriptFits
<1>1. led.phase \in {"none", "run_created", "graph_published"}
  BY <1>0 DEF Ledger
<1>2. CASE led.phase = "none"
  <2>1. e = Created
    BY <1>0, <1>2 DEF Undisturbed
  <2> QED
    BY <1>0, <1>2, <2>1 DEF Legal, LegalAfterTerminal, Created
<1>3. CASE led.phase = "run_created"
  BY <1>0, <1>3 DEF Legal, LegalAfterTerminal, Published
<1>4. CASE led.phase = "graph_published"
  <2>1. e.type \notin {"run_created", "graph_published"}
    BY <1>0, <1>4 DEF Acceptable
  <2> HIDE DEF e
  <2> SUFFICES LegalWhenPublished(led, e)
    BY <1>0, <1>4 DEF Legal, LegalAfterTerminal
  <2>2. ASSUME NEW m \in Ids, e = GateOpened(m) PROVE LegalWhenPublished(led, e)
    BY <1>0, <2>2 DEF Acceptable, LegalWhenPublished, MayOpenGate, GateOpened
  <2>3. CASE caller = "start"
    <3>1. ASSUME NEW m \in Ids, e = Reconciled(m) PROVE LegalWhenPublished(led, e)
      <4>1. HasAttemptInFlight(led, m)
        BY <1>0, <3>1 DEF Acceptable, Reconciled
      <4>2. CanMove(led, m, "outcome_unknown")
        BY <1>0, <4>1, InFlightNode DEF InFlightStates, CanMove, NodeMoves
      <4> QED
        BY <3>1, <4>1, <4>2 DEF LegalWhenPublished, MayReconcile, Reconciled
    <3>2. FirstStart \/ Restart
      BY <2>3 DEF IInv, ScriptFits, StartScript
    <3>3. e \in {Created, Published} \/ (\E m \in Ids : e = GateOpened(m) \/ e = Reconciled(m))
      BY <1>0, <3>2, PlannedAreNodes DEF FirstStart, Restart
    <3> QED
      BY <2>1, <2>2, <3>1, <3>3 DEF Created, Published
  <2>4. CASE caller = "advance"
    <3>1. PICK s \in Terminals : todo = <<Terminal(s)>>
      BY <2>4 DEF IInv, ScriptFits
    <3>2. e = Terminal(s)
      BY <1>0, <3>1
    <3>3. MayEnd(led, s)
      BY <1>0, <3>2 DEF Acceptable, Terminal
    <3> QED
      BY <3>2, <3>3 DEF LegalWhenPublished, Terminal
  <2>5. CASE caller = "user"
    BY <2>5, UserAccepted DEF IInv, ScriptFits, Undisturbed, e
  <2>6. CASE caller = "task"
    <3>1. ASSUME NEW n \in Ids, Writing(n) PROVE LegalWhenPublished(led, e)
      BY <1>0, <3>1, WritingAccepted DEF Undisturbed, e
    <3>2. ASSUME NEW n \in Ids, NEW t \in Ids, ReviseScript(n, t) PROVE LegalWhenPublished(led, e)
      <4>1. e.type = "rework_exhausted" => e.node[1] \notin led.exhausted
        BY <1>0 DEF Acceptable
      <4> QED
        BY <1>0, <3>2, <4>1, ReviseAccepted DEF e
    <3>3. CASE GateScript
      BY <1>0, <2>2, <3>3 DEF GateScript
    <3> QED
      BY <2>6, <3>1, <3>2, <3>3 DEF IInv, ScriptFits, TaskScript
  <2> QED
    BY <1>0, <2>3, <2>4, <2>5, <2>6
<1> QED
  BY <1>1, <1>2, <1>3, <1>4

\* When the first event has been appended, the others are still acceptable.
LEMMA RestFits ==
  ASSUME NEW L \in Ledger, NEW s \in Seq(Event), s # << >>, Fitting(L, s), Legal(L, s[1]),
         L.phase = "none" => s[1] = Created,
         NEW r \in Seq(Event), \A i \in DOMAIN r : i + 1 \in DOMAIN s /\ r[i] = s[i + 1]
  PROVE  Fitting(Applied(L, s[1]), r)
<1> DEFINE e == s[1]
           M == Applied(L, e)
<1>0. 1 \in DOMAIN s /\ e \in Event /\ Acceptable(L, s, 1)
  BY DEF Fitting
<1> SUFFICES ASSUME NEW i \in DOMAIN r PROVE Acceptable(M, r, i)
  BY DEF Fitting
<1> DEFINE f == r[i]
<1>1. /\ i \in Nat \ {0} /\ i + 1 \in DOMAIN s /\ f = s[i + 1] /\ f \in Event
      /\ Acceptable(L, s, i + 1) /\ i + 1 # 1
  BY DEF Fitting
<1>2. f # e
  BY <1>0, <1>1 DEF Acceptable
<1>3. ASSUME NEW j \in DOMAIN r, r[j] = f PROVE j = i
  <2>1. j + 1 \in DOMAIN s /\ s[j + 1] = s[i + 1] /\ j \in Nat
    BY <1>1, <1>3
  <2>2. j + 1 = i + 1
    BY <1>1, <2>1 DEF Acceptable
  <2> QED
    BY <1>1, <2>1, <2>2
<1>4. f.type \notin {"run_created", "gate_resolved", "run_terminal"}
  <2>1. DOMAIN s # {1}
    BY <1>1
  <2> QED
    BY <1>1, <2>1 DEF Acceptable
<1>5. ASSUME f.type = "graph_published"
      PROVE  i \in {1, 2} /\ M.phase = IF i = 1 THEN "run_created" ELSE "none"
  <2>1. i = 1 /\ L.phase = "none"
    BY <1>1, <1>5 DEF Acceptable
  <2> QED
    BY <1>0, <2>1, AppliedMarks DEF Created
<1>6. ASSUME f.type = "gate_created" PROVE M.gate[f.node] = "none"
  <2>1. L.gate[f.node] = "none"
    BY <1>1, <1>6 DEF Acceptable
  <2>2. \A g \in Event : g.type = "gate_created" => g = GateOpened(g.node) /\ g.node \in Ids
    BY EventFields DEF Created, Published, Status, Running, Dispatched, Finished, Reconciled, Retried,
       ReworkOf, GateOpened, GateExhausted, GateResolved, Verdict, Terminal
  <2>3. CASE e.type = "gate_created"
    <3>1. e.node # f.node
      BY <1>0, <1>1, <1>2, <1>6, <2>2, <2>3
    <3> QED
      BY <1>0, <1>1, <1>6, <2>1, <2>2, <2>3, <3>1, AppliedMarks
  <2>4. CASE e.type = "gate_resolved"
    <3>1. e.node # f.node
      BY <1>0, <2>1, <2>4 DEF Acceptable
    <3> QED
      BY <1>0, <1>1, <1>6, <2>1, <2>2, <2>4, <3>1, AppliedMarks
  <2>5. CASE e.type \notin {"gate_created", "gate_resolved"}
    BY <1>0, <2>1, <2>5, AppliedRest
  <2> QED
    BY <2>3, <2>4, <2>5
<1>7. ASSUME f.type = "rework_exhausted"
      PROVE  /\ f.node[1] \notin M.exhausted /\ f.node[2] = 1
             /\ \A j \in DOMAIN r : r[j].type = "rework_exhausted" => j = i
  <2>1. /\ f.node[1] \notin L.exhausted /\ f.node[2] = 1
        /\ \A j \in DOMAIN s : s[j].type = "rework_exhausted" => j = i + 1
    BY <1>1, <1>7 DEF Acceptable
  <2>2. e.type # "rework_exhausted"
    BY <1>0, <1>1, <2>1
  <2>3. M.exhausted = L.exhausted
    BY <1>0, <2>2, AppliedMarks
  <2>4. ASSUME NEW j \in DOMAIN r, r[j].type = "rework_exhausted" PROVE j = i
    <3>1. j + 1 \in DOMAIN s /\ r[j] = s[j + 1] /\ j \in Nat
      OBVIOUS
    <3>2. j + 1 = i + 1
      BY <2>1, <2>4, <3>1
    <3> QED
      BY <1>1, <3>1, <3>2
  <2> QED
    BY <2>1, <2>3, <2>4
<1>8. ASSUME f.type = "reconciled"
      PROVE  HasAttemptInFlight(M, f.node) /\ \A j \in DOMAIN r : r[j].type = "reconciled"
  <2>1. HasAttemptInFlight(L, f.node) /\ \A j \in DOMAIN s : s[j].type = "reconciled"
    BY <1>1, <1>8 DEF Acceptable
  <2>2. e.type = "reconciled"
    BY <1>0, <2>1
  <2>3. \A g \in Event : g.type = "reconciled" => g = Reconciled(g.node) /\ g.node \in Ids
    BY EventFields DEF Created, Published, Status, Running, Dispatched, Finished, Reconciled, Retried,
       ReworkOf, GateOpened, GateExhausted, GateResolved, Verdict, Terminal
  <2>4. e.node # f.node /\ f.node \in Ids
    BY <1>0, <1>1, <1>2, <1>8, <2>2, <2>3
  <2>5. M.attempts[f.node] = L.attempts[f.node]
    BY <1>0, <2>2, <2>4, AppliedAttempts
  <2> QED
    BY <2>1, <2>5 DEF HasAttemptInFlight
<1> QED
  BY <1>3, <1>4, <1>5, <1>6, <1>7, <1>8 DEF Acceptable

\* The events after a revise verdict are of three kinds.
LEMMA ReviseEvents ==
  ASSUME NEW L, NEW t \in Ids, NEW n \in Ids, NEW i \in DOMAIN AfterRevise(L, t, n)
  PROVE  /\ AfterRevise(L, t, n)[i] \in Event
         /\ AfterRevise(L, t, n)[i].type \in {"rework_exhausted", "rework_created", "gate_created"}
         /\ AfterRevise(L, t, n)[1] \in {GateExhausted(t), ReworkOf(t, n)}
<1> DEFINE r == ReworkOf(t, n)
           g == GateOpened(Rework(t))
           h == GateOpened(Rework(n))
           x == GateExhausted(t)
<1>1. /\ r \in Event /\ g \in Event /\ h \in Event /\ x \in Event
      /\ r.type = "rework_created" /\ g.type = "gate_created" /\ h.type = "gate_created"
      /\ x.type = "rework_exhausted"
  BY EventTypes, NodePairs DEF ReworkOf, GateOpened, GateExhausted
<1>2. AfterRevise(L, t, n) \in {<<x>>, <<r>>, <<r, g>>, <<r, h>>, <<r, g, h>>}
  BY ReviseForms
<1> HIDE DEF r, g, h, x
<1>3. AfterRevise(L, t, n)[1] \in {x, r} /\ AfterRevise(L, t, n)[i] \in {x, r, g, h}
  BY <1>2
<1> QED
  BY <1>1, <1>3 DEF x, r

\* A verdict and what follows it: no other event changes the status of a node to cancelled.
LEMMA TaskCancelsNothing ==
  ASSUME IInv, caller = "task", NEW i \in DOMAIN todo, NEW n \in Ids
  PROVE  todo[i] # Status(n, "cancelled")
<1> SUFFICES ASSUME todo[i] = Status(n, "cancelled") PROVE FALSE
  OBVIOUS
<1>1. todo[i].type = "node_status_changed" /\ todo[i].status = "cancelled"
  BY DEF Status
<1>2. ASSUME NEW m \in Ids, NEW k \in Verdicts, VerdictWriting(m, k) PROVE FALSE
  <2> DEFINE v == Verdict(m, DepsOf(m), k)
  <2>1. v \in Event /\ v.type = "verdict_recorded"
    BY NodePairs, EventTypes DEF Verdict
  <2>2. CASE todo = <<v>>
    BY <1>1, <2>1, <2>2
  <2>3. ASSUME NEW t \in Ids, todo = <<v>> \o AfterRevise(led, t, m) PROVE FALSE
    <3> DEFINE a == AfterRevise(led, t, m)
    <3>1. a \in Seq(Event) /\ <<v>> \in Seq(Event)
      BY <2>1, AfterReviseTyped
    <3>2. \A j \in DOMAIN a : a[j].type # "node_status_changed"
      BY ReviseEvents
    <3> HIDE DEF a, v
    <3>3. i = 1 \/ (i - 1 \in DOMAIN a /\ todo[i] = a[i - 1])
      BY <2>3, <3>1 DEF a
    <3>4. todo[1] = v
      BY <2>3, <3>1 DEF a
    <3> QED
      BY <1>1, <2>1, <3>2, <3>3, <3>4
  <2> QED
    BY <1>2, <2>2, <2>3, NodePairs DEF VerdictWriting
<1>3. ASSUME NEW m \in Ids, Writing(m), ~\E k \in Verdicts : VerdictWriting(m, k) PROVE FALSE
  BY <1>1, <1>3 DEF Writing, ReadyWriting, DispatchWriting, RunWriting, FinishWriting, RetryWriting,
     BlockWriting, PassWriting, Status, Dispatched, Running, Finished, Retried, Verdict
<1>4. ASSUME NEW m \in Ids, NEW t \in Ids, ReviseScript(m, t) PROVE FALSE
  BY <1>1, <1>4, ReviseEvents DEF ReviseScript
<1>5. CASE GateScript
  BY <1>1, <1>5 DEF GateScript, GateOpened
<1> QED
  BY <1>2, <1>3, <1>4, <1>5 DEF IInv, ScriptFits, TaskScript

\* If nobody cancels the run, only a skipped gate makes the engine cancel a node.
LEMMA OnlySkipsCancel ==
  ASSUME IInv, caller # "cancel", NEW i \in DOMAIN todo, NEW n \in Ids,
         todo[i] = Status(n, "cancelled")
  PROVE  caller = "user" /\ Skipping(n)
<1>1. todo # << >> /\ caller \in {"start", "task", "advance", "user"}
  BY DEF IInv, ScriptFits, TypeOK, Callers
<1>2. todo[i].type = "node_status_changed" /\ todo[i].status = "cancelled" /\ todo[i].node = n
  BY DEF Status
<1>3. caller # "task"
  BY TaskCancelsNothing
<1>4. caller # "start"
  BY <1>2 DEF IInv, ScriptFits, StartScript, FirstStart, Restart, Created, Published, GateOpened,
     Reconciled
<1>5. caller # "advance"
  BY <1>2 DEF IInv, ScriptFits, Terminal
<1>6. CASE caller = "user"
  <2>1. \A m \in Ids, d \in Decisions : todo # <<GateResolved(m, d)>>
    BY <1>2 DEF GateResolved
  <2>2. PICK m \in Ids : Skipping(m)
    BY <1>6, <2>1 DEF IInv, ScriptFits, UserScript
  <2>3. todo[i] \in {Status(m, "cancelled"), Status(m, "ready"), GateResolved(m, "skip")}
    BY <2>2 DEF Skipping
  <2>4. m = n
    BY <1>2, <2>3 DEF Status, GateResolved
  <2> QED
    BY <1>6, <2>2, <2>4
<1> QED
  BY <1>1, <1>3, <1>4, <1>5, <1>6

\* A finished attempt is recorded by a coroutine past its launch, an exhausted rework by the
\* verifier of that rework.
LEMMA FinishOrigin ==
  ASSUME IInv, caller # "cancel", todo # << >>, Head(todo).type \in {"worker_finished", "rework_exhausted"}
  PROVE  /\ Head(todo).type = "worker_finished" =>
              pc[Head(todo).node] \in {"verdict", "collect", "release"}
         /\ Head(todo).type = "rework_exhausted" =>
              \E n, t \in Ids : ReviseScript(n, t) /\ Head(todo).node = t
<1> DEFINE e == Head(todo)
<1>1. /\ e = todo[1] /\ 1 \in DOMAIN todo /\ caller \in {"start", "task", "advance", "user"}
      /\ e.type \in {"worker_finished", "rework_exhausted"}
  BY Heads DEF IInv, ScriptFits, TypeOK, Callers
<1> HIDE DEF e
<1>2. CASE caller = "task"
  <2>1. ASSUME NEW n \in Ids, Writing(n)
        PROVE  e.type = "worker_finished" /\ pc[e.node] \in {"verdict", "collect", "release"}
    <3>1. e.type = "worker_finished" /\ e.node = n
      BY <1>1, <2>1, WriterNode DEF e
    <3>2. ASSUME NEW k \in Verdicts, VerdictWriting(n, k) PROVE FALSE
      <4> DEFINE v == Verdict(n, DepsOf(n), k)
      <4>1. v \in Event /\ v.type = "verdict_recorded"
        BY NodePairs, EventTypes DEF Verdict
      <4>2. \A t \in Ids : Head(<<v>> \o AfterRevise(led, t, n)) = v
        BY <4>1, AfterReviseTyped
      <4>3. Head(<<v>>) = v
        BY <4>1
      <4>4. todo = <<v>> \/ \E t \in Ids : todo = <<v>> \o AfterRevise(led, t, n)
        BY <3>2, NodePairs DEF VerdictWriting
      <4> HIDE DEF v
      <4> QED
        BY <3>1, <4>1, <4>2, <4>3, <4>4 DEF e
    <3>3. \E o \in Outcomes : FinishWriting(n, o)
      <4>1. ~ReadyWriting(n) /\ ~DispatchWriting(n) /\ ~RunWriting(n) /\ ~RetryWriting(n)
            /\ ~BlockWriting(n) /\ ~PassWriting(n)
        BY <1>1, <3>1 DEF ReadyWriting, DispatchWriting, RunWriting, RetryWriting, BlockWriting,
           PassWriting, Status, Dispatched, Running, Retried, Verdict
      <4> QED
        BY <2>1, <3>2, <4>1 DEF Writing
    <3> QED
      BY <3>1, <3>3 DEF FinishWriting
  <2>2. ASSUME NEW n \in Ids, NEW t \in Ids, ReviseScript(n, t)
        PROVE  e.type = "rework_exhausted" /\ e.node = t
    <3>1. todo = AfterRevise(led, t, n)
      BY <2>2 DEF ReviseScript
    <3>2. e = GateExhausted(t) \/ e = ReworkOf(t, n)
      BY <1>1, <3>1, ReviseEvents
    <3> QED
      BY <1>1, <3>2 DEF GateExhausted, ReworkOf
  <2>3. ~GateScript
    BY <1>1 DEF GateScript, GateOpened
  <2> QED
    BY <1>1, <1>2, <2>1, <2>2, <2>3 DEF IInv, ScriptFits, TaskScript, e
<1>3. caller # "start"
  BY <1>1 DEF IInv, ScriptFits, StartScript, FirstStart, Restart, Created, Published,
     GateOpened, Reconciled
<1>4. caller # "advance"
  BY <1>1 DEF IInv, ScriptFits, Terminal
<1>5. caller # "user"
  BY <1>1 DEF IInv, ScriptFits, UserScript, Skipping, Status, GateResolved
<1> QED
  BY <1>1, <1>2, <1>3, <1>4, <1>5

\* The append of a legal event leaves the run as undisturbed as it was.
LEMMA WriteAccepted ==
  ASSUME IInv, SingleJudges, NothingRefused, Undisturbed, cancels = 0, Write
  PROVE  NothingRefused' /\ Undisturbed'
<1> DEFINE e == Head(todo)
<1>1. /\ todo # << >> /\ up /\ led \in Ledger /\ led.terminal = "none"
      /\ Legal(led, e) /\ led' = Applied(led, e) /\ todo' = Tail(todo)
      /\ e \in Event /\ e = todo[1] /\ 1 \in DOMAIN todo
      /\ caller' = (IF todo' = << >> THEN "none" ELSE caller)
      /\ \A i \in DOMAIN todo' : i + 1 \in DOMAIN todo /\ todo'[i] = todo[i + 1]
      /\ UNCHANGED <<up, pc, adv, canc, raised, cancels>>
  BY Appending DEF Write, tasks, stop, history
<1>2. Safe(led, e) /\ IInv' /\ Sound(led) /\ Sound(led') /\ led' \in Ledger /\ todo' \in Seq(Event)
  BY WriteKeeps DEF IInv, TodoTyped, Sound
<1>3. Acceptable(led, todo, 1) /\ todo \in Seq(Event) /\ caller # "cancel"
  BY <1>1 DEF Undisturbed, Fitting, IInv, TodoTyped
<1>4. led.phase = "none" => e = Created
  BY <1>1 DEF Undisturbed
<1>5. led'.phase # "none"
  <2>1. CASE e.type \in {"run_created", "graph_published"}
    BY <1>1, <2>1, AppliedMarks
  <2>2. CASE e.type \notin {"run_created", "graph_published"}
    BY <1>1, <1>4, <2>2, AppliedMarks DEF Created
  <2> QED
    BY <2>1, <2>2
<1>6. NothingRefused'
  <2> SUFFICES ASSUME raised # {} PROVE led'.phase = "run_created"
    BY <1>1 DEF NothingRefused
  <2>1. led.phase = "run_created"
    BY <1>1 DEF NothingRefused
  <2>2. e = Published
    BY <1>1, <2>1, LegalPublished DEF Legal, LegalAfterTerminal, Created
  <2>3. raised = {}
    BY <1>1, <2>2 DEF Undisturbed, Published
  <2> QED
    BY <2>3
<1>7. Fitting(led', todo')
  BY <1>1, <1>2, <1>3, <1>4, RestFits DEF Undisturbed
<1>8. Attributed(led')
  <2>1. CASE e \in {Created, Published}
    <3>1. led'.node = led.node /\ led'.verdict = led.verdict /\ led'.attempts = led.attempts
          /\ led'.exhausted = led.exhausted /\ led'.gate = led.gate
      <4>1. led' = [led EXCEPT !.phase = "run_created"]
              \/ led' = [led EXCEPT !.phase = "graph_published"]
        BY <1>1, <2>1, AppliedForms
      <4> QED
        BY <1>1, <4>1 DEF Ledger
    <3> QED
      BY <3>1 DEF Undisturbed, Attributed, Unjudged, LastState, Reworked
  <2>2. CASE e \notin {Created, Published}
    <3>1. ASSUME e.type = "rework_exhausted", NEW v \in Ids, IsVerifier(v), v[2] = 1,
                 e.node[1] \in Deps[v[1]]
          PROVE  led.verdict[v] # "none"
      <4>1. PICK n \in Ids, t \in Ids : ReviseScript(n, t) /\ e.node = t
        BY <1>1, <1>3, <3>1, FinishOrigin
      <4>2. IsVerifier(n) /\ t \in DepsOf(n) /\ led.verdict[n] = "revise"
        BY <4>1 DEF ReviseScript
      <4>3. t[2] = 1
        BY <1>3, <1>1, <3>1, <4>1 DEF Acceptable
      <4>4. t \in DepsOf(v)
        <5>1. t = <<t[1], 1>>
          BY <4>3, NodePairs
        <5> QED
          BY <3>1, <4>1, <5>1 DEF DepsOf
      <4>5. v = n
        BY <3>1, <4>2, <4>4, OneJudge
      <4> QED
        BY <4>2, <4>5
    <3> QED
      BY <1>1, <1>2, <2>2, <3>1, AttributedKept DEF Undisturbed
  <2> QED
    BY <2>1, <2>2
<1>9. SkipFits(led', todo')
  <2> SUFFICES ASSUME NEW n \in Ids,
                      \/ todo' = <<Status(n, "cancelled")>>
                      \/ todo' = <<GateResolved(n, "skip"), Status(n, "cancelled")>>
               PROVE  led'.node[n] # "pending"
    BY DEF SkipFits
  <2> DEFINE c == Status(n, "cancelled")
  <2>1. \/ todo' = <<c>>
        \/ todo' = <<GateResolved(n, "skip"), c>>
    OBVIOUS
  <2>2. todo' # <<GateResolved(n, "skip"), c>>
    <3> SUFFICES ASSUME todo' = <<GateResolved(n, "skip"), c>> PROVE FALSE
      OBVIOUS
    <3>1. 1 \in DOMAIN todo' /\ todo'[1] = GateResolved(n, "skip")
      OBVIOUS
    <3>2. 2 \in DOMAIN todo /\ todo[2] = GateResolved(n, "skip")
      BY <1>1, <3>1
    <3>3. Acceptable(led, todo, 2)
      BY <3>2 DEF Undisturbed, Fitting
    <3> QED
      BY <3>2, <3>3 DEF Acceptable, GateResolved
  <2>3. todo' = <<c>>
    BY <2>1, <2>2
  <2>4. 2 \in DOMAIN todo /\ todo[2] = c /\ DOMAIN todo = 1 .. 2
    <3> HIDE DEF c
    <3>1. DOMAIN todo' = {1} /\ todo'[1] = c /\ Len(todo') = 1
      BY <2>3
    <3>2. Len(todo') = Len(todo) - 1 /\ Len(todo) \in Nat
      BY <1>1, <1>3, HeadTailProperties
    <3> QED
      BY <1>1, <1>3, <3>1, <3>2
  <2>5. Skipping(n)
    BY <1>3, <2>4, OnlySkipsCancel
  <2>6. \/ todo = <<GateResolved(n, "skip"), c>>
        \/ todo = <<Status(n, "ready"), c>>
    <3>1. DOMAIN <<c>> = 1 .. 1
      OBVIOUS
    <3>2. \A x, y : DOMAIN <<x, y, c>> = 1 .. 3
      OBVIOUS
    <3>3. 1 .. 1 # 1 .. 2 /\ 1 .. 3 # 1 .. 2
      OBVIOUS
    <3> HIDE DEF c
    <3> QED
      BY <2>4, <2>5, <3>1, <3>2, <3>3 DEF Skipping, c
  <2>7. CASE todo = <<GateResolved(n, "skip"), c>>
    <3>1. led.node[n] # "pending"
      BY <2>7 DEF Undisturbed, SkipFits
    <3>2. e = GateResolved(n, "skip")
      BY <1>1, <2>7
    <3>3. led'.node = led.node
      BY <1>1, <3>2, AppliedRest DEF GateResolved
    <3> QED
      BY <3>1, <3>3
  <2>8. CASE todo = <<Status(n, "ready"), c>>
    <3>1. e = Status(n, "ready")
      BY <1>1, <2>8
    <3>2. led'.node = [led.node EXCEPT ![n] = "ready"] /\ led.node \in [Ids -> NodeState]
      <4>1. led' = Applied(led, Status(n, "ready"))
        BY <1>1, <3>1
      <4>2. Applied(led, Status(n, "ready")).node = [led.node EXCEPT ![n] = "ready"]
        BY <1>1, NodeEffects
      <4> QED
        BY <1>1, <4>1, <4>2 DEF Ledger
    <3> QED
      BY <3>2
  <2> QED
    BY <2>6, <2>7, <2>8
<1>10. led'.terminal # "none" => todo' = << >> /\ adv' = "idle"
  <2> SUFFICES ASSUME led'.terminal # "none" PROVE todo' = << >> /\ adv = "idle"
    BY <1>1
  <2>1. e.type = "run_terminal"
    BY <1>1, AppliedRest
  <2>2. DOMAIN todo = {1} /\ adv = "idle"
    BY <1>1, <1>3, <2>1 DEF Acceptable, Undisturbed
  <2>3. DOMAIN todo' = {}
    <3> SUFFICES ASSUME NEW i \in DOMAIN todo' PROVE FALSE
      OBVIOUS
    <3>1. i \in Nat /\ i # 0
      BY <1>2
    <3> QED
      BY <1>1, <2>2, <3>1
  <2> QED
    BY <1>2, <2>2, <2>3
<1>11. /\ \A i \in DOMAIN todo' : todo'[i].type = "run_terminal" => adv' = "idle"
       /\ \A i \in DOMAIN todo' : todo'[i].type = "graph_published" => raised' = {}
  BY <1>1 DEF Undisturbed
<1>12. ASSUME NEW n \in Ids, pc[n] \in {"begin", "session", "launch"}
       PROVE  led'.node[n] # "cancelled"
  <2> SUFFICES ASSUME led'.node[n] = "cancelled" PROVE FALSE
    OBVIOUS
  <2>1. led.node[n] # "cancelled" /\ led.node[n] \in NodeState
    BY <1>1, <1>12 DEF Undisturbed, Ledger
  <2>2. n \in Touched(e)
    BY <1>1, <2>1, Untouched
  <2>3. CASE e.type = "node_status_changed"
    <3>1. e.node = n /\ led'.node = [led.node EXCEPT ![n] = e.status] /\ led.node \in [Ids -> NodeState]
      <4>1. e.node = n
        BY <2>2, <2>3 DEF Touched
      <4>2. Applied(led, e).node = [led.node EXCEPT ![e.node] = e.status]
        BY <1>1, <2>3, AppliedNode
      <4> QED
        BY <1>1, <4>1, <4>2 DEF Ledger
    <3>2. e.status = "cancelled"
      BY <3>1
    <3>3. e = Status(n, "cancelled")
      BY <1>1, <2>3, <3>1, <3>2, EventFields DEF Created, Published, Status, Running, Dispatched,
         Finished, Reconciled, Retried, ReworkOf, GateOpened, GateExhausted, GateResolved, Verdict,
         Terminal
    <3>4. Skipping(n)
      BY <1>1, <1>3, <3>3, OnlySkipsCancel
    <3> QED
      BY <1>12, <3>4 DEF Skipping
  <2>4. CASE e.type \in {"running", "attempt_dispatched", "reconciled", "retry_created"}
    <3>1. e.node = n /\ led.node \in [Ids -> NodeState]
      BY <1>1, <2>2, <2>4 DEF Touched, Ledger
    <3>2. \E s \in {"running", "assigned", "outcome_unknown", "ready"} :
            led'.node = [led.node EXCEPT ![n] = s]
      BY <1>1, <2>4, <3>1, AppliedNode
    <3> QED
      BY <3>1, <3>2
  <2>5. CASE e.type = "worker_finished"
    <3>1. e.node = n
      BY <2>2, <2>5 DEF Touched
    <3> QED
      BY <1>1, <1>3, <1>12, <2>5, <3>1, FinishOrigin
  <2>6. CASE e.type = "verdict_recorded"
    <3>1. e.verdict \in Verdicts
      BY <1>1, <2>6, EventFields DEF Created, Published, Status, Running, Dispatched, Finished,
         Reconciled, Retried, ReworkOf, GateOpened, GateExhausted, GateResolved, Verdict, Terminal
    <3>2. Judged(e.verdict) # "cancelled" /\ OwnState(e) # "cancelled"
      BY <3>1 DEF Judged, OwnState, Verdicts
    <3> QED
      BY <1>1, <2>1, <2>6, <3>2, AppliedVerdict
  <2>7. CASE e.type = "rework_created"
    <3>1. led'.node = [led.node EXCEPT ![Rework(e.node)] = "pending",
                                       ![Rework(e.verifier)] = "pending"]
      BY <1>1, <2>7, AppliedNode
    <3>2. n = Rework(e.node) \/ n = Rework(e.verifier)
      BY <2>2, <2>7 DEF Touched
    <3>3. led.node \in [Ids -> NodeState]
      BY <1>1 DEF Ledger
    <3> QED
      BY <3>1, <3>2, <3>3
  <2> QED
    BY <2>2, <2>3, <2>4, <2>5, <2>6, <2>7 DEF Touched
<1>13. canc' = "none" /\ caller' # "cancel"
  BY <1>1, <1>3 DEF Undisturbed
<1> HIDE DEF e
<1>14. pc' = pc
  BY <1>1
<1> QED
  BY <1>5, <1>6, <1>7, <1>8, <1>9, <1>10, <1>11, <1>12, <1>13, <1>14 DEF Undisturbed

\* A single event that asks nothing of the ledger
Plain == {"node_status_changed", "running", "attempt_dispatched", "worker_finished",
          "retry_created", "verdict_recorded"}

\* No event alone, and none of these alone, needs anything of the ledger.
LEMMA AloneFits ==
  ASSUME NEW L
  PROVE  /\ Fitting(L, << >>)
         /\ \A e \in Event : e.type \in Plain => Fitting(L, <<e>>)
<1>1. ASSUME NEW e \in Event, e.type \in Plain PROVE Fitting(L, <<e>>)
  <2>1. DOMAIN <<e>> = {1} /\ <<e>>[1] = e
    OBVIOUS
  <2>2. Acceptable(L, <<e>>, 1)
    BY <1>1, <2>1 DEF Acceptable, Plain
  <2> QED
    BY <2>1, <2>2 DEF Fitting
<1> QED
  BY <1>1 DEF Fitting

\* A verdict may come before what follows from it.
LEMMA VerdictFirst ==
  ASSUME NEW L, NEW v \in Event, v.type = "verdict_recorded", NEW s \in Seq(Event), Fitting(L, s),
         \A i \in DOMAIN s : s[i].type \in {"rework_exhausted", "rework_created", "gate_created"}
  PROVE  /\ Fitting(L, <<v>> \o s)
         /\ \A i \in DOMAIN (<<v>> \o s) :
              (<<v>> \o s)[i].type \in {"verdict_recorded", "rework_exhausted", "rework_created",
                                        "gate_created"}
<1> DEFINE c == <<v>> \o s
<1>1. /\ c[1] = v /\ DOMAIN c = 1 .. Len(s) + 1 /\ DOMAIN s = 1 .. Len(s) /\ Len(s) \in Nat
      /\ \A i \in DOMAIN c : i = 1 \/ (i - 1 \in DOMAIN s /\ c[i] = s[i - 1])
  OBVIOUS
<1> HIDE DEF c
<1>2. ASSUME NEW i \in DOMAIN c
      PROVE  c[i].type \in {"verdict_recorded", "rework_exhausted", "rework_created", "gate_created"}
  BY <1>1
<1>3. ASSUME NEW i \in DOMAIN c PROVE Acceptable(L, c, i)
  <2>1. CASE i = 1
    <3>1. ASSUME NEW j \in DOMAIN c, c[j] = c[1] PROVE j = 1
      <4> SUFFICES ASSUME j # 1 PROVE FALSE
        OBVIOUS
      <4>1. j - 1 \in DOMAIN s /\ c[j] = s[j - 1]
        BY <1>1
      <4> QED
        BY <1>1, <3>1, <4>1
    <3> QED
      BY <1>1, <2>1, <3>1 DEF Acceptable
  <2>2. CASE i # 1
    <3>1. /\ i - 1 \in DOMAIN s /\ c[i] = s[i - 1] /\ Acceptable(L, s, i - 1)
          /\ c[i].type \in {"rework_exhausted", "rework_created", "gate_created"} /\ i \in Nat
      BY <1>1, <2>2 DEF Fitting
    <3>2. ASSUME NEW j \in DOMAIN c, j # 1, s[j - 1] = s[i - 1] PROVE j = i
      <4>1. j - 1 \in DOMAIN s /\ j \in Nat
        BY <1>1, <3>2
      <4>2. j - 1 = i - 1
        BY <3>1, <3>2, <4>1 DEF Acceptable
      <4> QED
        BY <3>1, <4>1, <4>2
    <3>3. ASSUME NEW j \in DOMAIN c, c[j] = c[i] PROVE j = i
      <4>1. j # 1
        BY <1>1, <3>1, <3>3
      <4> QED
        BY <1>1, <3>1, <3>2, <3>3, <4>1
    <3>4. ASSUME c[i].type = "rework_exhausted", NEW j \in DOMAIN c, c[j].type = "rework_exhausted"
          PROVE  j = i
      <4>1. j # 1
        BY <1>1, <3>4
      <4>2. j - 1 \in DOMAIN s /\ s[j - 1].type = "rework_exhausted" /\ j \in Nat
        BY <1>1, <3>4, <4>1
      <4>3. j - 1 = i - 1
        BY <3>1, <3>4, <4>2 DEF Acceptable
      <4> QED
        BY <3>1, <4>2, <4>3
    <3> QED
      BY <3>1, <3>3, <3>4 DEF Acceptable
  <2> QED
    BY <2>1, <2>2
<1> QED
  BY <1>2, <1>3 DEF Fitting, c

\* What follows a revise verdict is acceptable before the verdict is on record.
LEMMA ReviseFits ==
  ASSUME IInv, SingleJudges, Attributed(led), NEW n \in Ids, NEW t \in Ids, IsVerifier(n),
         DepsOf(n) = {t}, led.verdict[n] = "none", DepSettled(led, n, t)
  PROVE  Fitting(led, AfterRevise(led, t, n))
<1> DEFINE r == ReworkOf(t, n)
           g == GateOpened(Rework(t))
           h == GateOpened(Rework(n))
           x == GateExhausted(t)
<1>0. /\ ~IsVerifier(t) /\ t[2] = n[2] /\ t[1] \in Deps[n[1]] /\ Unjudged(led, n)
      /\ Rework(t) \in Ids /\ Rework(n) \in Ids
  BY TargetsAreWork, NodePairs DEF Attributed
<1>1. CASE Reworked(led, <<t[1], 0>>)
  <2>1. t[2] = 1
    <3> SUFFICES ASSUME t[2] # 1 PROVE FALSE
      OBVIOUS
    <3>1. t[2] = 0 /\ t = <<t[1], 0>> /\ t \in Planned
      BY NodePairs, PlannedAreNodes
    <3>2. RevisionFits(led, t) /\ Reworked(led, t)
      BY <1>1, <3>1 DEF IInv, Sound
    <3>3. PICK w \in Planned : IsVerifier(w) /\ t \in DepsOf(w) /\ led.verdict[w] = "revise"
      BY <1>0, <3>2 DEF RevisionFits
    <3>4. w = n
      BY <3>3, OneJudge, PlannedAreNodes
    <3> QED
      BY <3>3, <3>4
  <2>2. t[1] \notin led.exhausted
    BY <1>0, <2>1 DEF Unjudged
  <2>3. /\ x.type = "rework_exhausted" /\ x.node = t /\ DOMAIN <<x>> = {1} /\ <<x>>[1] = x
        /\ AfterRevise(led, t, n) = <<x>>
    BY <1>1, ReviseForms DEF GateExhausted
  <2> HIDE DEF x
  <2>4. Acceptable(led, <<x>>, 1)
    BY <2>1, <2>2, <2>3 DEF Acceptable
  <2> QED
    BY <2>3, <2>4 DEF Fitting
<1>2. CASE ~Reworked(led, <<t[1], 0>>)
  <2>1. led.node[Rework(t)] = "absent"
    BY <1>2 DEF Reworked, Rework
  <2>2. t[2] = 0 /\ n[2] = 0
    <3>1. led.node[t] # "absent"
      BY DEF DepSettled
    <3>2. t[2] = 1 => Rework(t) = t
      BY NodePairs DEF Rework
    <3> QED
      BY <1>0, <2>1, <3>1, <3>2, NodePairs
  <2>3. led.node[Rework(n)] = "absent"
    <3> SUFFICES ASSUME Reworked(led, n) PROVE FALSE
      BY <2>2 DEF Reworked
    <3>1. Reworked(led, t)
      BY <2>2, PlannedAreNodes DEF Attributed
    <3> QED
      BY <2>1, <3>1 DEF Reworked
  <2>4. led.gate[Rework(t)] = "none" /\ led.gate[Rework(n)] = "none"
    BY <1>0, <2>1, <2>3 DEF Attributed
  <2>5. Rework(t) # Rework(n)
    <3>1. t[1] # n[1]
      BY <1>0, PlanAssumption, NodePairs
    <3> QED
      BY <3>1 DEF Rework
  <2>6. /\ r.type = "rework_created" /\ g.type = "gate_created" /\ h.type = "gate_created"
        /\ g.node = Rework(t) /\ h.node = Rework(n) /\ g # h
    BY <2>5 DEF ReworkOf, GateOpened
  <2>7. AfterRevise(led, t, n) \in {<<r>>, <<r, g>>, <<r, h>>, <<r, g, h>>}
    BY <1>2, ReviseForms
  <2> HIDE DEF r, g, h
  <2>8. ASSUME NEW s \in {<<r>>, <<r, g>>, <<r, h>>, <<r, g, h>>}, NEW i \in DOMAIN s
        PROVE  Acceptable(led, s, i)
    <3>1. s[i] \in {r, g, h}
      BY <2>8
    <3>2. ASSUME NEW j \in DOMAIN s, s[j] = s[i] PROVE j = i
      BY <2>6, <2>8, <3>2
    <3> QED
      BY <2>4, <2>6, <3>1, <3>2 DEF Acceptable
  <2> QED
    BY <2>7, <2>8 DEF Fitting
<1> QED
  BY <1>1, <1>2

\* A coroutine goes on to its next await, and nobody cancels.
LEMMA TaskAccepted ==
  ASSUME IInv, Undisturbed, NothingRefused, NEW n \in Ids, NEW y \in Stations \ {"none"},
         MayRun, pc[n] # "none", Goto(n, y), UNCHANGED <<led, up, adv, canc, raised, cancels>>,
         caller' \in {"none", "task"}, Fitting(led, todo'),
         \A i \in DOMAIN todo' :
           todo'[i].type \in Plain \cup {"rework_exhausted", "rework_created", "gate_created"},
         \A i \in DOMAIN todo' : \A m \in Ids : todo'[i] # Status(m, "cancelled"),
         y \in {"session", "launch"} => led.node[n] # "cancelled",
         y # "begin"
  PROVE  NothingRefused' /\ Undisturbed'
<1>1. /\ up /\ todo = << >> /\ pc \in [Ids -> Stations]
      /\ adv # "idle" /\ led.phase # "none" /\ led.terminal = "none"
  BY DEF MayRun, LoopFree, IInv, Control, Undisturbed, TypeOK
<1>2. SkipFits(led, todo')
  <2> SUFFICES ASSUME NEW m \in Ids,
                      \/ todo' = <<Status(m, "cancelled")>>
                      \/ todo' = <<GateResolved(m, "skip"), Status(m, "cancelled")>>
               PROVE  FALSE
    BY DEF SkipFits
  <2>1. \E i \in DOMAIN todo' : todo'[i] = Status(m, "cancelled")
    <3>1. CASE todo' = <<Status(m, "cancelled")>>
      <4>1. 1 \in DOMAIN todo' /\ todo'[1] = Status(m, "cancelled")
        BY <3>1
      <4> QED
        BY <4>1
    <3>2. CASE todo' = <<GateResolved(m, "skip"), Status(m, "cancelled")>>
      <4>1. 2 \in DOMAIN todo' /\ todo'[2] = Status(m, "cancelled")
        BY <3>2
      <4> QED
        BY <4>1
    <3> QED
      BY <3>1, <3>2
  <2> QED
    BY <2>1
<1>3. ASSUME NEW m \in Ids, pc'[m] \in {"begin", "session", "launch"} PROVE led.node[m] # "cancelled"
  BY <1>1, <1>3 DEF Goto, Undisturbed
<1>4. \A i \in DOMAIN todo' : todo'[i].type \notin {"run_terminal", "graph_published"}
  BY DEF Plain
<1>5. NothingRefused'
  BY DEF NothingRefused
<1>6. /\ canc' = "none" /\ caller' # "cancel" /\ Attributed(led')
      /\ Fitting(led', todo') /\ SkipFits(led', todo') /\ led'.terminal = "none"
  BY <1>1, <1>2 DEF Undisturbed
<1> QED
  BY <1>1, <1>3, <1>4, <1>5, <1>6 DEF Undisturbed

\* The same for a coroutine that appends at most one event
LEMMA OneAccepted ==
  ASSUME IInv, Undisturbed, NothingRefused, NEW n \in Ids, NEW y \in Stations \ {"none", "begin"},
         MayRun, pc[n] # "none", Goto(n, y), UNCHANGED <<led, up, adv, canc, raised, cancels>>,
         caller' \in {"none", "task"},
         \/ todo' = << >>
         \/ \E e \in Event : /\ todo' = <<e>> /\ e.type \in Plain
                             /\ \A m \in Ids : e # Status(m, "cancelled"),
         y \in {"session", "launch"} => led.node[n] # "cancelled"
  PROVE  NothingRefused' /\ Undisturbed'
<1>1. Fitting(led, todo')
  BY AloneFits
<1>2. ASSUME NEW i \in DOMAIN todo'
      PROVE  todo'[i].type \in Plain /\ \A m \in Ids : todo'[i] # Status(m, "cancelled")
  <2>1. PICK e \in Event : /\ todo' = <<e>> /\ e.type \in Plain
                           /\ \A m \in Ids : e # Status(m, "cancelled")
    BY <1>2
  <2>2. todo'[i] = e
    BY <2>1
  <2> QED
    BY <2>1, <2>2
<1>3. \A i \in DOMAIN todo' :
        todo'[i].type \in Plain \cup {"rework_exhausted", "rework_created", "gate_created"}
  BY <1>2
<1>4. \A i \in DOMAIN todo' : \A m \in Ids : todo'[i] # Status(m, "cancelled")
  BY <1>2
<1> QED
  BY <1>1, <1>3, <1>4, TaskAccepted

\* The kinds of the events a coroutine appends alone
LEMMA PlainEvents ==
  \A n \in Ids :
    /\ Status(n, "ready").type \in Plain /\ Status(n, "blocked").type \in Plain
    /\ Dispatched(n).type \in Plain /\ Running(n).type \in Plain /\ Retried(n).type \in Plain
    /\ \A o \in Outcomes : Finished(n, o).type \in Plain
    /\ \A ts \in SUBSET Ids, k \in Verdicts : Verdict(n, ts, k).type \in Plain
    /\ \A m \in Ids :
         /\ Status(n, "ready") # Status(m, "cancelled") /\ Status(n, "blocked") # Status(m, "cancelled")
         /\ Dispatched(n) # Status(m, "cancelled") /\ Running(n) # Status(m, "cancelled")
         /\ Retried(n) # Status(m, "cancelled")
         /\ \A o \in Outcomes : Finished(n, o) # Status(m, "cancelled")
         /\ \A ts \in SUBSET Ids, k \in Verdicts : Verdict(n, ts, k) # Status(m, "cancelled")
<1> SUFFICES ASSUME NEW n \in Ids
             PROVE  /\ Status(n, "ready").type \in Plain /\ Status(n, "blocked").type \in Plain
                    /\ Dispatched(n).type \in Plain /\ Running(n).type \in Plain
                    /\ Retried(n).type \in Plain
                    /\ \A o \in Outcomes : Finished(n, o).type \in Plain
                    /\ \A ts \in SUBSET Ids, k \in Verdicts : Verdict(n, ts, k).type \in Plain
                    /\ \A m \in Ids :
                         /\ Status(n, "ready") # Status(m, "cancelled")
                         /\ Status(n, "blocked") # Status(m, "cancelled")
                         /\ Dispatched(n) # Status(m, "cancelled")
                         /\ Running(n) # Status(m, "cancelled")
                         /\ Retried(n) # Status(m, "cancelled")
                         /\ \A o \in Outcomes : Finished(n, o) # Status(m, "cancelled")
                         /\ \A ts \in SUBSET Ids, k \in Verdicts :
                              Verdict(n, ts, k) # Status(m, "cancelled")
  BY Zenon
<1>1. \A m : Status(m, "cancelled").type = "node_status_changed" /\ Status(m, "cancelled").status = "cancelled"
  BY DEF Status
<1>2. /\ Status(n, "ready").type = "node_status_changed" /\ Status(n, "ready").status = "ready"
      /\ Status(n, "blocked").type = "node_status_changed" /\ Status(n, "blocked").status = "blocked"
  BY DEF Status
<1>3. /\ Dispatched(n).type = "attempt_dispatched" /\ Running(n).type = "running"
      /\ Retried(n).type = "retry_created"
  BY DEF Dispatched, Running, Retried
<1>4. \A o : Finished(n, o).type = "worker_finished"
  BY DEF Finished
<1>5. \A ts, k : Verdict(n, ts, k).type = "verdict_recorded"
  BY DEF Verdict
<1> QED
  BY <1>1, <1>2, <1>3, <1>4, <1>5 DEF Plain

\* An accepted verdict and what follows it
LEMMA VerdictAccepted ==
  ASSUME IInv, SingleJudges, Undisturbed, NothingRefused, NEW n \in Ids, VerdictPublished(n)
  PROVE  NothingRefused' /\ Undisturbed'
<1>1. /\ MayRun /\ pc[n] = "verdict" /\ Goto(n, "collect") /\ "collect" \in Stations
      /\ UNCHANGED <<led, up, adv, canc, raised, cancels>>
  BY DEF VerdictPublished, At, Stations, stop
<1>2. PICK k \in Judgements \ {"none"} :
        AppendsAs("task", <<Verdict(n, DepsOf(n), k)>> \o
          When(k = "revise" /\ Cardinality(DepsOf(n)) = 1,
               AfterRevise(led, CHOOSE t \in DepsOf(n) : TRUE, n)))
  BY DEF VerdictPublished
<1> DEFINE v == Verdict(n, DepsOf(n), k)
<1>3. /\ k \in Verdicts /\ v \in Event /\ v.type = "verdict_recorded"
      /\ \A m \in Ids : v # Status(m, "cancelled")
  BY NodePairs, EventTypes, PlainEvents, EngineAssumption DEF Verdict
<1>4. /\ IsVerifier(n) /\ led.verdict[n] = "none"
      /\ \A d \in DepsOf(n) : DepSettled(led, n, d)
  BY <1>1, Found DEF Resting, Taken
<1> HIDE DEF v
<1>5. CASE k = "revise" /\ Cardinality(DepsOf(n)) = 1
  <2>1. PICK t \in Ids : DepsOf(n) = {t} /\ (CHOOSE u \in DepsOf(n) : TRUE) = t
    BY <1>5, SingleTarget
  <2> DEFINE a == AfterRevise(led, t, n)
  <2>2. todo' = <<v>> \o a /\ caller' \in {"none", "task"}
    BY <1>2, <1>5, <2>1 DEF AppendsAs, When, v
  <2>3. a \in Seq(Event) /\ Fitting(led, a)
    BY <1>4, <2>1, AfterReviseTyped, ReviseFits DEF Undisturbed
  <2>4. \A i \in DOMAIN a : a[i].type \in {"rework_exhausted", "rework_created", "gate_created"}
    BY ReviseEvents
  <2> HIDE DEF a
  <2>5. /\ Fitting(led, todo')
        /\ \A i \in DOMAIN todo' : todo'[i].type \in {"verdict_recorded", "rework_exhausted",
                                                      "rework_created", "gate_created"}
    BY <1>3, <2>2, <2>3, <2>4, VerdictFirst
  <2>6. \A i \in DOMAIN todo' : \A m \in Ids : todo'[i] # Status(m, "cancelled")
    <3>1. \A m : Status(m, "cancelled").type = "node_status_changed"
      BY DEF Status
    <3> QED
      BY <2>5, <3>1
  <2>7. \A i \in DOMAIN todo' :
          todo'[i].type \in Plain \cup {"rework_exhausted", "rework_created", "gate_created"}
    BY <2>5 DEF Plain
  <2> QED
    BY <1>1, <2>2, <2>5, <2>6, <2>7, TaskAccepted
<1>6. CASE ~(k = "revise" /\ Cardinality(DepsOf(n)) = 1)
  <2>1. todo' = <<v>> \o << >> /\ caller' \in {"none", "task"}
    BY <1>2, <1>6 DEF AppendsAs, When, v
  <2>2. todo' = <<v>>
    BY <1>3, <2>1, ConcatEmptySeq, TodoForms
  <2>3. v.type \in Plain
    BY <1>3 DEF Plain
  <2> QED
    BY <1>1, <1>3, <2>1, <2>2, <2>3, OneAccepted
<1> QED
  BY <1>5, <1>6

\* Every step of a coroutine
LEMMA ExecuteNodeAccepted ==
  ASSUME IInv, SingleJudges, Undisturbed, NothingRefused, NEW n \in Ids, ExecuteNode(n)
  PROVE  NothingRefused' /\ Undisturbed'
<1> DEFINE Same == UNCHANGED <<led, up, adv, canc, raised, cancels>>
           One  == \/ todo' = << >>
                   \/ \E e \in Event : /\ todo' = <<e>> /\ e.type \in Plain
                                       /\ \A m \in Ids : e # Status(m, "cancelled")
           Who  == caller' \in {"none", "task"}
<1>0. \A s \in {"session", "launch", "stop", "events", "verdict", "collect", "release", "ended"} :
        s \in Stations \ {"none", "begin"}
  BY DEF Stations
<1>1. CASE Begin(n)
  <2>1. MayRun /\ pc[n] = "begin" /\ Goto(n, "session") /\ Same /\ led.node[n] # "cancelled"
    BY <1>1 DEF Begin, At, stop, history, Undisturbed
  <2>2. One /\ Who
    BY <1>1, EventTypes, PlainEvents DEF Begin, AppendsAs, When
  <2> QED
    BY <1>0, <2>1, <2>2, OneAccepted
<1>2. CASE SessionStarted(n)
  <2>1. MayRun /\ pc[n] = "session" /\ Goto(n, "launch") /\ Same /\ led.node[n] # "cancelled"
    BY <1>2 DEF SessionStarted, At, stop, history, Undisturbed
  <2>2. One /\ Who
    BY <1>2, EventTypes, PlainEvents DEF SessionStarted, AppendsAs
  <2> QED
    BY <1>0, <2>1, <2>2, OneAccepted
<1>3. CASE SessionFails(n) \/ NoVerdict(n)
  <2>1. /\ MayRun /\ pc[n] # "none" /\ Same /\ UNCHANGED <<todo, caller>>
        /\ Goto(n, "ended") \/ Goto(n, "collect")
    BY <1>3 DEF SessionFails, NoVerdict, At, stop, history
  <2>2. One /\ Who
    BY <2>1, Found
  <2> QED
    BY <1>0, <2>1, <2>2, OneAccepted
<1>4. CASE Launched(n)
  <2>1. MayRun /\ pc[n] # "none" /\ Same /\ (Goto(n, "stop") \/ Goto(n, "events"))
    BY <1>4 DEF Launched, At, stop
  <2>2. One /\ Who
    BY <1>4, EventTypes, PlainEvents DEF Launched, AppendsAs, When
  <2> QED
    BY <1>0, <2>1, <2>2, OneAccepted
<1>5. ASSUME NEW o \in Outcomes, GivesUp(n, o), MayRun, pc[n] # "none"
      PROVE  NothingRefused' /\ Undisturbed'
  <2>1. Goto(n, "release") /\ Same
    BY <1>5 DEF GivesUp, stop, history
  <2>2. One /\ Who
    BY <1>5, EventTypes, PlainEvents DEF GivesUp, AppendsAs, When
  <2> QED
    BY <1>0, <1>5, <2>1, <2>2, OneAccepted
<1>6. CASE LaunchFails(n)
  <2>1. PICK o \in LaunchErrors : GivesUp(n, o)
    BY <1>6 DEF LaunchFails
  <2>2. o \in Outcomes /\ MayRun /\ pc[n] # "none"
    BY <1>6, EngineAssumption DEF LaunchFails, At, Outcomes
  <2> QED
    BY <1>5, <2>1, <2>2
<1>7. CASE StoppedAtOnce(n)
  <2>1. MayRun /\ pc[n] # "none" /\ Same /\ Goto(n, "events")
    BY <1>7 DEF StoppedAtOnce, At, stop, history
  <2>2. One /\ Who
    BY <1>7, EventTypes, PlainEvents DEF StoppedAtOnce, AppendsAs
  <2> QED
    BY <1>0, <2>1, <2>2, OneAccepted
<1>8. CASE Reported(n)
  <2>1. MayRun /\ pc[n] # "none" /\ Same /\ (Goto(n, "verdict") \/ Goto(n, "collect"))
    BY <1>8 DEF Reported, At, stop, history
  <2>2. PICK o \in Reports : AppendsAs("task", <<Finished(n, o)>>)
    BY <1>8 DEF Reported
  <2>3. o \in Outcomes
    BY EngineAssumption DEF Outcomes
  <2>4. One /\ Who
    BY <2>2, <2>3, EventTypes, PlainEvents DEF AppendsAs
  <2> QED
    BY <1>0, <2>1, <2>4, OneAccepted
<1>9. CASE Breaks(n)
  <2>1. GivesUp(n, "outcome_unknown") /\ MayRun /\ pc[n] # "none" /\ "outcome_unknown" \in Outcomes
    BY <1>9 DEF Breaks, At, Outcomes
  <2> QED
    BY <1>5, <2>1
<1>10. CASE VerdictPublished(n)
  BY <1>10, VerdictAccepted
<1>11. CASE Collected(n)
  <2>1. MayRun /\ pc[n] # "none" /\ Same /\ Goto(n, "release")
    BY <1>11 DEF Collected, At, stop, history
  <2>2. Verdict(n, {n}, "pass") \in Event /\ Verdict(n, {n}, "pass").type \in Plain
        /\ \A m \in Ids : Verdict(n, {n}, "pass") # Status(m, "cancelled")
    BY EventTypes, PlainEvents DEF Verdicts
  <2>3. One /\ Who
    BY <1>11, <2>2 DEF Collected, AppendsAs, When
  <2> QED
    BY <1>0, <2>1, <2>3, OneAccepted
<1>12. CASE Released(n)
  <2>1. /\ MayRun /\ pc[n] # "none" /\ Same
        /\ Goto(n, "ended") \/ (Goto(n, "session") /\ led.node[n] = "outcome_unknown")
    BY <1>12 DEF Released, At, stop, history
  <2>2. One /\ Who
    <3>1. todo = << >> /\ caller = "none"
      BY <2>1, Found
    <3> QED
      BY <1>12, <3>1, EventTypes, PlainEvents DEF Released, AppendsAs, NoAppend
  <2> QED
    BY <1>0, <2>1, <2>2, OneAccepted
<1> QED
  BY <1>1, <1>2, <1>3, <1>4, <1>6, <1>7, <1>8, <1>9, <1>10, <1>11, <1>12 DEF ExecuteNode

\* An order of a finite set names nothing twice.
LEMMA OrdersDistinct ==
  ASSUME NEW S, NEW order \in SetToSeqs(S)
  PROVE  \A i, j \in DOMAIN order : order[i] = order[j] => i = j
BY DEF SetToSeqs

\* The first start of a run: run_created, graph_published and a gate per premium node
LEMMA FirstStartAccepted ==
  ASSUME IInv, Undisturbed, NothingRefused, cancels = 0, Start, led.phase = "none"
  PROVE  NothingRefused' /\ Undisturbed'
<1>1. /\ ~up /\ up' = TRUE /\ led.terminal = "none" /\ raised = {}
      /\ UNCHANGED <<led, pc, adv, canc, raised, cancels>>
  BY DEF Start, tasks, stop, history, NothingRefused
<1>2. \A n \in Ids : led.gate[n] = "none"
  <2>1. led.gate = EmptyLedger.gate
    <3>1. led = [EmptyLedger EXCEPT !.phase = led.phase]
      BY DEF IInv, Sound, Unpublished
    <3> QED
      BY <3>1 DEF EmptyLedger
  <2> QED
    BY <2>1 DEF EmptyLedger
<1>3. PICK order \in SetToSeqs(GatesOf(led, Planned)) :
        AppendsAs("start", <<Created, Published>> \o
                           [i \in DOMAIN order |-> GateOpened(order[i])])
  BY DEF Start
<1> DEFINE gs == [i \in DOMAIN order |-> GateOpened(order[i])]
<1>4. /\ order \in Seq(GatesOf(led, Planned)) /\ GatesOf(led, Planned) \subseteq Ids
      /\ \A i, j \in DOMAIN order : order[i] = order[j] => i = j
  <2>1. GatesOf(led, Planned) \subseteq Ids
    BY PlannedAreNodes DEF GatesOf
  <2> QED
    BY <2>1, FiniteNodes, FS_Subset, Orders, OrdersDistinct
<1>5. /\ gs \in Seq(Event) /\ DOMAIN gs = DOMAIN order
      /\ \A i \in DOMAIN gs : gs[i] = GateOpened(order[i]) /\ order[i] \in Ids
  <2>1. \A i \in DOMAIN order : order[i] \in Ids /\ GateOpened(order[i]) \in Event
    BY <1>4, EventTypes
  <2> QED
    BY <1>4, <2>1
<1> HIDE DEF gs
<1>6. /\ todo' = <<Created, Published>> \o gs /\ caller' \in {"none", "start"}
      /\ Created \in Event /\ Published \in Event
  BY <1>3, EventTypes DEF AppendsAs, gs
<1>7. /\ DOMAIN todo' = 1 .. 2 + Len(gs) /\ todo'[1] = Created /\ todo'[2] = Published
      /\ \A i \in DOMAIN todo' : i \in {1, 2} \/ (i - 2 \in DOMAIN gs /\ todo'[i] = gs[i - 2])
      /\ todo' # << >> /\ Len(gs) \in Nat
  <2>1. <<Created, Published>> \in Seq(Event) /\ Len(<<Created, Published>>) = 2
        /\ <<Created, Published>>[1] = Created /\ <<Created, Published>>[2] = Published
    BY <1>6
  <2>2. /\ todo' \in Seq(Event) /\ Len(todo') = 2 + Len(gs) /\ Len(gs) \in Nat
        /\ \A i \in 1 .. 2 + Len(gs) :
             todo'[i] = IF i <= 2 THEN <<Created, Published>>[i] ELSE gs[i - 2]
    BY <1>5, <1>6, <2>1, ConcatProperties
  <2>3. DOMAIN todo' = 1 .. 2 + Len(gs) /\ DOMAIN gs = 1 .. Len(gs)
    BY <1>5, <2>2
  <2>4. todo'[1] = Created /\ todo'[2] = Published
    BY <2>1, <2>2
  <2>5. ASSUME NEW i \in DOMAIN todo', i \notin {1, 2}
        PROVE  i - 2 \in DOMAIN gs /\ todo'[i] = gs[i - 2]
    BY <2>2, <2>3, <2>5
  <2> QED
    BY <2>2, <2>3, <2>4, <2>5
<1>8. Created.type = "run_created" /\ Published.type = "graph_published"
  BY DEF Created, Published
<1>9. ASSUME NEW i \in DOMAIN todo', i \notin {1, 2}
      PROVE  /\ i - 2 \in DOMAIN order /\ order[i - 2] \in Ids /\ i \in Nat
             /\ todo'[i].type = "gate_created" /\ todo'[i].node = order[i - 2]
  BY <1>5, <1>7, <1>9 DEF GateOpened
<1>10. Fitting(led, todo')
  <2> SUFFICES ASSUME NEW i \in DOMAIN todo' PROVE Acceptable(led, todo', i)
    BY DEF Fitting
  <2>1. ASSUME NEW j \in DOMAIN todo', todo'[j] = todo'[i] PROVE j = i
    <3>1. CASE i \in {1, 2} \/ j \in {1, 2}
      BY <1>7, <1>8, <1>9, <2>1, <3>1
    <3>2. CASE i \notin {1, 2} /\ j \notin {1, 2}
      <4>1. order[i - 2] = order[j - 2] /\ i \in Nat /\ j \in Nat
        BY <1>9, <2>1, <3>2
      <4>2. i - 2 = j - 2
        BY <1>4, <1>9, <3>2, <4>1
      <4> QED
        BY <4>1, <4>2
    <3> QED
      BY <3>1, <3>2
  <2>2. CASE i \in {1, 2}
    BY <1>7, <1>8, <2>1, <2>2 DEF Acceptable
  <2>3. CASE i \notin {1, 2}
    BY <1>2, <1>9, <2>1, <2>3 DEF Acceptable
  <2> QED
    BY <2>2, <2>3
<1>11. SkipFits(led, todo')
  <2>1. \A n : GateResolved(n, "skip").type = "gate_resolved" /\ Status(n, "cancelled").type = "node_status_changed"
    BY DEF GateResolved, Status
  <2>2. \A x, y : <<x>>[1] = x /\ <<x, y>>[1] = x
    OBVIOUS
  <2> QED
    BY <1>7, <1>8, <2>1, <2>2 DEF SkipFits
<1>12. \A i \in DOMAIN todo' : todo'[i].type # "run_terminal"
  BY <1>7, <1>8, <1>9
<1>13. NothingRefused'
  BY <1>1 DEF NothingRefused
<1>14. /\ canc' = "none" /\ caller' # "cancel" /\ Attributed(led') /\ led'.terminal = "none"
       /\ \A n \in Ids : pc'[n] \in {"begin", "session", "launch"} => led'.node[n] # "cancelled"
  BY <1>1, <1>6 DEF Undisturbed
<1> QED
  BY <1>1, <1>7, <1>10, <1>11, <1>12, <1>13, <1>14 DEF Undisturbed

\* A restart: the attempts in flight are recorded as unknown.
LEMMA RestartAccepted ==
  ASSUME IInv, Undisturbed, NothingRefused, Start, led.phase # "none"
  PROVE  NothingRefused' /\ Undisturbed'
<1>1. /\ ~up /\ up' = TRUE /\ led.terminal = "none"
      /\ UNCHANGED <<led, pc, adv, canc, raised, cancels>>
  BY DEF Start, tasks, stop, history
<1>2. PICK order \in SetToSeqs(InflightAtRestart(led)) :
        AppendsAs("start", [i \in DOMAIN order |-> Reconciled(order[i])])
  BY DEF Start
<1>3. /\ order \in Seq(InflightAtRestart(led)) /\ InflightAtRestart(led) \subseteq Ids
      /\ \A i, j \in DOMAIN order : order[i] = order[j] => i = j
  <2>1. InflightAtRestart(led) \subseteq Ids
    BY DEF InflightAtRestart
  <2> QED
    BY <2>1, FiniteNodes, FS_Subset, Orders, OrdersDistinct
<1>4. /\ todo' = [i \in DOMAIN order |-> Reconciled(order[i])] /\ caller' \in {"none", "start"}
  BY <1>2 DEF AppendsAs
<1>5. ASSUME NEW i \in DOMAIN todo'
      PROVE  /\ i \in DOMAIN order /\ todo'[i].type = "reconciled" /\ todo'[i].node = order[i]
             /\ HasAttemptInFlight(led, order[i])
  <2>1. i \in DOMAIN order /\ todo'[i] = Reconciled(order[i])
    BY <1>4
  <2>2. order[i] \in InflightAtRestart(led)
    BY <1>3, <2>1
  <2> QED
    BY <2>1, <2>2 DEF InflightAtRestart, Reconciled
<1>6. Fitting(led, todo')
  <2> SUFFICES ASSUME NEW i \in DOMAIN todo' PROVE Acceptable(led, todo', i)
    BY DEF Fitting
  <2>1. ASSUME NEW j \in DOMAIN todo', todo'[j] = todo'[i] PROVE j = i
    BY <1>3, <1>5, <2>1
  <2> QED
    BY <1>5, <2>1 DEF Acceptable
<1>7. SkipFits(led, todo')
  <2> SUFFICES ASSUME NEW n \in Ids,
                      \/ todo' = <<Status(n, "cancelled")>>
                      \/ todo' = <<GateResolved(n, "skip"), Status(n, "cancelled")>>
               PROVE  FALSE
    BY DEF SkipFits
  <2>1. 1 \in DOMAIN todo' /\ todo'[1] \in {Status(n, "cancelled"), GateResolved(n, "skip")}
    <3>1. \A x, y : 1 \in DOMAIN <<x>> /\ 1 \in DOMAIN <<x, y>> /\ <<x>>[1] = x /\ <<x, y>>[1] = x
      OBVIOUS
    <3> QED
      BY <3>1
  <2> QED
    BY <1>5, <2>1 DEF Status, GateResolved
<1>8. NothingRefused'
  BY <1>1 DEF NothingRefused
<1>9. /\ canc' = "none" /\ caller' # "cancel" /\ Attributed(led') /\ led'.terminal = "none"
      /\ \A n \in Ids : pc'[n] \in {"begin", "session", "launch"} => led'.node[n] # "cancelled"
      /\ led'.phase # "none"
  BY <1>1, <1>4 DEF Undisturbed
<1> QED
  BY <1>1, <1>5, <1>6, <1>7, <1>8, <1>9 DEF Undisturbed

\* advance dispatches candidates only, and none of them is cancelled.
LEMMA AdvanceAccepted ==
  ASSUME IInv, Undisturbed, NothingRefused, Advance
  PROVE  NothingRefused' /\ Undisturbed'
<1>1. /\ led.terminal = "none" /\ todo = << >> /\ UNCHANGED <<led, up, todo, caller, canc, raised, cancels>>
  BY DEF Advance, LoopFree, stop, history
<1>2. PICK S \in Waves(led) : pc' = [n \in Ids |-> IF n \in S THEN "begin" ELSE pc[n]]
  BY DEF Advance
<1>3. \A n \in S : led.node[n] \in {"pending", "ready"}
  BY DEF Waves, Candidates
<1>4. \A n \in Ids : pc'[n] \in {"begin", "session", "launch"} => led'.node[n] # "cancelled"
  BY <1>1, <1>2, <1>3 DEF Undisturbed
<1>5. DOMAIN todo' = {}
  BY <1>1
<1> QED
  BY <1>1, <1>4, <1>5 DEF Undisturbed, NothingRefused

\* advance ends a run only with a status the reducer accepts.
LEMMA GatheredAccepted ==
  ASSUME IInv, Undisturbed, NothingRefused, Gathered
  PROVE  NothingRefused' /\ Undisturbed'
<1>1. /\ up /\ todo = << >> /\ adv' = "idle" /\ led.phase # "none"
      /\ pc' = [n \in Ids |-> IF n \in wave THEN "none" ELSE pc[n]]
      /\ AppendsAs("advance", Settlement(led))
      /\ UNCHANGED <<led, up, canc, raised, cancels>>
  BY DEF Gathered, LoopFree, history, Undisturbed
<1>2. \/ todo' = << >>
      \/ led.terminal = "none" /\ \E s \in Terminals : todo' = <<Terminal(s)>> /\ MayEnd(led, s)
  <2>1. CASE Settlement(led) = << >>
    BY <1>1, <2>1 DEF AppendsAs
  <2>2. CASE Settlement(led) # << >>
    <3> DEFINE states == {led.node[n] : n \in Unreplaced(led)}
    <3>1. led.terminal = "none"
      BY <2>2 DEF Settlement
    <3>2. \/ states = {"passed"} /\ Settlement(led) = <<Terminal("succeeded")>>
          \/ Settlement(led) = <<Terminal("blocked")>>
          \/ Settlement(led) = <<Terminal("failed")>>
      BY <2>2 DEF Settlement, When
    <3>3. states = {"passed"} => MayEnd(led, "succeeded")
      BY DEF MayEnd
    <3>4. MayEnd(led, "blocked") /\ MayEnd(led, "failed")
      BY DEF MayEnd
    <3> HIDE DEF states
    <3>5. \E s \in Terminals : Settlement(led) = <<Terminal(s)>> /\ MayEnd(led, s)
      BY <3>2, <3>3, <3>4 DEF Terminals
    <3> QED
      BY <1>1, <3>1, <3>5 DEF AppendsAs
  <2> QED
    BY <2>1, <2>2
<1>3. /\ Fitting(led, todo') /\ SkipFits(led, todo')
      /\ \A i \in DOMAIN todo' : todo'[i].type # "graph_published"
      /\ led.terminal # "none" => todo' = << >>
  <2>1. CASE todo' = << >>
    BY <2>1, AloneFits DEF SkipFits
  <2>2. ASSUME NEW s \in Terminals, todo' = <<Terminal(s)>>, MayEnd(led, s), led.terminal = "none"
        PROVE  /\ Fitting(led, todo') /\ SkipFits(led, todo')
               /\ \A i \in DOMAIN todo' : todo'[i].type # "graph_published"
               /\ led.terminal # "none" => todo' = << >>
    <3>1. Terminal(s).type = "run_terminal" /\ Terminal(s).status = s
      BY DEF Terminal
    <3>2. \A n : Status(n, "cancelled").type = "node_status_changed" /\ GateResolved(n, "skip").type = "gate_resolved"
      BY DEF Status, GateResolved
    <3>3. DOMAIN todo' = {1} /\ todo'[1] = Terminal(s)
      BY <2>2
    <3>4. Acceptable(led, todo', 1)
      BY <2>2, <3>1, <3>3 DEF Acceptable
    <3>5. \A x, y : <<x>>[1] = x /\ <<x, y>>[1] = x
      OBVIOUS
    <3>6. SkipFits(led, todo')
      BY <3>1, <3>2, <3>3, <3>5 DEF SkipFits
    <3> QED
      BY <2>2, <3>1, <3>3, <3>4, <3>6 DEF Fitting
  <2> QED
    BY <1>2, <2>1, <2>2
<1>4. \A n \in Ids : pc'[n] \in {"begin", "session", "launch"} => led.node[n] # "cancelled"
  BY <1>1 DEF Undisturbed
<1>5. caller' \in {"none", "advance"}
  BY <1>1 DEF AppendsAs
<1>6. canc' = "none" /\ Attributed(led') /\ led'.phase # "none"
  BY <1>1 DEF Undisturbed
<1>7. NothingRefused'
  BY <1>1 DEF NothingRefused
<1> QED
  BY <1>1, <1>3, <1>4, <1>5, <1>6, <1>7 DEF Undisturbed

\* The user's answer to a gate resolves an open gate, and skips a node it makes ready first.
LEMMA ResolveAccepted ==
  ASSUME IInv, Undisturbed, NothingRefused, ResolvePremiumGate
  PROVE  NothingRefused' /\ Undisturbed'
<1>1. /\ up /\ todo = << >> /\ led.terminal = "none" /\ led.phase # "none"
      /\ UNCHANGED <<led, up, pc, adv, canc, raised, cancels>>
  BY DEF ResolvePremiumGate, LoopFree, tasks, stop, history, Undisturbed
<1>2. PICK n \in Ids, d \in Decisions :
        /\ led.gate[n] = "open" /\ caller' = "user"
        /\ \/ d # "skip" /\ todo' = <<GateResolved(n, d)>>
           \/ /\ d = "skip" /\ led.node[n] = "pending"
              /\ todo' = <<GateResolved(n, d), Status(n, "ready"), Status(n, "cancelled")>>
           \/ /\ d = "skip" /\ led.node[n] # "pending"
              /\ todo' = <<GateResolved(n, d), Status(n, "cancelled")>>
  BY ResolveScripts
<1> DEFINE g == GateResolved(n, d)
           r == Status(n, "ready")
           c == Status(n, "cancelled")
<1>3. /\ g.type = "gate_resolved" /\ g.node = n
      /\ r.type = "node_status_changed" /\ c.type = "node_status_changed" /\ r # c
  BY DEF GateResolved, Status
<1>4. todo' \in {<<g>>, <<g, r, c>>, <<g, c>>}
  BY <1>2
<1>5. SkipFits(led, todo')
  <2> SUFFICES ASSUME NEW m \in Ids,
                      \/ todo' = <<Status(m, "cancelled")>>
                      \/ todo' = <<GateResolved(m, "skip"), Status(m, "cancelled")>>
               PROVE  led.node[m] # "pending"
    BY DEF SkipFits
  <2>1. Status(m, "cancelled").type = "node_status_changed"
        /\ GateResolved(m, "skip").node = m
    BY DEF Status, GateResolved
  <2> DEFINE x == Status(m, "cancelled")
             y == GateResolved(m, "skip")
  <2>2. \/ todo' = <<x>>
        \/ todo' = <<y, x>>
    OBVIOUS
  <2> HIDE DEF x, y, g, r, c
  <2>3. todo' = <<y, x>> /\ todo' \in {<<g, c>>}
    <3>1. todo'[1] = g
      BY <1>4
    <3>2. todo' # <<x>>
      BY <1>3, <2>1, <3>1 DEF x
    <3>3. Len(todo') = 2
      BY <2>2, <3>2
    <3> QED
      BY <1>4, <2>2, <3>2, <3>3
  <2>4. y = g
    BY <2>3
  <2>5. m = n
    BY <1>3, <2>1, <2>4 DEF y
  <2>6. Len(todo') = 2
    BY <2>3
  <2>7. todo' # <<g>> /\ todo' # <<g, r, c>>
    BY <2>6
  <2> QED
    BY <1>2, <2>5, <2>7 DEF g, r, c
<1> HIDE DEF g, r, c
<1>6. ASSUME NEW i \in DOMAIN todo'
      PROVE  /\ Acceptable(led, todo', i)
             /\ todo'[i].type \notin {"run_terminal", "graph_published"}
  <2>1. todo'[i] \in {g, r, c} /\ (todo'[i] = g => i = 1)
    BY <1>3, <1>4
  <2>2. ASSUME NEW j \in DOMAIN todo', todo'[j] = todo'[i] PROVE j = i
    BY <1>3, <1>4, <2>2
  <2> QED
    BY <1>2, <1>3, <2>1, <2>2 DEF Acceptable
<1>7. Fitting(led, todo')
  BY <1>6 DEF Fitting
<1>8. NothingRefused'
  BY <1>1 DEF NothingRefused
<1>9. /\ canc' = "none" /\ caller' # "cancel" /\ Attributed(led') /\ led'.terminal = "none"
      /\ \A m \in Ids : pc'[m] \in {"begin", "session", "launch"} => led'.node[m] # "cancelled"
  BY <1>1, <1>2 DEF Undisturbed
<1> QED
  BY <1>1, <1>5, <1>6, <1>7, <1>8, <1>9 DEF Undisturbed

\* A refusal is that of a run whose graph was never published.
LEMMA RefusedAccepted ==
  ASSUME IInv, SingleJudges, Undisturbed, NothingRefused, Refused
  PROVE  NothingRefused' /\ Undisturbed'
<1>1. led.phase = "run_created" /\ led' = led /\ todo' = << >> /\ caller' = "none"
  BY AcceptedHead DEF Refused, Forgotten, Legal
<1>2. /\ canc' = "none" /\ led.terminal = "none"
      /\ pc' = pc \/ pc' = [n \in Ids |-> "none"]
  BY DEF Refused, Forgotten, Undisturbed, tasks
<1>3. Fitting(led, todo') /\ SkipFits(led, todo')
  BY <1>1, AloneFits DEF SkipFits
<1>4. \A n \in Ids : pc'[n] \in {"begin", "session", "launch"} => led'.node[n] # "cancelled"
  BY <1>1, <1>2 DEF Undisturbed
<1>5. DOMAIN todo' = {}
  BY <1>1
<1> QED
  BY <1>1, <1>2, <1>3, <1>4, <1>5 DEF Undisturbed, NothingRefused

\* A death leaves nothing to be refused.
LEMMA CrashAccepted ==
  ASSUME IInv, Undisturbed, NothingRefused, Crash
  PROVE  NothingRefused' /\ Undisturbed'
<1>1. /\ led' = led /\ todo' = << >> /\ caller' = "none" /\ canc' = "none" /\ up' = FALSE
      /\ pc' = [n \in Ids |-> "none"] /\ adv' = "idle" /\ raised' = raised /\ cancels' = cancels
  BY DEF Crash, Forgotten
<1>2. Fitting(led, todo') /\ SkipFits(led, todo')
  BY <1>1, AloneFits DEF SkipFits
<1>3. DOMAIN todo' = {} /\ NothingRefused'
  BY <1>1 DEF NothingRefused
<1>4. Attributed(led')
  BY <1>1 DEF Undisturbed
<1> QED
  BY <1>1, <1>2, <1>3, <1>4 DEF Undisturbed

\* Every step keeps a run nobody cancels free of refusals.
LEMMA AcceptedKept ==
  ASSUME IInv, SingleJudges, AcceptedInv, [Next]_vars
  PROVE  AcceptedInv'
<1>1. CASE cancels' # 0
  <2>1. cancels \in Nat /\ cancels' \in Nat
    BY NextKeeps, EngineAssumption DEF IInv, TypeOK
  <2> QED
    BY <1>1, <2>1 DEF AcceptedInv, NothingRefused
<1>2. CASE cancels' = 0
  <2>1. cancels = 0
    <3>1. cancels' = cancels \/ cancels' = cancels + 1
      BY DEF Next, vars, history, Write, Refused, Crash, Start, ExecuteNode, Begin, SessionStarted,
         SessionFails, Launched, LaunchFails, GivesUp, StoppedAtOnce, Reported, Breaks,
         VerdictPublished, NoVerdict, Collected, Released, Advance, Gathered, Cancel,
         DispatchesStopped, TasksGathered, CancelNode, CancelEnds, ResolvePremiumGate
    <3>2. cancels \in Nat
      BY EngineAssumption DEF IInv, TypeOK
    <3> QED
      BY <1>2, <3>1, <3>2
  <2>2. Undisturbed /\ NothingRefused /\ canc = "none"
    BY <2>1 DEF AcceptedInv, Undisturbed
  <2> SUFFICES NothingRefused' /\ Undisturbed'
    BY DEF AcceptedInv
  <2>3. CASE Write
    BY <2>1, <2>2, <2>3, WriteAccepted
  <2>4. CASE Refused \/ Crash
    BY <2>2, <2>4, RefusedAccepted, CrashAccepted
  <2>5. CASE Start
    BY <2>1, <2>2, <2>5, FirstStartAccepted, RestartAccepted
  <2>6. CASE \E n \in Ids : ExecuteNode(n)
    BY <2>2, <2>6, ExecuteNodeAccepted
  <2>7. CASE Advance \/ Gathered \/ ResolvePremiumGate
    BY <2>2, <2>7, AdvanceAccepted, GatheredAccepted, ResolveAccepted
  <2>8. CASE Cancel
    <3>1. cancels' = cancels + 1
      BY <2>8 DEF Cancel
    <3> QED
      BY <1>2, <2>1, <3>1
  <2>9. ~(DispatchesStopped \/ TasksGathered \/ CancelNode \/ CancelEnds)
    BY <2>2 DEF DispatchesStopped, TasksGathered, CancelIsNext, CancelNode, CancelEnds
  <2>10. CASE UNCHANGED vars
    BY <2>2, <2>10 DEF Undisturbed, NothingRefused, vars, tasks, stop, history, Fitting, SkipFits
  <2> QED
    BY <2>3, <2>4, <2>5, <2>6, <2>7, <2>8, <2>9, <2>10 DEF Next
<1> QED
  BY <1>1, <1>2

\* Nothing was refused before anything was done.
LEMMA AcceptedInit == Init => AcceptedInv
<1> SUFFICES ASSUME Init PROVE AcceptedInv
  OBVIOUS
<1>1. /\ led = EmptyLedger /\ todo = << >> /\ raised = {} /\ canc = "none" /\ caller = "none"
      /\ adv = "idle" /\ up = FALSE /\ \A n \in Ids : pc[n] = "none"
  BY DEF Init
<1>2. Fitting(led, todo) /\ SkipFits(led, todo) /\ DOMAIN todo = {}
  BY <1>1, AloneFits DEF SkipFits
<1>3. Attributed(EmptyLedger)
  <2>1. /\ EmptyLedger.gate = [n \in Ids |-> "none"] /\ EmptyLedger.exhausted = {}
        /\ EmptyLedger.node = [n \in Ids |-> IF n \in Planned THEN "pending" ELSE "absent"]
    BY DEF EmptyLedger
  <2>2. ASSUME NEW v \in Planned PROVE ~Reworked(EmptyLedger, v)
    <3>1. v \in Ids
      BY PlannedAreNodes
    <3>2. Rework(v) \in Ids
      BY <3>1, NodePairs
    <3>3. Rework(v)[2] = 1
      BY DEF Rework
    <3>4. Rework(v) \notin Planned
      BY <3>2, <3>3, PlannedAreNodes
    <3> QED
      BY <2>1, <3>2, <3>4 DEF Reworked
  <2>3. ASSUME NEW v \in Ids PROVE Unjudged(EmptyLedger, v)
    BY <2>1, NodePairs DEF Unjudged
  <2> QED
    BY <2>1, <2>2, <2>3 DEF Attributed
<1> QED
  BY <1>1, <1>2, <1>3 DEF AcceptedInv, NothingRefused, Undisturbed

(* In a plan in which nobody judges what another judges, and as long as      *)
(* nobody cancels, the engine never proposes an event its own reducer        *)
(* refuses, whatever interleaving of coroutines, deaths, restarts, retries,  *)
(* reworks and gate decisions came before.  The one exception is a run whose *)
(* first process died between run_created and graph_published.               *)
THEOREM EngineNothingRefused ==
  ASSUME SingleJudges
  PROVE  Spec => []NothingRefused
<1>1. Init => AcceptedInv
  BY AcceptedInit
<1>2. IInv /\ AcceptedInv /\ [Next]_vars => AcceptedInv'
  BY AcceptedKept
<1>3. AcceptedInv => NothingRefused
  BY DEF AcceptedInv
<1> QED
  BY <1>1, <1>2, <1>3, EngineInvariant, PTL DEF Spec
=============================================================================
