----------------------------- MODULE AdapterProofs -----------------------------
(***************************************************************************)
(* The two adapters that run the work of a node, for any number of nodes   *)
(* and attempts: ProcessAdapter, which starts processes of its own, and    *)
(* OrcaAdapter, which asks a service for workers.                          *)
(***************************************************************************)
EXTENDS ProcessAdapter, OrcaAdapter, FiniteSetTheorems, TLAPS

-----------------------------------------------------------------------------
(***************************************************************************)
(* Type correctness of ProcessAdapter, and that every running process      *)
(* occupies a slot of the adapter, for any number of attempts.             *)
(*                                                                         *)
(* The argument is that the stations of an attempt's parties fit together: *)
(* the record is there from the reservation until the collecting thread    *)
(* has stored a result, and it stores none while the process runs.         *)
(***************************************************************************)
Unstarted   == {"idle", "session", "starting"}
OnRecord == {"starting", "dispatched", "watching", "reported", "stopping", "terminating",
             "settling"}

\* how far an attempt's process, collector and coroutine may be apart
AttemptFits(a) ==
  /\ step[a] \in Unstarted => leader[a] = "none"
  /\ step[a] \in {"idle", "session", "released"} => a \notin records
  /\ step[a] \in OnRecord => a \in records
  /\ leader[a] = "running" => a \in records
  /\ collector[a] # "none" => leader[a] # "none"
  /\ collector[a] \in {"joining", "built", "stored"} => leader[a] \in Ended
  /\ step[a] = "reported" => collector[a] = "stored"
  /\ killer[a] # Free => leader[a] # "none"
  /\ killer[a].by = "timeout" => collector[a] = "terminating"
  /\ killer[a].by = "release" => step[a] = "terminating"

InSlots == IsFiniteSet(records) /\ Cardinality(records) <= MaxConcurrency

PInv == PTypeOK /\ InSlots /\ \A a \in Attempts : AttemptFits(a)

\* The invariant holds at the start.
LEMMA InitP == PInit => PInv
<1> SUFFICES ASSUME PInit PROVE PInv
  OBVIOUS
<1>1. PTypeOK
  <2>1. file \in [Attempts -> {"absent", "old", "new"}]
    BY DEF PInit
  <2>2. killer \in [Attempts -> {Free} \cup [by : Callers, at : {"flagged", "signalled"}]]
    BY DEF PInit
  <2> QED
    BY <2>1, <2>2 DEF PInit, PTypeOK
<1>2. InSlots
  BY FS_EmptySet, ProcessAssumption DEF PInit, InSlots
<1>3. \A a \in Attempts : AttemptFits(a)
  BY DEF PInit, AttemptFits, Free, Unstarted, OnRecord
<1> QED
  BY <1>1, <1>2, <1>3 DEF PInv

\* The threads around a process keep how far they are apart.
LEMMA SupervisionFits ==
  ASSUME PInv, NEW a \in Attempts, Supervision(a)
  PROVE  PTypeOK' /\ records' = records /\ \A b \in Attempts : AttemptFits(b)'
<1> USE DEF PInv, processState, adapterState
<1>1. CASE SignalGroup(a)
  <2>1. PTypeOK'
    BY <1>1 DEF SignalGroup, PTypeOK, Free, Callers
  <2>2. ASSUME NEW b \in Attempts PROVE AttemptFits(b)'
    BY <1>1, <2>2 DEF SignalGroup, PTypeOK, AttemptFits, Free, Unstarted, OnRecord, Ended
  <2> QED
    BY <1>1, <2>1, <2>2 DEF SignalGroup
<1>2. CASE LeaderGone(a)
  <2>1. PTypeOK'
    BY <1>2 DEF LeaderGone, Returns, PTypeOK, Free, Callers
  <2>2. ASSUME NEW b \in Attempts PROVE AttemptFits(b)'
    BY <1>2, <2>2 DEF LeaderGone, Returns, PTypeOK, AttemptFits, Free, Unstarted, OnRecord, Ended
  <2> QED
    BY <1>2, <2>1, <2>2 DEF LeaderGone, Returns
<1>3. CASE GraceExpires(a)
  <2>1. PTypeOK'
    BY SMTT(40), <1>3 DEF GraceExpires, Returns, PTypeOK, Free, Callers, Ended
  <2>2. ASSUME NEW b \in Attempts PROVE AttemptFits(b)'
    BY <1>3, <2>2 DEF GraceExpires, Returns, PTypeOK, AttemptFits, Free, Unstarted, OnRecord, Ended
  <2> QED
    BY <1>3, <2>1, <2>2 DEF GraceExpires, Returns
<1>4. CASE SeesExit(a)
  <2>1. PTypeOK'
    BY <1>4 DEF SeesExit, PTypeOK
  <2>2. ASSUME NEW b \in Attempts PROVE AttemptFits(b)'
    BY <1>4, <2>2 DEF SeesExit, PTypeOK, AttemptFits, Unstarted, OnRecord, Ended
  <2> QED
    BY <1>4, <2>1, <2>2 DEF SeesExit
<1>5. CASE WaitExpires(a)
  <2>1. PTypeOK'
    BY <1>5 DEF WaitExpires, PTypeOK
  <2>2. ASSUME NEW b \in Attempts PROVE AttemptFits(b)'
    BY <1>5, <2>2 DEF WaitExpires, PTypeOK, AttemptFits, Unstarted, OnRecord, Ended
  <2> QED
    BY <1>5, <2>1, <2>2 DEF WaitExpires
<1>6. CASE TimeOut(a)
  <2>1. PTypeOK'
    BY SMTT(40), <1>6 DEF TimeOut, Terminate, Flag, PTypeOK, Callers
  <2>2. ASSUME NEW b \in Attempts PROVE AttemptFits(b)'
    BY <1>6, <2>2 DEF TimeOut, Terminate, PTypeOK, AttemptFits, Free, Unstarted, OnRecord, Ended
  <2> QED
    BY <1>6, <2>1, <2>2 DEF TimeOut
<1>7. CASE BuildResult(a) \/ StoreResult(a)
  <2>1. PTypeOK'
    BY <1>7 DEF BuildResult, StoreResult, PTypeOK
  <2>2. ASSUME NEW b \in Attempts PROVE AttemptFits(b)'
    BY <1>7, <2>2 DEF BuildResult, StoreResult, PTypeOK, AttemptFits, Free, Unstarted, OnRecord, Ended
  <2> QED
    BY <1>7, <2>1, <2>2 DEF BuildResult, StoreResult
<1>8. CASE Cancel(a)
  <2>1. PTypeOK'
    BY <1>8 DEF Cancel, Terminate, Flag, PTypeOK, Callers
  <2>2. ASSUME NEW b \in Attempts PROVE AttemptFits(b)'
    BY <1>8, <2>2 DEF Cancel, Terminate, PTypeOK, AttemptFits, Free, Unstarted, OnRecord, Ended
  <2> QED
    BY <1>8, <2>1, <2>2 DEF Cancel
<1> QED
  BY <1>1, <1>2, <1>3, <1>4, <1>5, <1>6, <1>7, <1>8 DEF Supervision

\* The engine's calls keep how far the parties are apart.
LEMMA CallsFit ==
  ASSUME PInv, NEW a \in Attempts, Calls(a)
  PROVE  PTypeOK' /\ \A b \in Attempts : AttemptFits(b)'
<1> USE DEF PInv, processState, adapterState, EngineMoves
<1>1. CASE StartSession(a) \/ Reserve(a) \/ Refuse(a) \/ StartFails(a)
  <2>1. PTypeOK'
    BY <1>1 DEF StartSession, Reserve, Refuse, StartFails, PTypeOK
  <2>2. ASSUME NEW b \in Attempts PROVE AttemptFits(b)'
    BY <1>1, <2>2 DEF StartSession, Reserve, Refuse, StartFails, PTypeOK, AttemptFits, Free, Unstarted,
                      OnRecord, Ended
  <2> QED
    BY <2>1, <2>2
<1>2. CASE Start(a)
  <2>1. PTypeOK'
    BY <1>2 DEF Start, PTypeOK
  <2>2. ASSUME NEW b \in Attempts PROVE AttemptFits(b)'
    BY <1>2, <2>2 DEF Start, PTypeOK, AttemptFits, Free, Unstarted, OnRecord, Ended
  <2> QED
    BY <2>1, <2>2
<1>3. CASE Events(a) \/ Collect(a)
  <2>1. PTypeOK'
    BY <1>3 DEF Events, Collect, PTypeOK
  <2>2. ASSUME NEW b \in Attempts PROVE AttemptFits(b)'
    BY <1>3, <2>2 DEF Events, Collect, PTypeOK, AttemptFits, Free, Unstarted, OnRecord, Ended
  <2> QED
    BY <2>1, <2>2
<1>4. CASE Report(a)
  <2>1. /\ reported' \in [Attempts -> Outcomes \cup {"none"}]
        /\ verdict' \in [Attempts -> {"none", "pass", "revise"}]
    <3>1. Normalized(a) \in Outcomes
      BY DEF Normalized, Outcomes
    <3>2. VerdictsOf(a) \subseteq {"none", "pass", "revise"}
      BY DEF VerdictsOf
    <3> QED
      BY <1>4, <3>1, <3>2 DEF Report, PTypeOK
  <2>2. PTypeOK'
    BY <1>4, <2>1 DEF Report, PTypeOK
  <2>3. ASSUME NEW b \in Attempts PROVE AttemptFits(b)'
    BY <1>4, <2>3 DEF Report, PTypeOK, AttemptFits, Free, Unstarted, OnRecord, Ended
  <2> QED
    BY <2>2, <2>3
<1>5. CASE Release(a) \/ ReleaseSettles(a)
  <2>1. PTypeOK'
    BY ZenonT(60), <1>5 DEF Release, ReleaseSettles, PTypeOK
  <2>2. ASSUME NEW b \in Attempts PROVE AttemptFits(b)'
    BY <1>5, <2>2 DEF Release, ReleaseSettles, PTypeOK, AttemptFits, Free, Unstarted, OnRecord, Ended
  <2> QED
    BY <2>1, <2>2
<1>6. CASE ReleaseStops(a)
  <2>1. PTypeOK'
    BY <1>6 DEF ReleaseStops, Terminate, Flag, PTypeOK, Callers
  <2>2. ASSUME NEW b \in Attempts PROVE AttemptFits(b)'
    BY <1>6, <2>2 DEF ReleaseStops, Terminate, PTypeOK, AttemptFits, Free, Unstarted, OnRecord, Ended
  <2> QED
    BY <2>1, <2>2
<1> QED
  BY <1>1, <1>2, <1>3, <1>4, <1>5, <1>6 DEF Calls

\* What the process and the system do keeps how far the parties are apart.
LEMMA SurroundingsFit ==
  ASSUME PInv, NEW a \in Attempts, Surroundings(a)
  PROVE  PTypeOK' /\ records' = records /\ \A b \in Attempts : AttemptFits(b)'
<1> USE DEF PInv, processState, adapterState, EngineMoves
<1>1. PTypeOK'
  <2>1. CASE Exits(a)
    BY <2>1 DEF Exits, PTypeOK, Ended
  <2>2. CASE WritesVerdict(a)
    BY <2>2 DEF WritesVerdict, PTypeOK
  <2>3. CASE AskCancel(a)
    <3>1. inTime' \in [Attempts -> BOOLEAN]
      <4>1. /\ inTime \in [Attempts -> BOOLEAN]
            /\ inTime' = [inTime EXCEPT ![a] = inTime[a] \/ leader[a] = "running"]
        BY <2>3, Zenon DEF AskCancel, PTypeOK
      <4>2. (inTime[a] \/ leader[a] = "running") \in BOOLEAN
        OBVIOUS
      <4> HIDE DEF PInv
      <4> QED
        BY <4>1, <4>2, Zenon
    <3> QED
      BY <2>3, <3>1 DEF AskCancel, PTypeOK
  <2>4. CASE Abandon(a)
    BY <2>4 DEF Abandon, PTypeOK
  <2> QED
    BY <2>1, <2>2, <2>3, <2>4 DEF Surroundings
<1>2. ASSUME NEW b \in Attempts PROVE AttemptFits(b)'
  BY <1>2 DEF Surroundings, Exits, WritesVerdict, AskCancel, Abandon, PTypeOK, AttemptFits, Free,
              Unstarted, OnRecord, Ended
<1> QED
  BY <1>1, <1>2 DEF Surroundings, Exits, WritesVerdict, AskCancel, Abandon

\* a call gives away a slot only while there is one, and takes none twice
LEMMA CallsInSlots ==
  ASSUME PInv, NEW a \in Attempts, Calls(a)
  PROVE  InSlots'
<1> USE DEF PInv, InSlots
<1>0. MaxConcurrency \in Nat /\ Cardinality(records) \in Nat
  BY ProcessAssumption, FS_CardinalityType
<1>1. CASE Reserve(a)
  <2>1. records' = records \cup {a} /\ Cardinality(records) < MaxConcurrency
    BY <1>1 DEF Reserve
  <2>2. /\ IsFiniteSet(records \cup {a})
        /\ Cardinality(records \cup {a}) <= Cardinality(records) + 1
    BY <1>0, FS_AddElement
  <2> QED
    BY <1>0, <2>1, <2>2, FS_CardinalityType
<1>2. CASE records' = records \ {a}
  BY <1>0, <1>2, FS_RemoveElement
<1>3. CASE records' = records
  BY <1>3
<1> QED
  BY <1>1, <1>2, <1>3 DEF Calls, StartSession, Refuse, StartFails, Start, Events, Report, Collect,
     Release, ReleaseStops, ReleaseSettles, EngineMoves

\* Every step keeps the invariant.
LEMMA PStep == PInv /\ [PNext]_pvars => PInv'
<1> SUFFICES ASSUME PInv, [PNext]_pvars PROVE PInv'
  OBVIOUS
<1>1. CASE UNCHANGED pvars
  BY <1>1 DEF PInv, PTypeOK, InSlots, AttemptFits, pvars
<1>2. ASSUME NEW a \in Attempts, Supervision(a) PROVE PInv'
  BY <1>2, SupervisionFits DEF PInv, InSlots
<1>3. ASSUME NEW a \in Attempts, Calls(a) PROVE PInv'
  BY <1>3, CallsFit, CallsInSlots DEF PInv
<1>4. ASSUME NEW a \in Attempts, Surroundings(a) PROVE PInv'
  BY <1>4, SurroundingsFit DEF PInv, InSlots
<1> QED
  BY <1>1, <1>2, <1>3, <1>4 DEF PNext, Threads

(* The adapter never runs more processes than max_concurrency, and a process *)
(* never outlives the record that counts it: in particular release, which    *)
(* dispatch's failures and cancellations all pass through, leaves neither.   *)
THEOREM SlotsHold == PSpec => [](PTypeOK /\ NoProcessWithoutSlot)
<1>1. PInit => PInv
  BY InitP
<1>2. PInv /\ [PNext]_pvars => PInv'
  BY PStep
<1>3. PInv => PTypeOK /\ NoProcessWithoutSlot
  BY DEF PInv, InSlots, AttemptFits, NoProcessWithoutSlot
<1> QED
  BY <1>1, <1>2, <1>3, PTL DEF PSpec
-----------------------------------------------------------------------------
(***************************************************************************)
(* What is reported of an attempt.  Whoever signals the process has set a  *)
(* flag before, flags are never taken back, and the result is built from   *)
(* them when no signal can reach the running process any more.             *)
(***************************************************************************)
Told(a) ==
  /\ killer[a] # Free => Flag(killer[a].by) \in flags[a]
  /\ hit[a] => flags[a] # {}
  /\ leader[a] = "killed" => hit[a]
  /\ collector[a] \in {"built", "stored"} =>
       result[a] \subseteq flags[a] /\ (hit[a] => result[a] # {})
  /\ reported[a] # "none" \/ verdict[a] # "none" => collector[a] = "stored"

InTime(a) ==
  /\ "cancelled" \in flags[a] => inTime[a]
  /\ canceller[a] = "asked" => leader[a] # "none" /\ (leader[a] = "running" => inTime[a])
  /\ step[a] = "stopping" /\ leader[a] = "running" => inTime[a]
  /\ step[a] \in {"dispatched", "watching", "reported"} => leader[a] # "none"

OutcomeInv == PInv /\ OutcomeIsItsEnd /\ \A a \in Attempts : Told(a) /\ InTime(a)

\* The invariant of the outcomes holds at the start.
LEMMA InitOutcome == PInit => OutcomeInv
<1> SUFFICES ASSUME PInit PROVE OutcomeInv
  OBVIOUS
<1>1. PInv
  BY InitP
<1>2. OutcomeIsItsEnd
  BY DEF PInit, OutcomeIsItsEnd, StoppedIsNotResult, CancelledWasRunning, VerdictIsOwn
<1>3. \A a \in Attempts : Told(a) /\ InTime(a)
  BY DEF PInit, Told, InTime, Free
<1> QED
  BY <1>1, <1>2, <1>3 DEF OutcomeInv

\* Every step keeps what the flags tell.
LEMMA ToldStep ==
  ASSUME PInv, NEW a \in Attempts, \A b \in Attempts : Told(b), NEW b \in Attempts,
         Supervision(a) \/ Calls(a) \/ Surroundings(a)
  PROVE  Told(b)'
<1> USE DEF PInv, PTypeOK, AttemptFits, Told, processState, adapterState, EngineMoves
<1>1. CASE SignalGroup(a)
  BY <1>1 DEF SignalGroup, Free, Flag, Ended
<1>2. CASE LeaderGone(a)
  BY <1>2 DEF LeaderGone, Returns, Free, Flag, Ended
<1>3. CASE GraceExpires(a)
  BY <1>3 DEF GraceExpires, Returns, Free, Flag, Ended
<1>4. CASE SeesExit(a) \/ WaitExpires(a) \/ BuildResult(a) \/ StoreResult(a)
  BY <1>4 DEF SeesExit, WaitExpires, BuildResult, StoreResult, Free, Flag, Ended
<1>5. CASE TimeOut(a)
  BY <1>5 DEF TimeOut, Terminate, Free, Flag, Ended
<1>6. CASE Cancel(a)
  BY <1>6 DEF Cancel, Terminate, Free, Flag, Ended
<1>7. CASE ReleaseStops(a)
  BY <1>7 DEF ReleaseStops, Terminate, Free, Flag, Ended
<1>8. CASE Start(a)
  BY <1>8 DEF Start, Unstarted, Free, Flag, Ended
<1>9. CASE Report(a)
  BY <1>9 DEF Report, Free, Flag, Ended
<1>10. CASE Exits(a)
  BY <1>10 DEF Exits, Free, Flag, Ended
<1>11. CASE \/ StartSession(a) \/ Reserve(a) \/ Refuse(a) \/ StartFails(a) \/ Events(a)
            \/ Collect(a) \/ Release(a) \/ ReleaseSettles(a) \/ Abandon(a)
  BY <1>11 DEF StartSession, Reserve, Refuse, StartFails, Events, Collect, Release,
               ReleaseSettles, Abandon
<1>12. CASE WritesVerdict(a) \/ AskCancel(a)
  BY <1>12 DEF WritesVerdict, AskCancel
<1> QED
  BY <1>1, <1>2, <1>3, <1>4, <1>5, <1>6, <1>7, <1>8, <1>9, <1>10, <1>11, <1>12
     DEF Supervision, Calls, Surroundings

\* Every step keeps that a cancel flag was asked for while the process ran.
LEMMA InTimeStep ==
  ASSUME PInv, NEW a \in Attempts, \A b \in Attempts : InTime(b), NEW b \in Attempts,
         Supervision(a) \/ Calls(a) \/ Surroundings(a)
  PROVE  InTime(b)'
<1> USE DEF PInv, PTypeOK, AttemptFits, InTime, processState, adapterState, EngineMoves
<1>1. CASE SignalGroup(a) \/ SeesExit(a) \/ WaitExpires(a) \/ BuildResult(a) \/ StoreResult(a)
  BY <1>1 DEF SignalGroup, SeesExit, WaitExpires, BuildResult, StoreResult
<1>2. CASE LeaderGone(a) \/ GraceExpires(a)
  BY <1>2 DEF LeaderGone, GraceExpires, Returns
<1>3. CASE TimeOut(a) \/ Cancel(a) \/ ReleaseStops(a)
  BY <1>3 DEF TimeOut, Cancel, ReleaseStops, Terminate, Flag
<1>4. CASE Start(a)
  BY <1>4 DEF Start, Unstarted
<1>5. CASE StartSession(a) \/ Reserve(a) \/ Refuse(a) \/ StartFails(a) \/ Events(a) \/ Report(a)
  BY <1>5 DEF StartSession, Reserve, Refuse, StartFails, Events, Report
<1>6. CASE Collect(a) \/ ReleaseSettles(a) \/ Abandon(a)
  BY <1>6 DEF Collect, ReleaseSettles, Abandon
<1>7. CASE Release(a)
  <2>1. /\ step' = [step EXCEPT ![a] = step'[a]]
        /\ step'[a] \in {"released", "stopping", "settling"}
    BY <1>7 DEF Release
  <2>2. inTime'[a] <=> (inTime[a] \/ leader[a] = "running")
    BY ZenonT(60), <1>7 DEF Release
  <2>3. b # a => inTime'[b] = inTime[b]
    BY <1>7 DEF Release
  <2>4. leader' = leader /\ flags' = flags /\ canceller' = canceller
    BY <1>7 DEF Release
  <2> QED
    BY <2>1, <2>2, <2>3, <2>4
<1>8. CASE Exits(a)
  BY <1>8 DEF Exits, Ended
<1>9. CASE WritesVerdict(a)
  BY <1>9 DEF WritesVerdict
<1>10. CASE AskCancel(a)
  <2>1. /\ canceller' = [canceller EXCEPT ![a] = "asked"]
        /\ step[a] \in {"dispatched", "watching", "reported"}
        /\ leader' = leader /\ flags' = flags /\ step' = step
    BY <1>10 DEF AskCancel
  <2>2. inTime'[a] <=> (inTime[a] \/ leader[a] = "running")
    <3>1. /\ inTime \in [Attempts -> BOOLEAN]
          /\ inTime' = [inTime EXCEPT ![a] = inTime[a] \/ leader[a] = "running"]
      BY <1>10, Zenon DEF AskCancel
    <3> HIDE DEF PInv, InTime
    <3> QED
      BY <3>1, Zenon
  <2>3. b # a => inTime'[b] = inTime[b]
    BY <1>10 DEF AskCancel
  <2> QED
    BY <2>1, <2>2, <2>3
<1> QED
  BY <1>1, <1>2, <1>3, <1>4, <1>5, <1>6, <1>7, <1>8, <1>9, <1>10
     DEF Supervision, Calls, Surroundings

\* What is reported in a step is how the process ended.
LEMMA OutcomeStep ==
  ASSUME OutcomeInv, NEW a \in Attempts, Supervision(a) \/ Calls(a) \/ Surroundings(a),
         NEW b \in Attempts
  PROVE  /\ hit'[b] => reported'[b] \in {"none", "cancelled", "timed_out"} /\ verdict'[b] = "none"
         /\ reported'[b] = "cancelled" => inTime'[b]
         /\ verdict'[b] # "none" =>
              /\ leader'[b] \in {"ok", "bad"}
              /\ b \in VerdictFromExit \/ (file'[b] = "new" /\ leader'[b] = "ok")
<1> USE DEF OutcomeInv, PInv, PTypeOK, AttemptFits, Told, OutcomeIsItsEnd, StoppedIsNotResult,
            CancelledWasRunning, VerdictIsOwn, processState, adapterState, EngineMoves
<1>1. CASE Report(a)
  <2>1. CASE b # a
    BY <1>1, <2>1 DEF Report
  <2>2. CASE b = a
    <3>1. leader[a] \in Ended /\ result[a] \subseteq flags[a]
      BY <1>1 DEF Report
    <3>2. /\ leader' = leader /\ file' = file /\ hit' = hit /\ inTime' = inTime
          /\ reported'[a] = Normalized(a)
          /\ verdict'[a] \in VerdictsOf(a)
      BY <1>1 DEF Report
    <3>3. hit[a] => result[a] # {} /\ result[a] \subseteq {"cancelled", "timed_out"}
      BY <1>1 DEF Report
    <3>4. hit[a] => Normalized(a) \in {"cancelled", "timed_out"} /\ VerdictsOf(a) = {"none"}
      BY <3>3 DEF Normalized, VerdictsOf
    <3>5. Normalized(a) = "cancelled" => inTime[a]
      BY <3>1 DEF Normalized, InTime
    <3>6. verdict'[a] # "none" =>
            a \in VerdictFromExit \/ (file[a] = "new" /\ leader[a] = "ok")
      BY <3>2 DEF VerdictsOf
    <3>7. leader[a] \in {"ok", "bad"} \/ hit[a]
      BY <3>1 DEF Ended
    <3> QED
      BY <2>2, <3>2, <3>4, <3>5, <3>6, <3>7
  <2> QED
    BY <2>1, <2>2
<1>2. CASE SignalGroup(a) \/ GraceExpires(a) \/ LeaderGone(a)
  BY <1>2 DEF SignalGroup, GraceExpires, LeaderGone, Returns, Ended
<1>3. CASE SeesExit(a) \/ WaitExpires(a) \/ BuildResult(a) \/ StoreResult(a)
  BY <1>3 DEF SeesExit, WaitExpires, BuildResult, StoreResult
<1>4. CASE TimeOut(a) \/ Cancel(a) \/ ReleaseStops(a)
  BY <1>4 DEF TimeOut, Cancel, ReleaseStops
<1>5. CASE Start(a)
  BY <1>5 DEF Start, Unstarted
<1>6. CASE \/ StartSession(a) \/ Reserve(a) \/ Refuse(a) \/ StartFails(a) \/ Events(a)
           \/ Collect(a) \/ ReleaseSettles(a) \/ Abandon(a)
  BY <1>6 DEF StartSession, Reserve, Refuse, StartFails, Events, Collect, ReleaseSettles, Abandon
<1>7. CASE Release(a)
  BY <1>7 DEF Release
<1>8. CASE Exits(a)
  BY <1>8 DEF Exits, Ended
<1>9. CASE WritesVerdict(a) \/ AskCancel(a)
  BY <1>9 DEF WritesVerdict, AskCancel
<1> QED
  BY <1>1, <1>2, <1>3, <1>4, <1>5, <1>6, <1>7, <1>8, <1>9
     DEF Supervision, Calls, Surroundings

\* Every step keeps the invariant of the outcomes.
LEMMA OutcomesStep == OutcomeInv /\ [PNext]_pvars => OutcomeInv'
<1> SUFFICES ASSUME OutcomeInv, [PNext]_pvars PROVE OutcomeInv'
  OBVIOUS
<1>1. PInv'
  BY PStep DEF OutcomeInv
<1>2. CASE UNCHANGED pvars
  BY <1>1, <1>2 DEF OutcomeInv, Told, InTime, OutcomeIsItsEnd, StoppedIsNotResult,
                    CancelledWasRunning, VerdictIsOwn, pvars
<1>3. ASSUME NEW a \in Attempts, Supervision(a) \/ Calls(a) \/ Surroundings(a)
      PROVE  OutcomeInv'
  <2>1. \A b \in Attempts : Told(b)' /\ InTime(b)'
    BY <1>3, ToldStep, InTimeStep DEF OutcomeInv
  <2>2. OutcomeIsItsEnd'
    BY <1>3, OutcomeStep DEF OutcomeIsItsEnd, StoppedIsNotResult, CancelledWasRunning,
                             VerdictIsOwn
  <2> QED
    BY <1>1, <2>1, <2>2 DEF OutcomeInv
<1> QED
  BY <1>2, <1>3 DEF PNext, Threads

(* Whatever races between the timeout, the cancels, the release and the end   *)
(* of the process itself, the reported outcome is the process's own end: a   *)
(* stopped one neither succeeded nor failed and judged nothing, and one that *)
(* had ended before anybody asked was not cancelled.                         *)
THEOREM OutcomeHolds == PSpec => []OutcomeIsItsEnd
<1>1. PInit => OutcomeInv
  BY InitOutcome
<1>2. OutcomeInv /\ [PNext]_pvars => OutcomeInv'
  BY OutcomesStep
<1>3. OutcomeInv => OutcomeIsItsEnd
  BY DEF OutcomeInv
<1> QED
  BY <1>1, <1>2, <1>3, PTL DEF PSpec

-----------------------------------------------------------------------------
(***************************************************************************)
(* OrcaAdapter: that an acknowledged delivery is never lost, nothing is    *)
(* created or run twice and an outcome is the worker's own, for any number *)
(* of nodes, lost answers and deaths of the adapter's process.             *)
(*                                                                         *)
(* Only the current attempt of a node can change, and where its coroutine  *)
(* stands tells what is known of it: nothing was started before the call   *)
(* of worker-start, nothing is journaled before the check, and everything  *)
(* after the check works on a settled outcome.                             *)
(***************************************************************************)
Outside == {"idle", "looking", "creating"}
BeforeWatch  == {"dispatching", "waiting", "starting"}
Open    == BeforeWatch \cup {"watching", "reporting", "unconfirmed"}
Closing == {"remembering", "acking", "releasing"}
After   == {"watching", "reporting", "unconfirmed", "ended"} \cup Closing
Places  == Outside \cup BeforeWatch \cup After

Recorded == acknowledged \cup binding.pending \cup recovery

\* a terminal that could not be closed keeps its worker
CloseWorks == ~(Precreated /\ CloseMayFail)

NodeFits(n) ==
  /\ pos[n] \in {"looking", "creating"} => attempt[n] < MaxAttempts
  /\ pos[n] \notin Outside => attempt[n] >= 1
  /\ tasks[n] <= 1 /\ (pos[n] = "creating" => tasks[n] = 0)
  /\ pos[n] \in BeforeWatch => workers[Current(n)] = "none"
  /\ pos[n] \in Open => journal[Current(n)] = "none"
  /\ pos[n] \in Closing => journal[Current(n)] \in Settled

DispatchFits(d) ==
  /\ d[2] > attempt[d[1]] => workers[d] = "none" /\ journal[d] = "none"
  /\ d \in deliveries => workers[d] \in Settled
  /\ journal[d] \in Settled => workers[d] = journal[d]
  /\ d \in Recorded => journal[d] \in Settled
  /\ workers[d] = "running" /\ CloseWorks => d = Current(d[1]) /\ pos[d[1]] \in After

AllFit ==
  /\ \A n \in OrcaNodes : NodeFits(n)
  /\ \A d \in Dispatches : DispatchFits(d)
  /\ runs <= 1 /\ (prepared = "creating" => runs = 0)

OInv == OTypeOK /\ AllFit

\* The invariant holds at the start.
LEMMA InitO == OInit => OInv
BY OrcaAssumption
   DEF OInit, OInv, OTypeOK, AllFit, NodeFits, DispatchFits, Recorded, Dispatches, Settled,
       MaxAttempts, Outside, BeforeWatch, Open, Closing

\* A dispatch is a node with the number of an attempt.
LEMMA DispatchPairs ==
  /\ \A d \in Dispatches : d[1] \in OrcaNodes /\ d[2] \in 1..MaxAttempts /\ d = <<d[1], d[2]>>
  /\ \A n \in OrcaNodes :
       /\ Current(n)[1] = n /\ Current(n)[2] = attempt[n]
       /\ OTypeOK /\ attempt[n] >= 1 => Current(n) \in Dispatches
BY DEF Dispatches, Current, OTypeOK, MaxAttempts

\* What most steps are: the coroutine of one node moves, and the worker, the
\* record and the delivery of its current attempt may change with it.
NodeMoves(n, p, w, j) ==
  /\ pos' = [pos EXCEPT ![n] = p] /\ UNCHANGED <<attempt, runs, tasks, prepared>>
  /\ workers' = [workers EXCEPT ![Current(n)] = w]
  /\ journal' = [journal EXCEPT ![Current(n)] = j]
  /\ deliveries' \subseteq deliveries
  /\ Recorded' \subseteq Recorded \cup {Current(n)}

Allowed(n, p, w, j) ==
  /\ p \notin {"looking", "creating"}
  /\ p \in BeforeWatch => w = "none"
  /\ p \in Open => j = "none"
  /\ p \in Closing => j \in Settled
  /\ j \in Settled => w = j
  /\ w = "running" /\ CloseWorks => p \in After
  /\ Current(n) \in deliveries => w \in Settled
  /\ Current(n) \in Recorded' => j \in Settled

\* A coroutine that moves to a place where its facts are allowed keeps all facts.
LEMMA MoveFits ==
  ASSUME OInv, NEW n \in OrcaNodes, NEW p \in Places, NEW w, NEW j,
         attempt[n] >= 1, NodeMoves(n, p, w, j), Allowed(n, p, w, j)
  PROVE  AllFit'
<1> USE DEF OInv
<1> DEFINE c == Current(n)
<1>1. /\ c \in Dispatches /\ c[1] = n /\ c[2] = attempt[n]
      /\ \A m \in OrcaNodes : m # n => Current(m) # c /\ pos'[m] = pos[m]
      /\ pos'[n] = p /\ workers'[c] = w /\ journal'[c] = j
      /\ \A d \in Dispatches : d # c => workers'[d] = workers[d] /\ journal'[d] = journal[d]
      /\ attempt' = attempt
  BY DispatchPairs DEF NodeMoves, OTypeOK
<1>2. \A m \in OrcaNodes : Current(m)' = Current(m)
  BY <1>1 DEF Current
<1>3. ASSUME NEW m \in OrcaNodes PROVE NodeFits(m)'
  <2>1. CASE m = n
    BY <1>1, <1>2, <2>1 DEF NodeMoves, Allowed, AllFit, NodeFits
  <2>2. CASE m # n
    <3>1. NodeFits(m) /\ tasks' = tasks
      BY DEF AllFit, NodeMoves
    <3>2. pos[m] \notin Outside => Current(m) \in Dispatches
      BY <3>1, DispatchPairs DEF NodeFits
    <3>3. pos[m] \in BeforeWatch \cup Open \cup Closing => pos[m] \notin Outside
      BY DEF BeforeWatch, Open, Closing, Outside
    <3> QED
      BY <1>1, <1>2, <2>2, <3>1, <3>2, <3>3 DEF NodeFits
  <2> QED BY <2>1, <2>2
<1>4. ASSUME NEW d \in Dispatches PROVE DispatchFits(d)'
  <2>1. d[1] \in OrcaNodes /\ DispatchFits(d) /\ Current(d[1])' = Current(d[1])
    BY <1>2, DispatchPairs DEF AllFit
  <2>2. CASE d = c
    <3>1. ~(d[2] > attempt'[d[1]]) /\ d[1] = n /\ Current(d[1])' = d
      BY <1>1, <1>2, <2>2 DEF OTypeOK
    <3>2. (d \in deliveries' => workers'[d] \in Settled)
      BY <1>1, <2>2 DEF NodeMoves, Allowed
    <3>3. journal'[d] \in Settled => workers'[d] = journal'[d]
      BY <1>1, <2>2 DEF Allowed
    <3>4. d \in Recorded' => journal'[d] \in Settled
      BY <1>1, <2>2 DEF Allowed
    <3>5. workers'[d] = "running" /\ CloseWorks => pos'[d[1]] \in After
      BY <1>1, <2>2 DEF Allowed
    <3> QED
      BY <3>1, <3>2, <3>3, <3>4, <3>5 DEF DispatchFits, CloseWorks
  <2>3. CASE d # c
    <3>1. d \in deliveries' => d \in deliveries
      BY DEF NodeMoves
    <3>2. d \in Recorded' => d \in Recorded
      BY <2>3 DEF NodeMoves
    <3>3. workers[d] = "running" /\ CloseWorks => d = Current(d[1]) /\ d[1] # n
      BY <2>1, <2>3 DEF DispatchFits
    <3> QED
      BY <1>1, <2>1, <2>3, <3>1, <3>2, <3>3 DEF DispatchFits
  <2> QED BY <2>2, <2>3
<1>5. runs' <= 1 /\ (prepared' = "creating" => runs' = 0)
  BY DEF NodeMoves, AllFit
<1> QED
  BY <1>3, <1>4, <1>5 DEF AllFit

\* prepare_run touches no node
LEMMA PrepareStep ==
  ASSUME OInv, \/ PrepareLoad \/ PrepareLookup \/ PrepareCreate \/ Prepared
               \/ \E d \in Dispatches : RecoverAck(d)
  PROVE  OInv'
<1> USE OrcaAssumption DEF OInv, Bounds, engine, service
<1>1. /\ UNCHANGED <<pos, attempt, journal, workers, tasks>>
      /\ deliveries' \subseteq deliveries
      /\ Recorded' \subseteq Recorded
  BY DEF PrepareLoad, PrepareLookup, PrepareCreate, Prepared, RecoverAck, Acknowledged,
         Recorded, OTypeOK
<1>2. runs' <= 1 /\ (prepared' = "creating" => runs' = 0)
  BY DEF PrepareLoad, PrepareLookup, PrepareCreate, Prepared, RecoverAck, AllFit, OTypeOK
<1>3. \A n \in OrcaNodes : Current(n)' = Current(n)
  BY <1>1 DEF Current
<1>4. \A n \in OrcaNodes : NodeFits(n)'
  BY <1>1, <1>3 DEF AllFit, NodeFits
<1>5. ASSUME NEW d \in Dispatches PROVE DispatchFits(d)'
  <2>1. DispatchFits(d) /\ Current(d[1])' = Current(d[1])
    BY <1>3, DispatchPairs DEF AllFit
  <2> QED
    BY <1>1, <2>1 DEF DispatchFits
<1>6. OTypeOK'
  <2>1. CASE PrepareLoad \/ Prepared
    BY <2>1 DEF PrepareLoad, Prepared, OTypeOK
  <2>2. CASE PrepareLookup \/ PrepareCreate
    <3>1. runs' \in Nat /\ lost' \in 0..MaxLosses
      BY <2>2 DEF PrepareLookup, PrepareCreate, Answered, Unanswered, OTypeOK
    <3>2. binding' \in [run : BOOLEAN, tasks : SUBSET OrcaNodes, pending : SUBSET Dispatches]
      BY <2>2 DEF PrepareLookup, PrepareCreate, OTypeOK
    <3> QED BY <2>2, <3>1, <3>2 DEF PrepareLookup, PrepareCreate, OTypeOK
  <2>3. ASSUME NEW d \in Dispatches, RecoverAck(d) PROVE OTypeOK'
    <3>1. lost' \in 0..MaxLosses
      BY <2>3 DEF RecoverAck, Answered, Unanswered, OTypeOK
    <3>2. binding' \in [run : BOOLEAN, tasks : SUBSET OrcaNodes, pending : SUBSET Dispatches]
      BY <2>3 DEF RecoverAck, OTypeOK
    <3>3. deliveries' \subseteq Dispatches /\ acknowledged' \subseteq Dispatches
      BY <2>3 DEF RecoverAck, Acknowledged, OTypeOK
    <3> QED BY <2>3, <3>1, <3>2, <3>3 DEF RecoverAck, OTypeOK
  <2> QED BY <2>1, <2>2, <2>3
<1> QED
  BY <1>2, <1>4, <1>5, <1>6 DEF AllFit

\* start_session ends with the attempt journaled, or where it began
LEMMA SessionStep ==
  ASSUME OInv, NEW n \in OrcaNodes, OpenSession(n) \/ TaskLookup(n) \/ TaskCreate(n)
  PROVE  OInv'
<1> USE OrcaAssumption DEF OInv, Bounds, service, SessionMoves
<1>1. /\ pos[n] \in Outside /\ attempt[n] < MaxAttempts
      /\ UNCHANGED <<journal, workers, deliveries, acknowledged, recovery, runs, prepared>>
      /\ Recorded' = Recorded
  BY DEF OpenSession, TaskLookup, TaskCreate, BindTask, Recorded, Outside, AllFit, NodeFits, OTypeOK
<1>2. PICK p \in {"idle", "looking", "creating", "dispatching"} :
        /\ pos' = [pos EXCEPT ![n] = p]
        /\ IF p = "dispatching" THEN attempt' = [attempt EXCEPT ![n] = @ + 1]
           ELSE attempt' = attempt
        /\ p = "creating" => tasks[n] = 0 /\ tasks' = tasks
  BY DEF OpenSession, TaskLookup, TaskCreate, Go, Journaled
<1>3. /\ tasks' \in [OrcaNodes -> Nat] /\ tasks'[n] <= 1
      /\ \A m \in OrcaNodes : m # n => tasks'[m] = tasks[m]
  BY DEF OpenSession, TaskLookup, TaskCreate, AllFit, NodeFits, OTypeOK
<1>4. /\ attempt' \in [OrcaNodes -> 0..MaxAttempts]
      /\ pos' \in [OrcaNodes -> Places] /\ pos'[n] = p
      /\ \A m \in OrcaNodes : m # n => pos'[m] = pos[m] /\ attempt'[m] = attempt[m]
      /\ attempt'[n] = IF p = "dispatching" THEN attempt[n] + 1 ELSE attempt[n]
      /\ attempt[n] \in Nat
  BY <1>1, <1>2 DEF OTypeOK, Places, Outside, BeforeWatch, After, Closing, MaxAttempts
<1>5. ASSUME NEW m \in OrcaNodes PROVE NodeFits(m)'
  <2>1. CASE m # n
    <3>1. Current(m)' = Current(m) /\ NodeFits(m)
      BY <1>4, <2>1 DEF Current, AllFit
    <3> QED BY <1>1, <1>3, <1>4, <2>1, <3>1 DEF NodeFits
  <2>2. CASE m = n /\ p # "dispatching"
    BY <1>1, <1>2, <1>3, <1>4, <2>2 DEF NodeFits, Outside, BeforeWatch, Open, Closing
  <2>3. CASE m = n /\ p = "dispatching"
    <3>1. Current(n)' \in Dispatches /\ Current(n)'[1] = n /\ Current(n)'[2] > attempt[n]
      BY <1>1, <1>4, <2>3 DEF Current, Dispatches, MaxAttempts
    <3>2. workers'[Current(n)'] = "none" /\ journal'[Current(n)'] = "none"
      BY <1>1, <3>1 DEF AllFit, DispatchFits
    <3> QED
      BY <1>3, <1>4, <2>3, <3>2 DEF NodeFits, Outside, BeforeWatch, Open, Closing, Settled
  <2> QED BY <2>1, <2>2, <2>3
<1>6. ASSUME NEW d \in Dispatches PROVE DispatchFits(d)'
  <2>1. DispatchFits(d) /\ d[1] \in OrcaNodes /\ d[2] \in Nat
    BY DispatchPairs DEF AllFit, MaxAttempts
  <2>2. d[2] > attempt'[d[1]] => d[2] > attempt[d[1]]
    BY <1>4, <2>1 DEF OTypeOK
  <2>3. d[1] = n /\ CloseWorks => workers[d] # "running"
    BY <1>1, <2>1 DEF DispatchFits, Outside, After, Closing
  <2>4. d[1] # n => Current(d[1])' = Current(d[1]) /\ pos'[d[1]] = pos[d[1]]
    BY <1>4, <2>1 DEF Current
  <2> QED
    BY <1>1, <2>1, <2>2, <2>3, <2>4 DEF DispatchFits, CloseWorks
<1>7. OTypeOK'
  <2>1. binding' \in [run : BOOLEAN, tasks : SUBSET OrcaNodes, pending : SUBSET Dispatches]
    BY DEF OpenSession, TaskLookup, TaskCreate, BindTask, OTypeOK
  <2>2. lost' \in 0..MaxLosses
    BY DEF OpenSession, TaskLookup, TaskCreate, Answered, Unanswered, OTypeOK
  <2>3. UNCHANGED <<prepared, recovery, journal, found, retries, crashes, cancels, runs,
                    terminals, workers, deliveries, acknowledged>>
    BY DEF OpenSession, TaskLookup, TaskCreate
  <2>4. pos' \in [OrcaNodes -> {"idle", "looking", "creating", "dispatching", "waiting",
                        "starting", "watching", "unconfirmed", "reporting", "remembering",
                        "acking", "releasing", "ended"}]
    BY <1>4 DEF Places, Outside, BeforeWatch, After, Closing
  <2> QED
    BY <1>3, <1>4, <2>1, <2>2, <2>3, <2>4 DEF OTypeOK
<1> QED
  BY <1>1, <1>5, <1>6, <1>7 DEF AllFit

PosType == {"idle", "looking", "creating", "dispatching", "waiting", "starting", "watching",
            "unconfirmed", "reporting", "remembering", "acking", "releasing", "ended"}
WorkerType == {"none", "running", "stopped"} \cup Settled
JournalType == {"none", "succeeded", "failed", "outcome_unknown"}

\* A coroutine that moves keeps the types.
LEMMA MoveType ==
  ASSUME OTypeOK, NEW n \in OrcaNodes, NEW p \in Places, NEW w \in WorkerType,
         NEW j \in JournalType, NodeMoves(n, p, w, j)
  PROVE  /\ pos' \in [OrcaNodes -> PosType]
         /\ workers' \in [Dispatches -> WorkerType]
         /\ journal' \in [Dispatches -> JournalType]
         /\ UNCHANGED <<attempt, runs, tasks, prepared>>
  BY DEF OTypeOK, NodeMoves, Places, Outside, BeforeWatch, After, Closing, PosType, WorkerType,
         JournalType, Settled

\* dispatch, up to worker-start
LEMMA DispatchStep ==
  ASSUME OInv, NEW n \in OrcaNodes,
         CreateTerminal(n) \/ WaitReady(n) \/ WorkerStart(n) \/ WorkerStartUnconfirmed(n)
  PROVE  OInv'
<1> USE OrcaAssumption DEF OInv, Bounds, DispatchMoves
<1> DEFINE c == Current(n)
<1>1. pos[n] \in BeforeWatch /\ attempt[n] >= 1 /\ c \in Dispatches
      /\ workers[c] = "none" /\ journal[c] = "none" /\ c \notin deliveries
      /\ workers = [workers EXCEPT ![c] = "none"] /\ journal = [journal EXCEPT ![c] = "none"]
  <2>1. pos[n] \in BeforeWatch
    BY DEF CreateTerminal, WaitReady, WorkerStart, WorkerStartUnconfirmed, Placed, BeforeWatch
  <2>2. attempt[n] >= 1 /\ c \in Dispatches /\ workers[c] = "none" /\ journal[c] = "none"
    BY <2>1, DispatchPairs DEF AllFit, NodeFits, BeforeWatch, Open, Outside
  <2>3. c \notin deliveries
    BY <2>2 DEF AllFit, DispatchFits, Settled
  <2> QED BY <2>1, <2>2, <2>3 DEF OTypeOK
<1>2. /\ Recorded' = Recorded /\ deliveries' = deliveries
      /\ UNCHANGED <<attempt, runs, tasks, prepared>>
  BY DEF CreateTerminal, WaitReady, WorkerStart, WorkerStartUnconfirmed, Recorded
<1>3. c \notin Recorded
  BY <1>1 DEF AllFit, DispatchFits, Settled
<1>4. \E p \in Places, w \in WorkerType, j \in JournalType :
        NodeMoves(n, p, w, j) /\ Allowed(n, p, w, j)
  <2>1. CASE CreateTerminal(n)
    <3>1. PICK p \in {"waiting", "idle"} :
            pos' = [pos EXCEPT ![n] = p] /\ UNCHANGED <<workers, journal>>
      BY <2>1 DEF CreateTerminal, Go, StartupFailure
    <3>2. NodeMoves(n, p, "none", "none") /\ Allowed(n, p, "none", "none")
      BY <1>1, <1>2, <1>3, <3>1 DEF NodeMoves, Allowed, BeforeWatch, Closing, Settled
    <3> QED BY <3>2 DEF Places, Outside, BeforeWatch, WorkerType, JournalType
  <2>2. CASE WaitReady(n)
    <3>1. PICK p \in {"starting", "idle"} :
            pos' = [pos EXCEPT ![n] = p] /\ UNCHANGED journal
      BY <2>2 DEF WaitReady, Go, StartupFailure
    <3>2. workers' = workers
      BY <1>1, <2>2 DEF WaitReady, CloseTerminal
    <3>3. NodeMoves(n, p, "none", "none") /\ Allowed(n, p, "none", "none")
      BY <1>1, <1>2, <1>3, <3>1, <3>2 DEF NodeMoves, Allowed, BeforeWatch, Closing, Settled
    <3> QED BY <3>3 DEF Places, Outside, BeforeWatch, WorkerType, JournalType
  <2>3. CASE WorkerStart(n)
    <3>1. NodeMoves(n, "watching", "running", "none") /\ Allowed(n, "watching", "running", "none")
      BY <1>1, <1>2, <1>3, <2>3
         DEF WorkerStart, Go, Launched, NodeMoves, Allowed, BeforeWatch, After, Closing, Settled
    <3> QED BY <3>1 DEF Places, After, WorkerType, JournalType
  <2>4. CASE WorkerStartUnconfirmed(n)
    <3>1. PICK ws \in {workers, Launched(n)} :
            \/ Precreated /\ CloseTerminal(c, ws) /\ StartupFailure(n)
            \/ workers' = ws /\ OutcomeUnknown(n)
      BY <2>4 DEF WorkerStartUnconfirmed
    <3>2. PICK v \in {"none", "running"} : ws = [workers EXCEPT ![c] = v]
      BY <1>1, <3>1 DEF Launched
    <3>3. CASE Precreated /\ CloseTerminal(c, ws) /\ StartupFailure(n)
      <4>1. ws[c] = v
        BY <1>1, <3>2 DEF OTypeOK
      <4>2. PICK w \in {"none", "stopped", "running"} :
              workers' = [workers EXCEPT ![c] = w] /\ (w = "running" => CloseMayFail)
        BY <3>2, <3>3, <4>1 DEF CloseTerminal
      <4>3. NodeMoves(n, "idle", w, "none")
        BY <1>1, <1>2, <3>3, <4>2 DEF NodeMoves, StartupFailure, Go
      <4>4. Allowed(n, "idle", w, "none")
        BY <1>1, <1>2, <1>3, <3>3, <4>2 DEF Allowed, BeforeWatch, Open, Closing, Settled, CloseWorks
      <4> QED BY <4>3, <4>4 DEF Places, Outside, WorkerType, JournalType
    <3>4. CASE workers' = ws /\ OutcomeUnknown(n)
      <4>1. NodeMoves(n, "ended", v, "outcome_unknown") /\ Allowed(n, "ended", v, "outcome_unknown")
        BY <1>1, <1>2, <1>3, <3>2, <3>4
           DEF NodeMoves, Allowed, OutcomeUnknown, Go, BeforeWatch, Open, After, Closing, Settled
      <4> QED BY <4>1 DEF Places, After, WorkerType, JournalType
    <3> QED BY <3>1, <3>3, <3>4
  <2> QED BY <2>1, <2>2, <2>3, <2>4
<1>5. AllFit'
  BY <1>1, <1>4, MoveFits
<1>6. OTypeOK'
  <2>1. terminals' \subseteq Dispatches
    BY <1>1 DEF CreateTerminal, WaitReady, WorkerStart, WorkerStartUnconfirmed, CloseTerminal,
           OTypeOK
  <2>2. lost' \in 0..MaxLosses
    BY DEF CreateTerminal, WaitReady, WorkerStart, WorkerStartUnconfirmed, Answered,
           Unanswered, OTypeOK
  <2>3. UNCHANGED <<binding, recovery, found, retries, crashes, cancels, deliveries, acknowledged>>
    BY DEF CreateTerminal, WaitReady, WorkerStart, WorkerStartUnconfirmed
  <2> QED
    BY <1>4, <2>1, <2>2, <2>3, MoveType DEF OTypeOK, PosType, WorkerType, JournalType
<1> QED
  BY <1>5, <1>6

\* what is known of a node whose worker-start was answered
LEMMA WatchedIs ==
  ASSUME OInv, NEW n \in OrcaNodes, pos[n] \in After
  PROVE  LET c == Current(n) IN
         /\ attempt[n] >= 1 /\ c \in Dispatches
         /\ workers[c] \in WorkerType /\ journal[c] \in JournalType
         /\ workers = [workers EXCEPT ![c] = workers[c]]
         /\ journal = [journal EXCEPT ![c] = journal[c]]
         /\ c \in deliveries => workers[c] \in Settled
         /\ journal[c] \in Settled => workers[c] = journal[c]
         /\ c \in Recorded => journal[c] \in Settled
         /\ pos[n] \in {"watching", "reporting", "unconfirmed"} => journal[c] = "none"
         /\ pos[n] \in Closing => journal[c] \in Settled
<1> USE DEF OInv
<1>1. attempt[n] >= 1
  BY DEF AllFit, NodeFits, After, Closing, Outside
<1>2. Current(n) \in Dispatches
  BY <1>1, DispatchPairs
<1>3. NodeFits(n) /\ DispatchFits(Current(n))
  BY <1>2 DEF AllFit
<1>4. /\ workers[Current(n)] \in WorkerType /\ journal[Current(n)] \in JournalType
      /\ workers = [workers EXCEPT ![Current(n)] = workers[Current(n)]]
      /\ journal = [journal EXCEPT ![Current(n)] = journal[Current(n)]]
  BY <1>2 DEF OTypeOK, WorkerType, JournalType
<1> QED
  BY <1>1, <1>2, <1>3, <1>4 DEF NodeFits, DispatchFits, Open, BeforeWatch

\* events, acknowledge, release and cancel
LEMMA WatchStep ==
  ASSUME OInv, NEW n \in OrcaNodes,
         \/ CheckDelivers(n) \/ CheckFails(n) \/ AppendUnknown(n) \/ AppendFinished(n)
         \/ RememberAck(n) \/ Ack(n) \/ ReleaseWorker(n) \/ CancelWorker(n)
  PROVE  OInv'
<1> USE OrcaAssumption DEF OInv, Bounds, WatchMoves, service
<1> DEFINE c == Current(n)
           w == workers[c]
           j == journal[c]
<1>1. pos[n] \in After
  BY DEF CheckDelivers, CheckFails, AppendUnknown, AppendFinished, RememberAck, Ack,
         ReleaseWorker, CancelWorker, After, Closing
<1>2. /\ attempt[n] >= 1 /\ c \in Dispatches /\ w \in WorkerType /\ j \in JournalType
      /\ workers = [workers EXCEPT ![c] = w] /\ journal = [journal EXCEPT ![c] = j]
      /\ c \in deliveries => w \in Settled
      /\ j \in Settled => w = j
      /\ c \in Recorded => j \in Settled
      /\ pos[n] \in {"watching", "reporting", "unconfirmed"} => j = "none"
      /\ pos[n] \in Closing => j \in Settled
  BY <1>1, WatchedIs
<1>3. \E p \in Places, v \in WorkerType, k \in JournalType :
        NodeMoves(n, p, v, k) /\ Allowed(n, p, v, k)
  <2>0. After \subseteq Places /\ "none" \notin Settled /\ "running" \notin Settled
    BY DEF Places, Settled
  <2>1. CASE CheckDelivers(n) \/ CheckFails(n)
    <3>1. PICK p \in {"reporting", "unconfirmed"} : pos' = [pos EXCEPT ![n] = p]
      BY <2>1 DEF CheckDelivers, CheckFails, Go
    <3>2. UNCHANGED <<attempt, runs, tasks, prepared, workers, journal, deliveries>>
          /\ Recorded' = Recorded /\ j = "none"
      BY <1>2, <2>1 DEF CheckDelivers, CheckFails, Recorded
    <3>3. NodeMoves(n, p, w, j) /\ Allowed(n, p, w, j)
      BY <1>2, <3>1, <3>2 DEF NodeMoves, Allowed, BeforeWatch, After, Closing, Settled
    <3> QED BY <1>2, <2>0, <3>1, <3>3 DEF After
  <2>2. CASE AppendUnknown(n)
    <3>1. /\ UNCHANGED <<attempt, runs, tasks, prepared, workers, deliveries>>
          /\ Recorded' = Recorded /\ j = "none"
          /\ pos' = [pos EXCEPT ![n] = "ended"]
          /\ journal' = [journal EXCEPT ![c] = "outcome_unknown"]
      BY <1>2, <2>2 DEF AppendUnknown, OutcomeUnknown, Go, Recorded
    <3>2. NodeMoves(n, "ended", w, "outcome_unknown") /\ Allowed(n, "ended", w, "outcome_unknown")
      BY <1>2, <2>0, <3>1 DEF NodeMoves, Allowed, BeforeWatch, Open, After, Closing, Settled
    <3> QED BY <1>2, <2>0, <3>2 DEF After, JournalType
  <2>3. CASE AppendFinished(n)
    <3>1. /\ UNCHANGED <<attempt, runs, tasks, prepared, workers, deliveries>>
          /\ Recorded' = Recorded
          /\ pos' = [pos EXCEPT ![n] = "remembering"]
          /\ journal' = [journal EXCEPT ![c] = w] /\ c \in deliveries
      BY <2>3 DEF AppendFinished, Correlated, Go, Recorded
    <3>2. NodeMoves(n, "remembering", w, w) /\ Allowed(n, "remembering", w, w)
      BY <1>2, <3>1 DEF NodeMoves, Allowed, BeforeWatch, Open, After, Closing
    <3>3. w \in JournalType
      BY <1>2, <3>1 DEF JournalType, Settled
    <3> QED BY <1>2, <2>0, <3>2, <3>3 DEF After, Closing
  <2>4. CASE RememberAck(n) \/ Ack(n)
    <3>1. /\ UNCHANGED <<attempt, runs, tasks, prepared, workers, journal>>
          /\ Recorded' \subseteq Recorded \cup {c} /\ deliveries' \subseteq deliveries
          /\ pos[n] \in Closing
      BY <2>4 DEF RememberAck, Ack, Acknowledged, Recorded, Closing, OTypeOK
    <3>2. PICK p \in Closing : pos' = [pos EXCEPT ![n] = p]
      <4>1. pos = [pos EXCEPT ![n] = pos[n]]
        BY DEF OTypeOK
      <4> QED BY <2>4, <3>1, <4>1 DEF RememberAck, Ack, Go, Closing
    <3>3. NodeMoves(n, p, w, j) /\ Allowed(n, p, w, j)
      BY <1>2, <3>1, <3>2 DEF NodeMoves, Allowed, BeforeWatch, Open, After, Closing, Settled
    <3> QED BY <1>2, <2>0, <3>3 DEF After
  <2>5. CASE ReleaseWorker(n)
    <3>1. /\ UNCHANGED <<attempt, runs, tasks, prepared, journal, deliveries>>
          /\ Recorded' = Recorded /\ pos[n] = "releasing"
      BY <2>5 DEF ReleaseWorker, Recorded
    <3>2. j \in Settled /\ w = j
      BY <1>2, <3>1 DEF Closing
    <3>3. workers' = workers
      BY <1>2, <2>0, <2>5, <3>2 DEF ReleaseWorker, CloseTerminal
    <3>4. PICK p \in {"releasing", "ended"} : pos' = [pos EXCEPT ![n] = p]
      <4>1. pos = [pos EXCEPT ![n] = pos[n]]
        BY DEF OTypeOK
      <4> QED BY <2>5, <3>1, <4>1 DEF ReleaseWorker, Go
    <3>5. NodeMoves(n, p, w, j) /\ Allowed(n, p, w, j)
      BY <1>2, <3>1, <3>2, <3>3, <3>4 DEF NodeMoves, Allowed, BeforeWatch, Open, After, Closing, Settled
    <3> QED BY <1>2, <2>0, <3>4, <3>5 DEF After, Closing
  <2>6. CASE CancelWorker(n)
    <3>1. /\ UNCHANGED <<pos, attempt, runs, tasks, prepared, journal, deliveries>>
          /\ Recorded' = Recorded
          /\ pos[n] \in {"watching", "reporting", "unconfirmed"} \cup Closing
      BY <2>6 DEF CancelWorker, Recorded, Closing
    <3>2. pos' = [pos EXCEPT ![n] = pos[n]]
      BY <3>1 DEF OTypeOK
    <3>3. PICK v \in WorkerType :
            workers' = [workers EXCEPT ![c] = v] /\ (v = w \/ (v = "stopped" /\ w = "running"))
      <4>1. \/ workers' = workers
            \/ w = "running" /\ workers' = [workers EXCEPT ![c] = "stopped"]
            \/ workers' = [workers EXCEPT ![c] = IF w = "running" THEN "stopped" ELSE w]
        BY <2>6 DEF CancelWorker
      <4>2. PICK v \in {w, "stopped"} :
              workers' = [workers EXCEPT ![c] = v] /\ (v = w \/ w = "running")
        BY <1>2, <4>1
      <4>3. "stopped" \in WorkerType
        BY DEF WorkerType
      <4>4. v = w \/ (v = "stopped" /\ w = "running")
        BY <4>2
      <4> QED BY <1>2, <4>2, <4>3, <4>4
    <3>4. NodeMoves(n, pos[n], v, j)
      BY <1>2, <3>1, <3>2, <3>3 DEF NodeMoves
    <3>5. Allowed(n, pos[n], v, j)
      BY <1>1, <1>2, <2>0, <3>1, <3>3 DEF Allowed, BeforeWatch, Open, Closing
    <3> QED BY <1>1, <1>2, <2>0, <3>4, <3>5
  <2> QED BY <2>1, <2>2, <2>3, <2>4, <2>5, <2>6
<1>4. AllFit'
  BY <1>2, <1>3, MoveFits
<1>5. OTypeOK'
  <2>1. lost' \in 0..MaxLosses /\ cancels' \in 0..MaxCancels
    BY DEF CheckDelivers, CheckFails, AppendUnknown, AppendFinished, RememberAck, Ack,
           ReleaseWorker, CancelWorker, Answered, Unanswered, OTypeOK
  <2>2. found' \in [OrcaNodes -> {"none", "cancelled", "outcome_unknown"} \cup Settled]
    <3>1. CASE CheckDelivers(n)
      BY <1>2, <3>1 DEF CheckDelivers, Correlated, OTypeOK
    <3>2. CASE ~CheckDelivers(n)
      BY <3>2 DEF CheckFails, AppendUnknown, AppendFinished, RememberAck, Ack,
           ReleaseWorker, CancelWorker, OTypeOK
    <3> QED BY <3>1, <3>2
  <2>3. retries' \in [OrcaNodes -> 0..1]
    BY DEF CheckDelivers, CheckFails, AppendUnknown, AppendFinished, RememberAck, Ack,
           ReleaseWorker, CancelWorker, OTypeOK
  <2>4. binding' \in [run : BOOLEAN, tasks : SUBSET OrcaNodes, pending : SUBSET Dispatches]
    BY <1>2 DEF CheckDelivers, CheckFails, AppendUnknown, AppendFinished, RememberAck, Ack,
           ReleaseWorker, CancelWorker, OTypeOK
  <2>5. /\ terminals' \subseteq Dispatches /\ deliveries' \subseteq Dispatches
        /\ acknowledged' \subseteq Dispatches
    BY <1>2 DEF CheckDelivers, CheckFails, AppendUnknown, AppendFinished, RememberAck, Ack,
           ReleaseWorker, CancelWorker, Acknowledged, CloseTerminal, OTypeOK
  <2>6. UNCHANGED <<recovery, crashes>>
    BY DEF CheckDelivers, CheckFails, AppendUnknown, AppendFinished, RememberAck, Ack,
           ReleaseWorker, CancelWorker
  <2> QED
    BY <1>3, <2>1, <2>2, <2>3, <2>4, <2>5, <2>6, MoveType
       DEF OTypeOK, PosType, WorkerType, JournalType
<1> QED
  BY <1>4, <1>5

\* A worker that says it is done keeps the invariant.
LEMMA DoneStep ==
  ASSUME OInv, NEW d \in Dispatches, WorkerDone(d)
  PROVE  OInv'
<1> USE OrcaAssumption DEF OInv, Bounds, engine
<1>1. /\ workers[d] = "running" /\ deliveries' = deliveries \cup {d}
      /\ UNCHANGED <<binding, prepared, recovery, pos, attempt, journal, found, retries, lost,
                     crashes, cancels, runs, tasks, terminals, acknowledged>>
  BY DEF WorkerDone
<1>2. PICK o \in Settled : workers' = [workers EXCEPT ![d] = o]
  BY DEF WorkerDone
<1>3. workers'[d] = o /\ \A e \in Dispatches : e # d => workers'[e] = workers[e]
  BY <1>2 DEF OTypeOK
<1>4. Recorded' = Recorded /\ \A n \in OrcaNodes : Current(n)' = Current(n)
  BY <1>1 DEF Recorded, Current
<1>5. ASSUME NEW n \in OrcaNodes PROVE NodeFits(n)'
  <2>1. NodeFits(n)
    BY DEF AllFit
  <2>2. pos[n] \in BeforeWatch => Current(n) \in Dispatches
    BY <2>1, DispatchPairs DEF NodeFits, BeforeWatch, Outside
  <2>3. pos[n] \in BeforeWatch => workers'[Current(n)] = "none"
    BY <1>1, <1>3, <2>1, <2>2 DEF NodeFits
  <2> QED
    BY <1>1, <1>4, <2>1, <2>3 DEF NodeFits
<1>6. ASSUME NEW e \in Dispatches PROVE DispatchFits(e)'
  <2>1. DispatchFits(e) /\ Current(e[1])' = Current(e[1])
    BY <1>4, DispatchPairs DEF AllFit
  <2>2. CASE e = d
    BY <1>1, <1>3, <1>4, <2>1, <2>2 DEF DispatchFits, Settled
  <2>3. CASE e # d
    BY <1>1, <1>3, <1>4, <2>1, <2>3 DEF DispatchFits, CloseWorks
  <2> QED BY <2>2, <2>3
<1>7. OTypeOK'
  BY <1>1, <1>2 DEF OTypeOK
<1> QED
  BY <1>1, <1>5, <1>6, <1>7 DEF AllFit

\* a restart closes what was in flight as unknown, and nothing else
LEMMA CrashStep ==
  ASSUME OInv, Crash
  PROVE  OInv'
<1> USE OrcaAssumption DEF OInv, service
<1>1. /\ prepared' = "no" /\ recovery' = {}
      /\ UNCHANGED <<binding, attempt, lost, cancels, runs, tasks, terminals, workers,
                     deliveries, acknowledged>>
      /\ Recorded' \subseteq Recorded
  BY DEF Crash, Recorded
<1>2. \A n \in OrcaNodes :
        /\ Current(n)' = Current(n)
        /\ pos'[n] \in {"idle", "ended"}
        /\ pos[n] \notin Outside => pos'[n] = "ended"
        /\ pos'[n] = "ended" => attempt[n] >= 1
  <2> TAKE n \in OrcaNodes
  <2>1. NodeFits(n) /\ attempt[n] \in Nat
    BY DEF AllFit, OTypeOK, MaxAttempts
  <2> QED BY <1>1, <2>1 DEF Crash, Current, InFlight, NodeFits, Outside
<1>3. \A d \in Dispatches :
        \/ journal'[d] = journal[d]
        \/ /\ journal[d] = "none" /\ journal'[d] = "outcome_unknown"
           /\ d = Current(d[1]) /\ attempt[d[1]] > 0
  BY DEF Crash, InFlight
<1>4. ASSUME NEW n \in OrcaNodes PROVE NodeFits(n)'
  <2>1. NodeFits(n)
    BY DEF AllFit
  <2> QED
    BY <1>1, <1>2, <2>1 DEF NodeFits, Outside, BeforeWatch, Open, Closing
<1>5. ASSUME NEW d \in Dispatches PROVE DispatchFits(d)'
  <2>1. DispatchFits(d) /\ d[1] \in OrcaNodes
    BY DispatchPairs DEF AllFit
  <2>2. d[2] > attempt[d[1]] => journal'[d] = journal[d]
    BY <1>3, <2>1, DispatchPairs DEF OTypeOK
  <2>3. "outcome_unknown" \notin Settled /\ "none" \notin Settled
    BY DEF Settled
  <2>4. pos[d[1]] \in After => pos'[d[1]] \in After
    BY <1>2, <2>1 DEF After, Outside, Closing
  <2> QED
    BY <1>1, <1>2, <1>3, <2>1, <2>2, <2>3, <2>4 DEF DispatchFits, CloseWorks
<1>6. OTypeOK'
  <2>1. pos' \in [OrcaNodes -> {"idle", "ended"}]
    BY <1>2 DEF Crash
  <2>2. journal' \in [Dispatches -> {"none", "succeeded", "failed", "outcome_unknown"}]
    BY <1>3 DEF Crash, OTypeOK
  <2>3. /\ found' \in [OrcaNodes -> {"none"}] /\ retries' \in [OrcaNodes -> {0}]
        /\ crashes' \in 0..MaxCrashes
    BY DEF Crash, OTypeOK
  <2> QED
    BY <1>1, <2>1, <2>2, <2>3 DEF OTypeOK
<1> QED
  BY <1>1, <1>4, <1>5, <1>6 DEF AllFit

\* Every step keeps the invariant.
LEMMA OStep == OInv /\ [ONext]_ovars => OInv'
<1> SUFFICES ASSUME OInv, [ONext]_ovars PROVE OInv'
  OBVIOUS
<1>1. CASE UNCHANGED ovars
  BY <1>1 DEF ovars, engine, service, OInv, OTypeOK, AllFit, NodeFits, DispatchFits, Recorded,
              Current
<1>2. CASE ONext
  BY <1>2, PrepareStep, SessionStep, DispatchStep, WatchStep, DoneStep, CrashStep DEF ONext
<1> QED
  BY <1>1, <1>2

\* A set that is empty or a singleton has at most one member.
LEMMA Lone ==
  ASSUME NEW R, NEW x, R = {} \/ R = {x}
  PROVE  Cardinality(R) <= 1
<1>1. Cardinality({}) = 0 /\ Cardinality({x}) = 1
  BY FS_EmptySet, FS_Singleton
<1> QED
  BY <1>1

\* Only the current attempt's worker runs, so a node has one at most.
LEMMA OneRunning ==
  ASSUME OInv, CloseWorks PROVE OneWorkerPerNode
<1> SUFFICES ASSUME NEW n \in OrcaNodes
             PROVE  Cardinality({k \in 1..MaxAttempts : workers[<<n, k>>] = "running"}) <= 1
  BY DEF OneWorkerPerNode
<1> DEFINE R == {k \in 1..MaxAttempts : workers[<<n, k>>] = "running"}
<1>1. \A k \in R : k = attempt[n]
  <2> TAKE k \in R
  <2>1. <<n, k>> \in Dispatches /\ <<n, k>>[1] = n /\ workers[<<n, k>>] = "running"
    BY DEF Dispatches
  <2>2. <<n, k>> = Current(n)
    BY <2>1 DEF OInv, AllFit, DispatchFits
  <2> QED
    BY <2>2 DEF Current
<1>2. R = {} \/ R = {attempt[n]}
  BY <1>1
<1> HIDE DEF R
<1>3. Cardinality(R) <= 1
  BY <1>2, Lone
<1> QED
  BY <1>3 DEF R

\* An outcome in the journal is what the worker of that attempt said, for any
\* number of nodes that read one stream of deliveries (bridge.py, events).
THEOREM OutcomesAreOwn == OSpec => []OutcomeIsOwn
<1>1. OInv => OutcomeIsOwn
  BY DEF OInv, AllFit, DispatchFits, OutcomeIsOwn
<1> QED
  BY <1>1, InitO, OStep, PTL DEF OSpec

\* Nothing is lost or done twice, however answers are lost and processes die,
\* when a terminal that is told to close does close, or the service composes
\* the terminal itself (execution.py, dispatch and acknowledge).
THEOREM NothingIsLostNorTwice ==
  ASSUME CloseWorks PROVE OSpec => []NothingLostNorTwice
<1>1. OInv => NothingLostNorTwice
  BY OneRunning DEF OInv, AllFit, NodeFits, DispatchFits, Recorded, OTypeOK, CreatedOnce,
                    NothingLostNorTwice
<1> QED
  BY <1>1, InitO, OStep, PTL DEF OSpec
================================================================================
