----------------------------- MODULE PartsProofs -----------------------------
(***************************************************************************)
(* What holds of the smaller parts for every value of their constants:     *)
(* the skills a plan is bound to stay what they were (SkillStore), a       *)
(* session that is resumed is the worker's own rejected work and success   *)
(* means the scope was kept (ProviderCli), a verifier of a live-verified   *)
(* run is decided soundly (LiveVerify), premium models do work only where  *)
(* they must and where a person agreed (Routing), and the compiled graph   *)
(* of a task is valid, reviewed as it must be and never downgraded         *)
(* (Topology).  With the invariants of the other parts, proved in          *)
(* AdapterProofs, SproutProofs and ProductProofs, it follows at the end    *)
(* that each part keeps to its types.                                      *)
(***************************************************************************)
EXTENDS MCParts, SproutProofs, AdapterProofs, ProductProofs

(* Skills, for any number of registries, skills and interruptions.         *)
(*                                                                         *)
(* A snapshot directory that exists is never written again: a copy is made *)
(* beside it and moved only to where nothing is.  So what get saw when the *)
(* plan was bound is there for ever.  That a directory can hold something  *)
(* else than its name says does not matter: get refuses it.                *)

Working == {"digested", "copying", "copied", "placed", "written"}

\* an install that is under way has a digest
Named == \A r \in Registries :
           job[r].at \in Working => job[r].digest \in Builds /\ job[r].skill \in SkillIds

\* a binding names directories that hold what they are named for
Pinned == \A f \in bindings : \A s \in DOMAIN f : f[s] \in Builds /\ snapshots[f[s]] = f[s]

KInv == KTypeOK /\ Named /\ Pinned

\* The skills' invariant holds at the start.
LEMMA InitK == KInit => KInv
BY SkillsAssumption DEF KInit, KInv, KTypeOK, Named, Pinned, Working, JobAt, NoCopy, Digests

\* what every step of an install but PlaceSnapshot leaves alone
LEMMA PinnedKept ==
  ASSUME KInv, UNCHANGED <<snapshots, bindings>>
  PROVE  Pinned'
BY DEF KInv, Pinned

Jobs == [at : {"closed", "idle", "digested", "copying", "copied", "placed", "written"},
         skill : SkillIds \cup {"none"}, digest : Digests]

\* an install moves on, or its registry gives it up
LEMMA JobKept ==
  ASSUME KInv, NEW r \in Registries,
         NEW place \in {"closed", "idle", "digested", "copying", "copied", "placed", "written"},
         \/ MoveTo(r, place) /\ (place \in Working => job[r].at \in Working)
         \/ job' = [job EXCEPT ![r] = JobAt(place)] /\ place \notin Working
  PROVE  job' \in [Registries -> Jobs] /\ Named'
<1>0. /\ job \in [Registries -> Jobs] /\ job[r] \in Jobs
      /\ \A x \in Registries :
           job[x].at \in Working => job[x].digest \in Builds /\ job[x].skill \in SkillIds
  BY DEF KInv, KTypeOK, Jobs, Named
<1>1. PICK j \in Jobs :
        /\ job' = [job EXCEPT ![r] = j]
        /\ j.at \in Working => j.digest \in Builds /\ j.skill \in SkillIds
  <2>1. CASE MoveTo(r, place) /\ (place \in Working => job[r].at \in Working)
    <3>1. job' = [job EXCEPT ![r] = [job[r] EXCEPT !.at = place]]
      BY <2>1 DEF MoveTo
    <3>2. /\ [job[r] EXCEPT !.at = place] \in Jobs
          /\ [job[r] EXCEPT !.at = place].at = place
          /\ [job[r] EXCEPT !.at = place].digest = job[r].digest
          /\ [job[r] EXCEPT !.at = place].skill = job[r].skill
      BY <1>0 DEF Jobs
    <3> QED BY <1>0, <2>1, <3>1, <3>2
  <2>2. CASE job' = [job EXCEPT ![r] = JobAt(place)] /\ place \notin Working
    <3>1. JobAt(place) \in Jobs /\ JobAt(place).at = place
      BY DEF JobAt, Jobs, Digests
    <3> QED BY <2>2, <3>1
  <2> QED BY <2>1, <2>2
<1> QED
  BY <1>0, <1>1 DEF Named

Copies == [by : Registries \cup {"nobody"}, holds : Digests \cup {"part"}]

\* A copy whose content changes is still a copy.
LEMMA CopyKept ==
  ASSUME copies \in [Builds -> Copies], NEW d \in Builds, NEW h \in Digests \cup {"part"},
         copies' = [copies EXCEPT ![d].holds = h]
  PROVE  copies' \in [Builds -> Copies]
<1>1. [copies[d] EXCEPT !.holds = h] \in Copies
  BY DEF Copies
<1>2. copies' = [copies EXCEPT ![d] = [copies[d] EXCEPT !.holds = h]]
  OBVIOUS
<1> QED
  BY <1>1, <1>2

\* install, one file operation at a time, keeps the invariant.
LEMMA InstallStep ==
  ASSUME KInv, NEW r \in Registries, Installs(r)
  PROVE  KInv'
<1> USE SkillsAssumption DEF KInv
<1>0. job[r].at \in Working /\ job[r].digest \in Builds /\ job[r].skill \in SkillIds
  BY DEF Installs, KeepSnapshot, StartCopy, FinishCopy, CopyDisturbed, PlaceSnapshot,
         PlaceFails, WriteManifest, WriteLock, Stands, Named, Working
<1>1. CASE KeepSnapshot(r)
  BY <1>0, <1>1, JobKept, PinnedKept DEF KeepSnapshot, InstallMoves, KTypeOK, Jobs, Copies
<1>2. CASE StartCopy(r)
  <2>1. copies' \in [Builds -> Copies]
    BY <1>0, <1>2 DEF StartCopy, KTypeOK, Copies
  <2> QED
    BY <1>0, <1>2, <2>1, JobKept, PinnedKept DEF StartCopy, InstallMoves, KTypeOK, Jobs, Copies
<1>3. CASE FinishCopy(r)
  <2>1. copies' \in [Builds -> Copies]
    BY <1>0, <1>3, CopyKept DEF FinishCopy, KTypeOK, Copies, Digests
  <2> QED
    BY <1>0, <1>3, <2>1, JobKept, PinnedKept DEF FinishCopy, InstallMoves, KTypeOK, Jobs, Copies
<1>4. CASE CopyDisturbed(r)
  <2>1. copies' \in [Builds -> Copies]
    <3>1. CASE UNCHANGED copies
      BY <3>1 DEF KTypeOK, Copies
    <3>2. ASSUME NEW h \in {copies[job[r].digest].holds, "part"},
                 copies' = [copies EXCEPT ![job[r].digest].holds = h]
          PROVE  copies' \in [Builds -> Copies]
      BY <1>0, <3>2, CopyKept DEF KTypeOK, Copies
    <3> QED BY <1>4, <3>1, <3>2 DEF CopyDisturbed
  <2>2. MoveTo(r, "copied") \/ job' = [job EXCEPT ![r] = JobAt("idle")]
    BY <1>4 DEF CopyDisturbed, GiveUp
  <2>3. UNCHANGED <<snapshots, manifests, lock>> /\ InstallMoves
    BY <1>4 DEF CopyDisturbed
  <2>4. Named' /\ job' \in [Registries -> Jobs]
    BY <1>0, <2>2, JobKept DEF Working
  <2> QED
    BY <2>1, <2>3, <2>4, PinnedKept DEF InstallMoves, KTypeOK, Jobs, Copies
<1>5. CASE PlaceSnapshot(r)
  <2> DEFINE d == job[r].digest
  <2>1. copies' \in [Builds -> Copies]
    BY <1>0, <1>5 DEF PlaceSnapshot, KTypeOK, NoCopy, Digests, Copies
  <2>2. /\ snapshots' \in [Builds -> Digests \cup {"part"}]
        /\ snapshots[d] = "none"
        /\ \A b \in Builds : b # d => snapshots'[b] = snapshots[b]
    BY <1>0, <1>5 DEF PlaceSnapshot, KTypeOK
  <2>3. Pinned'
    BY <1>5, <2>2 DEF PlaceSnapshot, InstallMoves, Pinned
  <2> QED
    BY <1>0, <1>5, <2>1, <2>2, <2>3, JobKept DEF PlaceSnapshot, InstallMoves, KTypeOK, Jobs, Copies
<1>6. CASE PlaceFails(r)
  BY <1>0, <1>6, JobKept, PinnedKept DEF PlaceFails, GiveUp, InstallMoves, KTypeOK, Jobs, Copies, Working
<1>7. CASE WriteManifest(r)
  <2>1. known' \in [Registries -> [SkillIds -> Digests]]
    BY <1>0, <1>7 DEF WriteManifest, KTypeOK, Digests
  <2>2. manifests' \in [SkillIds -> Digests \cup {"torn"}]
    BY <1>0, <1>7 DEF WriteManifest, KTypeOK, Digests
  <2> QED
    BY <1>0, <1>7, <2>1, <2>2, JobKept, PinnedKept DEF WriteManifest, KTypeOK, Jobs, Copies
<1>8. CASE WriteLock(r)
  <2>1. lock' \in [whole : BOOLEAN, pins : [SkillIds -> Digests]]
    BY <1>8 DEF WriteLock, KTypeOK
  <2> QED
    BY <1>0, <1>8, <2>1, JobKept, PinnedKept
       DEF WriteLock, GiveUp, InstallMoves, KTypeOK, Jobs, Copies, Working
<1> QED
  BY <1>1, <1>2, <1>3, <1>4, <1>5, <1>6, <1>7, <1>8 DEF Installs

\* Binding a skill to a node keeps the invariant: what is bound was just verified.
LEMMA BindStep ==
  ASSUME KInv, NEW r \in Registries, NEW s \in SkillIds, NEW node \in Contexts,
         BindSkill(r, s, node)
  PROVE  KInv'
<1> USE SkillsAssumption DEF KInv
<1> DEFINE new == [x \in ResolvedSet(s) |-> known[r][x]]
<1>1. \A x \in ResolvedSet(s) :
        x \in SkillIds /\ known[r][x] \in Builds /\ snapshots[known[r][x]] = known[r][x]
  BY DEF BindSkill, Resolves, ServedBy, GetSkill, KTypeOK, Digests
<1>2. new \in UNION {[S -> Builds] : S \in SUBSET SkillIds}
  BY <1>1
<1>3. bindings' = bindings \cup {new} /\ snapshots' = snapshots /\ job' = job
  BY DEF BindSkill
<1>4. KTypeOK'
  BY <1>2, <1>3 DEF BindSkill, KTypeOK
<1>5. Pinned'
  BY <1>1, <1>3 DEF Pinned
<1> QED
  BY <1>3, <1>4, <1>5 DEF Named

\* Every step keeps the skills' invariant.
LEMMA KStep == KInv /\ [KNext]_kvars => KInv'
<1> SUFFICES ASSUME KInv, [KNext]_kvars PROVE KInv'
  OBVIOUS
<1> USE SkillsAssumption DEF KInv
<1>1. CASE UNCHANGED kvars
  BY <1>1 DEF kvars, KTypeOK, Named, Pinned
<1>2. ASSUME NEW r \in Registries, OpenRegistry(r) PROVE KInv'
  <2>1. known' \in [Registries -> [SkillIds -> Digests]]
    BY <1>2 DEF OpenRegistry, KTypeOK
  <2> QED
    BY <1>2, <2>1, JobKept, PinnedKept DEF OpenRegistry, KTypeOK, Working, Jobs
<1>3. ASSUME NEW r \in Registries, RegistryDies(r) PROVE KInv'
  <2>1. known' \in [Registries -> [SkillIds -> Digests]]
    BY <1>3 DEF RegistryDies, KTypeOK, Digests
  <2>2. manifests' \in [SkillIds -> Digests \cup {"torn"}]
    BY <1>3 DEF RegistryDies, KTypeOK
  <2>3. lock' \in [whole : BOOLEAN, pins : [SkillIds -> Digests]]
    BY <1>3 DEF RegistryDies, KTypeOK
  <2>4. UNCHANGED <<package, snapshots, copies, bindings, edits, installs>>
        /\ deaths' \in 0..MaxDeaths
    BY <1>3 DEF RegistryDies, KTypeOK
  <2>5. Named' /\ job' \in [Registries -> Jobs]
    BY <1>3, JobKept DEF RegistryDies, Working
  <2> QED
    BY <2>1, <2>2, <2>3, <2>4, <2>5, PinnedKept DEF KTypeOK, Jobs, Copies
<1>4. ASSUME NEW r \in Registries, NEW s \in SkillIds, DigestPackage(r, s) PROVE KInv'
  <2>1. /\ installs' \in 0..MaxInstalls
        /\ Named'
        /\ job' \in [Registries -> Jobs]
    BY <1>4 DEF DigestPackage, KTypeOK, Named, Digests, Jobs
  <2> QED
    BY <1>4, <2>1, PinnedKept DEF DigestPackage, KTypeOK, Jobs, Copies
<1>5. ASSUME NEW s \in SkillIds, NEW b \in Builds, EditPackage(s, b) PROVE KInv'
  BY <1>5, PinnedKept DEF EditPackage, KTypeOK, Named
<1> QED
  BY <1>1, <1>2, <1>3, <1>4, <1>5, InstallStep, BindStep DEF KNext

\* The skills of a bound plan stay what they were: nothing that happens to the
\* store later changes a directory a binding names (skills.py, install).
THEOREM BoundSkillsHold == KSpec => []BoundSkillsKept
<1>1. KInv => BoundSkillsKept
  BY DEF KInv, Pinned, BoundSkillsKept, PinHolds
<1> QED
  BY <1>1, InitK, KStep, PTL DEF KSpec
-----------------------------------------------------------------------------
(* Provider sessions, for any number of workers and files and any order of *)
(* restarts, upgrades and writes of others.                                *)
(*                                                                         *)
(* What is offered to a rework is what the journal noted of the original,  *)
(* and the journal notes nothing more of a lineage once it is reworked.    *)
(* The probe is taken once per process of the adapter, and a process that  *)
(* is started again finds no attempt running.                              *)

\* handles are kept per worker
Tables ==
  /\ noted = [w \in Workers |-> noted[w]]
  /\ offer = [w \in Workers |-> offer[w]]
  /\ resumed = [w \in Workers |-> resumed[w]]
  /\ at = [w \in Workers |-> at[w]]

Offered(w) ==
  /\ noted[w] # NoSession => noted[w].of = w /\ (noted[w] \in vault \/ at[w] = "over")
  /\ offer[w].handle # NoSession => w \in rework /\ offer[w].handle = noted[w] /\ noted[w].asked

Continued(w) ==
  /\ at[w] \in {"running", "ended"} => probed # Unprobed
  /\ at[w] = "running" /\ resumed[w] # NoSession =>
       /\ w \in rework /\ resumed[w] = noted[w] /\ noted[w].asked
       /\ noted[w].boundary.version = probed.version

CInv == Tables /\ \A w \in Workers : Offered(w) /\ Continued(w)

\* The providers' invariant holds at the start.
LEMMA InitC == CInit => CInv
BY DEF CInit, CInv, Tables, Offered, Continued, NoOffer, NoSession

\* most steps move one worker and leave the handles of all alone
LEMMA Quiet ==
  ASSUME CInv, NEW w \in Workers, NEW p, at' = [at EXCEPT ![w] = p],
         p # "running", p = "ended" => at[w] = "running", at[w] # "over",
         UNCHANGED <<noted, offer, resumed, probed, vault>>, rework \subseteq rework'
  PROVE  CInv'
<1> USE DEF CInv
<1>1. Tables'
  BY DEF Tables
<1>2. at'[w] = p /\ \A v \in Workers : v # w => at'[v] = at[v]
  BY DEF Tables
<1>3. ASSUME NEW v \in Workers PROVE Offered(v)' /\ Continued(v)'
  BY <1>2 DEF Offered, Continued
<1> QED
  BY <1>1, <1>3

\* the end of an attempt takes the handles it used away
LEMMA EndOf ==
  ASSUME CInv, NEW w \in Workers, NEW o, Ends(w, o), at[w] # "over",
         UNCHANGED <<rework, probed>>, vault \subseteq vault',
         \/ noted' = noted
         \/ \E s : /\ w \notin rework /\ noted' = [noted EXCEPT ![w] = s]
                   /\ s.of = w /\ s \in vault'
  PROVE  CInv'
<1> USE DEF CInv
<1>1. PICK p \in {"ready", "reported", "over"} : at' = [at EXCEPT ![w] = p]
  BY DEF Ends, Moves
<1>2. /\ offer' = [offer EXCEPT ![w] = NoOffer] /\ resumed' = [resumed EXCEPT ![w] = NoSession]
  BY DEF Ends
<1>3. Tables'
  BY <1>1, <1>2 DEF Tables
<1>4. /\ at'[w] = p /\ offer'[w] = NoOffer /\ resumed'[w] = NoSession
      /\ \A v \in Workers : v # w =>
           /\ at'[v] = at[v] /\ offer'[v] = offer[v] /\ resumed'[v] = resumed[v]
           /\ noted'[v] = noted[v]
      /\ \/ noted'[w] = noted[w]
         \/ noted'[w].of = w /\ noted'[w] \in vault'
  BY <1>1, <1>2 DEF Tables
<1>5. Offered(w)' /\ Continued(w)'
  BY <1>4 DEF Offered, Continued, NoOffer
<1>6. ASSUME NEW v \in Workers, v # w PROVE Offered(v)' /\ Continued(v)'
  BY <1>4, <1>6 DEF Offered, Continued
<1> QED
  BY <1>3, <1>5, <1>6

\* The context an attempt is given, with a session to continue or none, keeps the invariant.
LEMMA InformStep ==
  ASSUME CInv, NEW w \in Workers, Inform(w)
  PROVE  CInv'
<1> USE DEF CInv
<1>1. /\ at' = [at EXCEPT ![w] = "informed"] /\ offer' = [offer EXCEPT ![w] = Continuation(w)]
      /\ UNCHANGED <<noted, resumed, probed, vault, rework>> /\ at[w] = "ready"
  BY DEF Inform, Moves
<1>2. Tables'
  BY <1>1 DEF Tables
<1>3. /\ at'[w] = "informed" /\ offer'[w] = Continuation(w)
      /\ \A v \in Workers : v # w => at'[v] = at[v] /\ offer'[v] = offer[v]
  BY <1>1 DEF Tables
<1>4. Continuation(w).handle # NoSession =>
        w \in rework /\ Continuation(w).handle = noted[w] /\ noted[w].asked
  BY DEF Continuation, NoOffer
<1>5. ASSUME NEW v \in Workers PROVE Offered(v)' /\ Continued(v)'
  BY <1>1, <1>3, <1>4 DEF Offered, Continued
<1> QED
  BY <1>2, <1>5

\* A dispatch, fresh or resuming a session, keeps the invariant.
LEMMA DispatchCStep ==
  ASSUME CInv, NEW w \in Workers, Dispatch(w)
  PROVE  CInv'
<1> USE DEF CInv
<1> DEFINE s == IF Resumable(w, offer[w].handle) THEN offer[w].handle ELSE NoSession
<1>1. /\ at' = [at EXCEPT ![w] = "running"] /\ resumed' = [resumed EXCEPT ![w] = s]
      /\ UNCHANGED <<noted, offer, probed, vault, rework>>
      /\ at[w] = "informed" /\ probed # Unprobed
  BY DEF Dispatch, Moves
<1>2. Tables'
  BY <1>1 DEF Tables
<1>3. /\ at'[w] = "running" /\ resumed'[w] = s
      /\ \A v \in Workers : v # w => at'[v] = at[v] /\ resumed'[v] = resumed[v]
  BY <1>1 DEF Tables
<1>4. s # NoSession =>
        /\ w \in rework /\ s = noted[w] /\ noted[w].asked
        /\ noted[w].boundary.version = probed.version
  BY DEF Offered, Resumable, Boundary
<1>5. ASSUME NEW v \in Workers PROVE Offered(v)' /\ Continued(v)'
  <2> HIDE DEF s
  <2> QED BY <1>1, <1>3, <1>4 DEF Offered, Continued
<1> QED
  BY <1>2, <1>5

\* Reporting an outcome and noting its session keep the invariant.
LEMMA HandsOverStep ==
  ASSUME CInv, NEW w \in Workers, HandsOver(w)
  PROVE  CInv'
<1>1. /\ at[w] # "over" /\ UNCHANGED <<rework, probed>> /\ vault \subseteq vault'
      /\ Ends(w, CheckedOutcome(w))
  BY DEF HandsOver
<1>2. \/ noted' = noted
      \/ \E s : /\ w \notin rework /\ noted' = [noted EXCEPT ![w] = s]
                /\ s.of = w /\ s \in vault'
  BY DEF HandsOver, Persisted
<1> QED
  BY <1>1, <1>2, EndOf

\* Every step of a worker or its attempt keeps the invariant.
LEMMA WorkerStep ==
  ASSUME CInv, NEW w \in Workers,
         \/ Inform(w) \/ Probe(w) \/ DispatchFails(w) \/ Dispatch(w)
         \/ HandsOver(w) \/ ReportFails(w) \/ Judge(w)
         \/ Commit(w) \/ Exit(w) \/ CancelAttempt(w)
         \/ \E f \in Tree : Write(w, f)
  PROVE  CInv'
<1>1. CASE DispatchFails(w) \/ ReportFails(w)
  BY <1>1, EndOf DEF DispatchFails, ReportFails
<1>2. CASE Judge(w)
  <2>1. PICK p \in {"over", "ready"} : at' = [at EXCEPT ![w] = p]
    BY <1>2 DEF Judge, Moves
  <2> QED
    BY <1>2, <2>1, Quiet DEF Judge
<1>3. CASE Exit(w) \/ CancelAttempt(w)
  BY <1>3, Quiet DEF Exit, CancelAttempt, Moves, ProcessMoves
<1>4. CASE Commit(w) \/ \E f \in Tree : Write(w, f)
  <2>1. UNCHANGED <<at, noted, offer, resumed, probed, vault, rework>>
    BY <1>4 DEF Commit, Write, ProcessMoves
  <2> QED
    BY <2>1 DEF CInv, Tables, Offered, Continued
<1>5. CASE Probe(w)
  <2>1. UNCHANGED <<at, noted, offer, resumed, vault, rework>> /\ probed = Unprobed
    BY <1>5 DEF Probe
  <2>2. \A v \in Workers : at[v] \notin {"running", "ended"}
    BY <2>1 DEF CInv, Continued
  <2> QED
    BY <2>1, <2>2 DEF CInv, Tables, Offered, Continued
<1> QED
  BY <1>1, <1>2, <1>3, <1>4, <1>5, InformStep, DispatchCStep, HandsOverStep

\* Every step keeps the providers' invariant.
LEMMA CStep == CInv /\ [CNext]_cvars => CInv'
<1> SUFFICES ASSUME CInv, [CNext]_cvars PROVE CInv'
  OBVIOUS
<1>1. CASE UNCHANGED cvars
  BY <1>1 DEF cvars, CInv, Tables, Offered, Continued
<1>2. CASE CloseRun
  BY <1>2 DEF CloseRun, CInv, Tables, Offered, Continued
<1>3. CASE Upgrade
  BY <1>3 DEF Upgrade, CInv, Tables, Offered, Continued
<1>4. CASE Restart
  <2>1. \A w \in Workers :
          at'[w] \notin {"running", "ended"} /\ (at[w] = "over" => at'[w] = "over")
    BY <1>4 DEF Restart, Busy
  <2>2. Tables'
    BY <1>4 DEF Restart, CInv, Tables
  <2> QED
    BY <1>4, <2>1, <2>2 DEF Restart, CInv, Offered, Continued
<1> QED
  BY <1>1, <1>2, <1>3, <1>4, WorkerStep DEF CNext

\* A session that is resumed is the rejected work of the same lineage, in the
\* version that was probed, and still kept (structured_cli.py, dispatch;
\* provider_session_vault.py, resolve).
THEOREM ResumptionHolds == CSpec => []ResumeContinuesOwnWork
<1>1. CInv => ResumeContinuesOwnWork
  BY DEF CInv, Offered, Continued, ResumeContinuesOwnWork
<1> QED
  BY <1>1, InitC, CStep, PTL DEF CSpec
\* what did not change in what git says of a file did not change at all
LEMMA SameSignature ==
  ASSUME NEW b, NEW f \in Tree, f \notin Delta(b, Snapshot)
  PROVE  disk[f] = b.disk[f] /\ index[f] = b.index[f]
<1>1. Signature(b, f) = Signature(Snapshot, f) /\ b.index[f] = Snapshot.index[f]
  BY DEF Delta
<1>2. Snapshot.disk[f] = disk[f] /\ Snapshot.index[f] = index[f]
  BY DEF Snapshot
<1> QED
  BY <1>1, <1>2 DEF Signature

\* success is reported only by an attempt that found no violation
LEMMA ReportedByCheck ==
  ASSUME CInv, CNext, NEW w \in Workers, at[w] = "ended", at'[w] = "reported"
  PROVE  CheckedOutcome(w) = "succeeded"
<1>0. at = [v \in Workers |-> at[v]]
  BY DEF CInv, Tables
<1>1. ASSUME NEW v \in Workers, NEW o, Ends(v, o), v # w \/ o # "succeeded"
      PROVE  FALSE
  BY <1>0, <1>1 DEF Ends, Moves
<1>2. ASSUME NEW v \in Workers, HandsOver(v)
      PROVE  CheckedOutcome(w) = "succeeded"
  BY <1>1, <1>2 DEF HandsOver
<1>3. ASSUME NEW v \in Workers, DispatchFails(v) \/ ReportFails(v)
      PROVE  FALSE
  BY <1>1, <1>3 DEF DispatchFails, ReportFails
<1>4. ASSUME NEW v \in Workers, Inform(v) \/ Dispatch(v) \/ Exit(v) \/ CancelAttempt(v)
      PROVE  FALSE
  BY <1>0, <1>4 DEF Inform, Dispatch, Exit, CancelAttempt, Moves
<1>5. ASSUME NEW v \in Workers, Judge(v)
      PROVE  FALSE
  BY <1>0, <1>5 DEF Judge, Moves
<1>6. ASSUME NEW v \in Workers, Probe(v) \/ Commit(v) \/ \E f \in Tree : Write(v, f)
      PROVE  FALSE
  BY <1>6 DEF Probe, Commit, Write
<1>7. ASSUME CloseRun \/ Upgrade \/ Restart
      PROVE  FALSE
  BY <1>7 DEF CloseRun, Upgrade, Restart
<1> QED
  BY <1>2, <1>3, <1>4, <1>5, <1>6, <1>7 DEF CNext

\* An attempt reported as succeeded left everything outside its write scope as
\* its baseline had it, in the tree and in the index (structured_cli.py,
\* _normalize and _workspace_delta).
THEOREM ScopeHolds == CSpec => SuccessStaysInScope
<1>1. CInv /\ [CNext]_cvars =>
        [\A w \in Workers :
           at[w] = "ended" /\ at'[w] = "reported" =>
             \A f \in Tree \ Scope[w] :
               disk[f] = base[w].disk[f] /\ index[f] = base[w].index[f]]_cvars
  <2> SUFFICES ASSUME CInv, CNext, NEW w \in Workers, at[w] = "ended", at'[w] = "reported",
                      NEW f \in Tree \ Scope[w]
               PROVE  disk[f] = base[w].disk[f] /\ index[f] = base[w].index[f]
    OBVIOUS
  <2>1. Violations(w) = {}
    BY ReportedByCheck DEF CheckedOutcome
  <2>2. f \notin Delta(base[w], Snapshot)
    BY <2>1 DEF Violations
  <2> QED
    BY <2>2, SameSignature
<1> QED
  BY <1>1, InitC, CStep, PTL DEF CSpec, SuccessStaysInScope

\* The types of the provider CLIs: a version is installed by an event each.
CTypes ==
  /\ CTypeOK /\ cli <= events
  /\ rejected = [w \in Workers |-> rejected[w]] /\ offer = [w \in Workers |-> offer[w]]

\* The types hold at the start.
LEMMA CTypesInit == CInit => CTypes
<1> SUFFICES ASSUME CInit PROVE CTypes
  OBVIOUS
<1>1. disk \in Trees /\ index \in Trees
  BY ProviderAssumption DEF CInit, Trees
<1>2. cli \in 0..MaxEvents /\ events \in 0..MaxEvents /\ cli <= events
  BY ProviderAssumption DEF CInit
<1>3. /\ offer = [w \in Workers |-> offer[w]] /\ \A w \in Workers : offer[w].nack \in BOOLEAN
  BY DEF CInit, NoOffer
<1>4. /\ rejected = [w \in Workers |-> rejected[w]] /\ \A w \in Workers : rejected[w] = Unjudged
  BY DEF CInit
<1>5. /\ base \in [Workers -> [disk : Trees, index : Trees] \cup {NoBase}]
      /\ touched \in [Workers -> SUBSET Tree]
  BY DEF CInit
<1>6. /\ at \in [Workers -> {"ready", "informed", "running", "ended", "reported", "over"}]
      /\ try \in [Workers -> 1..2]
      /\ exit \in [Workers -> {"none", "ok", "bad", "timed_out", "cancelled"}]
      /\ outcome \in [Workers -> {"none", "scope_violation", "cancelled", "timed_out", "failed",
                              "succeeded", "startup_failure", "outcome_unknown"}]
  BY DEF CInit
<1>7. probed.state = "unknown" /\ rework = {}
  BY DEF CInit, Unprobed
<1> QED
  BY <1>1, <1>2, <1>3, <1>4, <1>5, <1>6, <1>7 DEF CTypes, CTypeOK

\* The end of an attempt keeps the types.
LEMMA EndsTyped ==
  ASSUME CTypes, NEW w \in Workers,
         NEW o \in {"scope_violation", "cancelled", "timed_out", "failed", "succeeded",
                    "startup_failure"},
         Ends(w, o), UNCHANGED <<tree, cli, probed, rework, rejected, touched>>,
         events' \in 0..MaxEvents, events <= events'
  PROVE  CTypes'
<1> USE DEF CTypes, CTypeOK
<1>1. /\ outcome' = [outcome EXCEPT ![w] = o]
      /\ base' = [base EXCEPT ![w] = NoBase]
      /\ offer' = [offer EXCEPT ![w] = NoOffer]
      /\ exit' = [exit EXCEPT ![w] = "none"]
      /\ try' = try \/ try' = [try EXCEPT ![w] = 2]
      /\ \E p \in {"ready", "reported", "over"} : at' = [at EXCEPT ![w] = p]
  BY DEF Ends, Moves
<1>2. /\ try' \in [Workers -> 1..2]
      /\ at' \in [Workers -> {"ready", "informed", "running", "ended", "reported", "over"}]
  BY <1>1
<1>3. base' \in [Workers -> [disk : Trees, index : Trees] \cup {NoBase}]
  <2> HIDE DEF Trees
  <2> QED BY <1>1
<1>4. /\ offer' = [v \in Workers |-> offer'[v]]
      /\ \A v \in Workers : offer'[v].nack \in BOOLEAN
  BY <1>1 DEF NoOffer
<1>5. /\ exit' \in [Workers -> {"none", "ok", "bad", "timed_out", "cancelled"}]
      /\ outcome' \in [Workers -> {"none", "scope_violation", "cancelled", "timed_out", "failed",
                              "succeeded", "startup_failure", "outcome_unknown"}]
  BY <1>1
<1>6. cli' <= events'
  BY ProviderAssumption
<1>7. UNCHANGED <<disk, index, cli, probed, rework, rejected, touched>>
  BY DEF tree
<1> QED
  BY <1>2, <1>3, <1>4, <1>5, <1>6, <1>7

\* Every step of a worker or its attempt keeps the types.
LEMMA WorkerTyped ==
  ASSUME CTypes, NEW w \in Workers,
         \/ Inform(w) \/ Probe(w) \/ DispatchFails(w) \/ Dispatch(w)
         \/ HandsOver(w) \/ ReportFails(w) \/ Judge(w)
         \/ Commit(w) \/ Exit(w) \/ CancelAttempt(w)
         \/ \E f \in Tree : Write(w, f)
  PROVE  CTypes'
<1>0. MaxEvents \in Nat /\ events \in 0..MaxEvents
  BY ProviderAssumption DEF CTypes, CTypeOK
<1>1. CASE DispatchFails(w)
  BY <1>0, <1>1, EndsTyped DEF DispatchFails, Happens
<1>2. CASE ReportFails(w)
  BY <1>0, <1>2, EndsTyped DEF ReportFails, Happens
<1>3. CASE HandsOver(w)
  <2>1. CheckedOutcome(w) \in {"scope_violation", "cancelled", "timed_out", "failed", "succeeded"}
    BY DEF CheckedOutcome
  <2> QED BY <1>0, <1>3, <2>1, EndsTyped DEF HandsOver
<1> USE DEF CTypes, CTypeOK
<1>4. CASE Inform(w)
  <2>1. Continuation(w).nack \in BOOLEAN
    BY DEF Continuation, NoOffer
  <2> QED BY <1>4, <2>1 DEF Inform, Moves, tree
<1>5. CASE Probe(w)
  BY <1>0, <1>5 DEF Probe, Happens, tree
<1>6. CASE Dispatch(w)
  <2>1. Snapshot \in [disk : Trees, index : Trees]
    BY DEF Snapshot
  <2>2. base' \in [Workers -> [disk : Trees, index : Trees] \cup {NoBase}]
    BY <1>6, <2>1 DEF Dispatch
  <2> QED BY <1>6, <2>2 DEF Dispatch, Moves, tree
<1>7. CASE Judge(w)
  <2>1. /\ at' \in [Workers -> {"ready", "informed", "running", "ended", "reported", "over"}]
        /\ try' \in [Workers -> 1..2] /\ rework' \subseteq Workers
    BY <1>7 DEF Judge, Moves
  <2>2. /\ rejected' = [v \in Workers |-> rejected'[v]]
        /\ \A v \in Workers : rejected'[v] = Unjudged \/ rejected'[v] \in Trees
    BY <1>7 DEF Judge
  <2>3. UNCHANGED <<disk, index, cli, probed, base, offer, exit, outcome, touched, events>>
    BY <1>7 DEF Judge, tree
  <2> QED BY <2>1, <2>2, <2>3
<1>8. CASE Commit(w)
  <2>1. touched' \in [Workers -> SUBSET Tree]
    BY <1>8 DEF Commit
  <2>2. disk' = disk /\ index' = disk /\ UNCHANGED <<at, exit, events>>
    BY <1>8 DEF Commit
  <2> QED BY <1>8, <2>1, <2>2 DEF Commit, ProcessMoves
<1>9. CASE Exit(w) \/ CancelAttempt(w)
  BY <1>0, <1>9 DEF Exit, CancelAttempt, Happens, Moves, ProcessMoves, tree
<1>10. ASSUME NEW f \in Tree, Write(w, f) PROVE CTypes'
  <2>1. disk' \in Trees
    BY <1>10 DEF Write, Trees
  <2>2. touched' \in [Workers -> SUBSET Tree]
    BY <1>10 DEF Write
  <2> QED BY <1>0, <1>10, <2>1, <2>2 DEF Write, Happens, ProcessMoves
<1> QED
  BY <1>1, <1>2, <1>3, <1>4, <1>5, <1>6, <1>7, <1>8, <1>9, <1>10

\* Every step keeps the types.
LEMMA CTypesStep == CTypes /\ [CNext]_cvars => CTypes'
<1> SUFFICES ASSUME CTypes, [CNext]_cvars PROVE CTypes'
  OBVIOUS
<1> USE DEF CTypes, CTypeOK
<1>0. MaxEvents \in Nat
  BY ProviderAssumption
<1>1. CASE UNCHANGED cvars
  BY <1>1 DEF cvars, tree
<1>2. CASE CloseRun
  BY <1>2 DEF CloseRun, tree
<1>3. CASE Upgrade
  BY <1>0, <1>3 DEF Upgrade, Happens, tree
<1>4. CASE Restart
  BY <1>0, <1>4 DEF Restart, Happens, Unprobed, tree
<1> HIDE DEF CTypes
<1> QED
  BY <1>1, <1>2, <1>3, <1>4, WorkerTyped DEF CNext

-----------------------------------------------------------------------------
(* Live verification, for any number of launches and of files, whatever    *)
(* changes meanwhile.                                                      *)
(*                                                                         *)
(* The tool's version only grows.  So a key that is the same before and    *)
(* after the command ran was the same while it ran, and the result the     *)
(* watcher keeps is one the command had on exactly the copied content in   *)
(* exactly that version.                                                   *)

\* the version the command ran in lies between the two keys
Ran(w) == \E t \in w.key..tool : <<w.source, t>> \in passed

WatchFits(w) ==
  /\ w.at \in {"run", "conclude"} => w.key <= tool
  /\ w.at = "conclude" /\ w.ok /\ w.kept => Ran(w)

Proved(p) == p.source \in Workspaces /\ <<p.source, p.key>> \in passed

Watches ==
  /\ \A i \in 1..Launches : WatchFits(watch[i])
  /\ tool <= changes
  /\ proof # NoProof => Proved(proof)

\* the task that dispatch awaits is the one of the launch that succeeded
Tracks ==
  /\ worker.at # "idle" => worker.launches # 0
  /\ \A i \in 1..Launches : watch[i].at # "off" => i <= worker.launches
  /\ worker.at = "starting" => watch[worker.launches].at = "off"
  /\ check.at # "idle" => worker.at = "succeeded"
  /\ /\ worker.at \in {"running", "succeeded"} /\ check.at \in {"idle", "awaiting"}
     /\ watch[worker.launches].at # "off"
     => tracked = worker.launches
  /\ /\ check.at \in {"deciding", "adopted", "inner", "collected"}
     => ~Watching(worker.launches)

\* nothing the worker writes changes once it succeeded
Decides ==
  /\ check.at = "deciding" => Proved(check.proof) /\ \A f \in Own : held[0][f] = {ws[f]}
  /\ check.at = "adopted" =>
       /\ <<check.proof.source, check.tool>> \in passed
       /\ \A f \in Files : check.proof.source[f] \in check.ws[f]
       /\ \A f \in Own : ws[f] = check.proof.source[f]

LInv == LTypeOK /\ Watches /\ Tracks /\ Decides

\* The invariant of live verification holds at the start.
LEMMA InitL == LInit => LInv
<1> SUFFICES ASSUME LInit PROVE LInv
  OBVIOUS
<1> USE LiveAssumption
<1>1. LTypeOK
  <2>1. \A f \in Files : {ws[f]} \in SUBSET Contents
    BY DEF LInit, Workspaces
  <2>2. held \in [Readers -> [Files -> SUBSET Contents]]
    BY <2>1 DEF LInit
  <2>3. Off \in WatchStates
    BY DEF Off, WatchStates
  <2>4. watch \in [1..Launches -> WatchStates]
    BY <2>3 DEF LInit
  <2>5. proof \in {NoProof} \cup [source : Workspaces, key : 0..MaxChanges]
    BY DEF LInit
  <2>6. worker \in [at : {"idle", "starting", "running", "succeeded"}, launches : 0..Launches]
    BY DEF LInit
  <2> QED
    BY <2>2, <2>4, <2>5, <2>6 DEF LInit, LTypeOK
<1>2. Watches
  BY DEF LInit, Watches, WatchFits, Off
<1>3. Tracks
  BY DEF LInit, Tracks, Off
<1>4. Decides
  BY DEF LInit, Decides
<1> QED
  BY <1>1, <1>2, <1>3, <1>4 DEF LInv

\* where a task is tells what it remembers
LEMMA Memory ==
  ASSUME NEW w \in WatchStates
  PROVE  /\ w.at \in {"head", "poll", "copy"} => w \in Remembered({"head", "poll", "copy"})
         /\ w.at \in {"compare", "key"} => w \in Copied({"compare", "key"})
         /\ w.at = "run" => w \in Keyed
         /\ w.at = "conclude" => w \in Concluding
         /\ w.at \in {"off", "head", "poll", "copy", "compare", "key", "run", "conclude",
                      "over", "crashed"}
BY DEF WatchStates, Remembered, Copied, Keyed, Concluding

\* the head of the loop, with another digest observed
LEMMA RoundAgain ==
  ASSUME NEW w \in Remembered({"head", "poll", "copy"})
                     \cup Copied({"compare", "key"}) \cup Concluding,
         NEW c \in Workspaces, NEW b \in BOOLEAN
  PROVE  /\ [Round(w) EXCEPT !.observed = c] \in WatchStates
         /\ [Round(w) EXCEPT !.observed = c].at = "head"
         /\ [Round(w) EXCEPT !.observed = c, !.changed = b] \in WatchStates
         /\ [Round(w) EXCEPT !.observed = c, !.changed = b].at = "head"
<1>1. /\ w.initial \in Workspaces /\ w.observed \in Workspaces /\ w.changed \in BOOLEAN
  BY DEF Remembered, Copied, Concluding
<1>2. Round(w) \in Remembered({"head"}) /\ Round(w).at = "head"
  BY <1>1 DEF Round, Remembered
<1> HIDE DEF Round
<1>3. ASSUME NEW r \in Remembered({"head"})
      PROVE  /\ [r EXCEPT !.observed = c] \in Remembered({"head"})
             /\ [r EXCEPT !.changed = b] \in Remembered({"head"})
  BY <1>3 DEF Remembered
<1>4. /\ [Round(w) EXCEPT !.observed = c] \in Remembered({"head"})
      /\ [Round(w) EXCEPT !.observed = c, !.changed = b] \in Remembered({"head"})
  BY <1>2, <1>3
<1>5. \A r \in Remembered({"head"}) : r \in WatchStates /\ r.at = "head"
  BY DEF Remembered, WatchStates
<1> QED
  BY <1>4, <1>5

\* what a step of a watcher leaves in its place
Next1(i, w) ==
  /\ w \in WatchStates /\ w.at # "off"
  /\ watch' = [watch EXCEPT ![i] = w]
  /\ WatchFits(w)'

\* A watcher's step moves it to a place where its facts hold.
LEMMA WatcherPlace ==
  ASSUME LTypeOK, Watches, NEW i \in 1..Launches, Watcher(i)
  PROVE  WatcherMoves /\ Watching(i) /\ \E w : Next1(i, w)
<1> USE LiveAssumption DEF LTypeOK, Watches, Next1
<1> DEFINE v == watch[i]
<1>0. v \in WatchStates /\ Readings(i) \subseteq Workspaces /\ WatchFits(v)
  BY DEF Readings
<1>1. CASE LoopHead(i)
  <2>1. v.at = "head" /\ v \in Remembered({"head", "poll", "copy"})
    BY <1>0, <1>1, Memory DEF LoopHead
  <2>2. CASE watch' = [watch EXCEPT ![i] = [at |-> "over"]]
    <3>1. Next1(i, [at |-> "over"])
      BY <2>2 DEF WatchStates, WatchFits
    <3> QED BY <1>1, <2>1, <3>1 DEF LoopHead, Watching
  <2>3. CASE watch' = [watch EXCEPT ![i].at = "poll"]
    <3>1. [v EXCEPT !.at = "poll"] \in WatchStates
      BY <2>1 DEF WatchStates, Remembered
    <3>2. Next1(i, [v EXCEPT !.at = "poll"])
      BY <2>1, <2>3, <3>1 DEF Remembered, WatchFits
    <3> QED BY <1>1, <2>1, <3>2 DEF LoopHead, Watching
  <2> QED BY <1>1, <2>2, <2>3 DEF LoopHead, Goes, GoesTo
<1>2. CASE Poll(i)
  <2>1. v.at = "poll" /\ v \in Remembered({"head", "poll", "copy"})
    BY <1>0, <1>2, Memory DEF Poll
  <2>2. PICK c \in Workspaces :
          \/ Goes(i, [Round(v) EXCEPT !.observed = c, !.changed = TRUE])
          \/ GoesTo(i, "head") \/ GoesTo(i, "copy")
    BY <1>0, <1>2 DEF Poll
  <2>3. /\ [v EXCEPT !.at = "head"] \in WatchStates
        /\ [v EXCEPT !.at = "copy"] \in WatchStates
        /\ [v EXCEPT !.at = "head"].at = "head"
        /\ [v EXCEPT !.at = "copy"].at = "copy"
    BY <2>1 DEF WatchStates, Remembered
  <2>4. /\ [Round(v) EXCEPT !.observed = c, !.changed = TRUE] \in WatchStates
        /\ [Round(v) EXCEPT !.observed = c, !.changed = TRUE].at = "head"
    BY ZenonT(60), <2>1, RoundAgain
  <2>5. PICK w \in WatchStates :
          w.at \in {"head", "copy"} /\ watch' = [watch EXCEPT ![i] = w]
    BY <2>2, <2>3, <2>4 DEF Goes, GoesTo
  <2>6. \E r : Next1(i, r)
    BY <2>5 DEF WatchFits
  <2> QED BY <1>2, <2>1, <2>6 DEF Poll, Watching
<1>3. CASE PollFails(i) \/ GivesUp(i)
  <2>1. Watching(i) /\ WatcherMoves
    BY <1>3 DEF PollFails, GivesUp, Watching
  <2>2. \A w \in {[at |-> "over"], [at |-> "crashed"]} : w \in WatchStates
    BY DEF WatchStates
  <2>3. \E w : Next1(i, w)
    BY <1>3, <2>2 DEF PollFails, GivesUp, Goes, WatchFits
  <2> QED BY <2>1, <2>3
<1>4. CASE Copy(i)
  <2>1. v.at = "copy" /\ v \in Remembered({"head", "poll", "copy"})
    BY <1>0, <1>4, Memory DEF Copy
  <2>2. PICK c \in Workspaces :
          watch' = [watch EXCEPT ![i] =
                      [at |-> "compare", initial |-> v.initial, observed |-> v.observed,
                       changed |-> TRUE, source |-> c]]
    BY <1>0, <1>4 DEF Copy, Goes
  <2>3. [at |-> "compare", initial |-> v.initial, observed |-> v.observed,
         changed |-> TRUE, source |-> c] \in WatchStates
    BY <2>1 DEF WatchStates, Remembered, Copied
  <2>4. PICK w \in WatchStates : w.at = "compare" /\ watch' = [watch EXCEPT ![i] = w]
    BY <2>2, <2>3
  <2>5. Next1(i, w)
    BY <2>4 DEF WatchFits
  <2> QED BY <1>4, <2>1, <2>5 DEF Copy, Watching
<1>5. CASE Compare(i)
  <2>1. v.at = "compare" /\ v \in Copied({"compare", "key"})
    BY <1>0, <1>5, Memory DEF Compare
  <2>2. PICK c \in Workspaces :
          GoesTo(i, "key") \/ Goes(i, [Round(v) EXCEPT !.observed = c])
    BY <1>0, <1>5 DEF Compare
  <2>3. /\ [v EXCEPT !.at = "key"] \in WatchStates
        /\ [v EXCEPT !.at = "key"].at = "key"
    BY <2>1 DEF WatchStates, Copied
  <2>4. /\ [Round(v) EXCEPT !.observed = c] \in WatchStates
        /\ [Round(v) EXCEPT !.observed = c].at = "head"
    BY <2>1, RoundAgain
  <2>5. PICK w \in WatchStates :
          w.at \in {"head", "key"} /\ watch' = [watch EXCEPT ![i] = w]
    BY <2>2, <2>3, <2>4 DEF Goes, GoesTo
  <2>6. \E r : Next1(i, r)
    BY <2>5 DEF WatchFits
  <2> QED BY <1>5, <2>1, <2>6 DEF Compare, Watching
<1>6. CASE TakeKey(i)
  <2>1. v.at = "key" /\ v \in Copied({"compare", "key"})
    BY <1>0, <1>6, Memory DEF TakeKey
  <2> DEFINE run == [at |-> "run", initial |-> v.initial, observed |-> v.observed,
                     changed |-> TRUE, source |-> v.source, key |-> tool]
  <2>2. run \in Keyed
    BY <2>1 DEF Copied, Keyed
  <2>3. watch' = [watch EXCEPT ![i] = run] /\ tool' = tool
    BY <1>6 DEF TakeKey, Goes, WatcherMoves
  <2>4. run.at = "run" /\ run.key = tool /\ run \in WatchStates
    BY <2>2 DEF WatchStates
  <2>5. ASSUME NEW w \in WatchStates, w = run
        PROVE  Next1(i, w)
    <3> HIDE DEF run
    <3> QED BY <2>3, <2>4, <2>5 DEF WatchFits
  <2>6. \E w : Next1(i, w)
    BY <2>4, <2>5
  <2> QED BY <1>6, <2>1, <2>6 DEF TakeKey, Watching
<1>7. CASE Run(i)
  <2>1. v.at = "run" /\ v \in Keyed
    BY <1>0, <1>7, Memory DEF Run
  <2> DEFINE w(ok, kept) ==
        [at |-> "conclude", initial |-> v.initial, observed |-> v.observed,
         changed |-> TRUE, source |-> v.source, key |-> v.key, ok |-> ok, kept |-> kept]
  <2>2. PICK ok \in BOOLEAN, kept \in BOOLEAN :
          /\ watch' = [watch EXCEPT ![i] = w(ok, kept)]
          /\ passed' = IF ok /\ kept THEN passed \cup {<<v.source, tool>>} ELSE passed
    BY <1>7 DEF Run, Goes
  <2>3. w(ok, kept) \in Concluding
    BY <2>1 DEF Keyed, Concluding
  <2>4. v.key <= tool /\ v.key \in Nat /\ tool \in Nat /\ tool' = tool
    BY <1>0, <1>7, <2>1 DEF WatchFits, Keyed, Run, WatcherMoves
  <2>5. ok /\ kept => \E t \in v.key..tool' : <<v.source, t>> \in passed'
    BY <2>2, <2>4
  <2>6. /\ w(ok, kept).at = "conclude" /\ w(ok, kept).ok = ok /\ w(ok, kept).kept = kept
        /\ w(ok, kept).key = v.key /\ w(ok, kept).source = v.source
        /\ w(ok, kept) \in WatchStates
    BY <2>3 DEF WatchStates
  <2>7. ASSUME NEW r \in WatchStates, r = w(ok, kept)
        PROVE  Next1(i, r)
    <3> HIDE DEF w
    <3>1. watch' = [watch EXCEPT ![i] = r]
      BY <2>2, <2>7
    <3>2. WatchFits(r)'
      BY <2>4, <2>5, <2>6, <2>7 DEF WatchFits, Ran
    <3> QED BY <2>6, <2>7, <3>1, <3>2
  <2>8. \E r : Next1(i, r)
    BY <2>6, <2>7
  <2> QED BY <1>7, <2>1, <2>8 DEF Run, Watching
<1>8. CASE Conclude(i)
  <2>1. v.at = "conclude" /\ v \in Concluding
    BY <1>0, <1>8, Memory DEF Conclude
  <2>2. PICK c \in Workspaces : Goes(i, [Round(v) EXCEPT !.observed = c, !.changed = FALSE])
    BY <1>0, <1>8 DEF Conclude
  <2>3. /\ [Round(v) EXCEPT !.observed = c, !.changed = FALSE] \in WatchStates
        /\ [Round(v) EXCEPT !.observed = c, !.changed = FALSE].at = "head"
    BY <2>1, RoundAgain
  <2>4. \E w : Next1(i, w)
    <3>1. PICK w \in WatchStates : w.at = "head" /\ watch' = [watch EXCEPT ![i] = w]
      BY <2>2, <2>3 DEF Goes
    <3> QED BY <3>1 DEF WatchFits
  <2> QED BY <1>8, <2>1, <2>4 DEF Conclude, Watching
<1> QED
  BY <1>1, <1>2, <1>3, <1>4, <1>5, <1>6, <1>7, <1>8 DEF Watcher

\* what a step of a watcher leaves elsewhere
LEMMA WatcherFinds ==
  ASSUME LTypeOK, Watches, NEW i \in 1..Launches, Watcher(i)
  PROVE  /\ passed \subseteq passed' /\ passed' \subseteq Workspaces \X (0..MaxChanges)
         /\ proof' # NoProof => Proved(proof)'
         /\ proof' \in {NoProof} \cup [source : Workspaces, key : 0..MaxChanges]
         /\ held' \in [Readers -> [Files -> SUBSET Contents]]
         /\ held'[0] = held[0]
<1> USE LiveAssumption DEF LTypeOK
<1> DEFINE v == watch[i]
<1>0. /\ Readings(i) \subseteq Workspaces
      /\ [f \in Files |-> {ws[f]}] \in [Files -> SUBSET Contents]
      /\ i \in Readers /\ 0 \in Readers /\ i # 0
      /\ v \in WatchStates
  BY DEF Readings, Workspaces, Readers
<1>1. /\ held' \in [Readers -> [Files -> SUBSET Contents]]
      /\ held'[0] = held[0]
  <2>1. Fresh(i) \/ held' = held
    BY DEF Watcher, LoopHead, Poll, PollFails, GivesUp, Copy, Compare, TakeKey, Run, Conclude
  <2> QED BY <1>0, <2>1 DEF Fresh
<1>2. /\ passed \subseteq passed' /\ passed' \subseteq Workspaces \X (0..MaxChanges)
  <2>1. CASE Run(i)
    <3>1. v.source \in Workspaces
      BY <1>0, <2>1, Memory DEF Run, Keyed
    <3> QED BY <2>1, <3>1 DEF Run
  <2> QED
    BY <2>1 DEF Watcher, LoopHead, Poll, PollFails, GivesUp, Copy, Compare, TakeKey, Conclude
<1>3. /\ proof' # NoProof => Proved(proof)'
      /\ proof' \in {NoProof} \cup [source : Workspaces, key : 0..MaxChanges]
  <2>1. CASE proof' = proof
    BY <1>2, <2>1 DEF Watches, Proved
  <2>2. CASE Conclude(i) /\ proof' # proof
    <3>1. v \in Concluding /\ v.at = "conclude"
      BY <1>0, <2>2, Memory DEF Conclude
    <3>2. /\ v.key = tool /\ v.kept /\ v.ok
          /\ proof' = [source |-> v.source, key |-> v.key]
      BY <2>2 DEF Conclude, Sound
    <3>3. \E t \in v.key..tool : <<v.source, t>> \in passed
      BY <3>1, <3>2 DEF Watches, WatchFits, Ran
    <3>5. <<v.source, v.key>> \in passed
      BY <3>2, <3>3
    <3>4. v.source \in Workspaces /\ v.key \in 0..MaxChanges
      BY <3>1 DEF Concluding
    <3> QED BY <1>2, <3>2, <3>4, <3>5 DEF Proved
  <2> QED
    BY <2>1, <2>2 DEF Watcher, LoopHead, Poll, PollFails, GivesUp, Copy, Compare, TakeKey, Run
<1> QED
  BY <1>1, <1>2, <1>3

\* A watcher's step keeps the invariant.
LEMMA WatcherStep ==
  ASSUME LInv, NEW i \in 1..Launches, Watcher(i)
  PROVE  LInv'
<1> USE LiveAssumption DEF LInv
<1>1. PICK w : Next1(i, w)
  BY WatcherPlace
<1>2. WatcherMoves /\ Watching(i)
  BY WatcherPlace
<1>3. /\ passed \subseteq passed' /\ passed' \subseteq Workspaces \X (0..MaxChanges)
      /\ proof' # NoProof => Proved(proof)'
      /\ proof' \in {NoProof} \cup [source : Workspaces, key : 0..MaxChanges]
      /\ held' \in [Readers -> [Files -> SUBSET Contents]]
      /\ held'[0] = held[0]
  BY WatcherFinds
<1>4. watch' \in [1..Launches -> WatchStates]
  BY <1>1 DEF Next1, LTypeOK
<1>5. LTypeOK'
  BY <1>2, <1>3, <1>4 DEF LTypeOK, WatcherMoves
<1>6. Watches'
  <2>1. \A j \in 1..Launches : WatchFits(watch[j])'
    <3> TAKE j \in 1..Launches
    <3>1. CASE j = i
      BY <1>1, <3>1 DEF Next1, WatchFits, LTypeOK, Ran
    <3>2. CASE j # i
      <4>1. watch'[j] = watch[j] /\ tool' = tool
        BY <1>1, <1>2, <3>2 DEF Next1, LTypeOK, WatcherMoves
      <4>2. WatchFits(watch[j])
        BY DEF Watches
      <4> QED BY <1>3, <4>1, <4>2 DEF WatchFits, Ran
    <3> QED BY <3>1, <3>2
  <2> QED
    BY <1>2, <1>3, <2>1 DEF Watches, WatcherMoves
<1>7. Tracks'
  <2>1. /\ \A j \in 1..Launches : watch'[j].at # "off" <=> watch[j].at # "off"
        /\ \A j \in 1..Launches : ~Watching(j) => ~Watching(j)'
    BY <1>1, <1>2 DEF Next1, LTypeOK, Watching
  <2>2. worker.at # "idle" => worker.launches \in 1..Launches
    BY DEF LTypeOK, Tracks
  <2>3. UNCHANGED <<worker, tracked, check>>
    BY <1>2 DEF WatcherMoves
  <2>4. /\ worker'.at # "idle" => worker'.launches # 0
        /\ \A j \in 1..Launches : watch'[j].at # "off" => j <= worker'.launches
        /\ worker'.at = "starting" => watch'[worker'.launches].at = "off"
        /\ check'.at # "idle" => worker'.at = "succeeded"
    BY <2>1, <2>2, <2>3 DEF Tracks
  <2>5. /\ worker'.at \in {"running", "succeeded"} /\ check'.at \in {"idle", "awaiting"}
        /\ watch'[worker'.launches].at # "off"
        => tracked' = worker'.launches
    BY <2>1, <2>2, <2>3 DEF Tracks
  <2>6. check'.at \in {"deciding", "adopted", "inner", "collected"}
        => ~Watching(worker.launches)'
    BY <2>1, <2>2, <2>3 DEF Tracks
  <2> QED
    BY <2>3, <2>4, <2>5, <2>6 DEF Tracks, Watching
<1>8. Decides'
  BY <1>2, <1>3 DEF Decides, WatcherMoves, Proved
<1> QED
  BY <1>5, <1>6, <1>7, <1>8

\* what changes around the run
LEMMA SurroundingStep ==
  ASSUME LInv, UpgradeTool \/ \E f \in Files : Edit(f)
  PROVE  LInv'
<1> USE LiveAssumption DEF LInv
<1>1. CASE UpgradeTool
  <2>1. tool' \in 0..MaxChanges /\ changes' \in 0..MaxChanges /\ tool' <= changes'
        /\ tool <= tool' /\ tool \in Nat /\ tool' \in Nat
    BY <1>1 DEF UpgradeTool, LTypeOK, Watches
  <2>2. LTypeOK'
    BY <1>1, <2>1 DEF UpgradeTool, LTypeOK
  <2>3. \A i \in 1..Launches : WatchFits(watch[i])'
    <3> TAKE i \in 1..Launches
    <3>1. WatchFits(watch[i]) /\ watch[i] \in WatchStates
      BY DEF Watches, LTypeOK
    <3>2. watch[i].at \in {"run", "conclude"} => watch[i].key \in Nat
      BY <3>1, Memory DEF Keyed, Concluding
    <3>3. watch' = watch /\ passed' = passed
      BY <1>1 DEF UpgradeTool
    <3> QED BY <2>1, <3>1, <3>2, <3>3 DEF WatchFits, Ran
  <2>4. Watches'
    BY <1>1, <2>1, <2>3 DEF UpgradeTool, Watches, Proved
  <2>5. Tracks' /\ Decides'
    BY <1>1 DEF UpgradeTool, Tracks, Decides, Watching, Proved
  <2> QED BY <2>2, <2>4, <2>5
<1>2. ASSUME NEW f \in Files, Edit(f)
      PROVE  LInv'
  <2>1. PICK c \in Contents :
          /\ ws' = [ws EXCEPT ![f] = c]
          /\ held' = [r \in Readers |-> [held[r] EXCEPT ![f] = @ \cup {c}]]
    BY <1>2 DEF Edit
  <2>2. ws' \in Workspaces
    BY <2>1 DEF LTypeOK, Workspaces
  <2>3. held' \in [Readers -> [Files -> SUBSET Contents]]
    BY <2>1 DEF LTypeOK
  <2>4. UNCHANGED <<tool, worker, watch, tracked, stop, proof, check, passed>>
        /\ changes' \in 0..MaxChanges /\ changes' >= changes /\ changes \in Nat
    BY <1>2 DEF Edit, LTypeOK
  <2>5. LTypeOK'
    BY <2>2, <2>3, <2>4 DEF LTypeOK
  <2>6. Watches'
    BY <2>4 DEF Watches, WatchFits, Ran, Proved, LTypeOK
  <2>7. Tracks'
    BY <2>4 DEF Tracks, Watching
  <2>8. check.at \in {"deciding", "adopted"} =>
          \A g \in Own : ws'[g] = ws[g] /\ held'[0][g] = held[0][g]
    <3> SUFFICES ASSUME check.at \in {"deciding", "adopted"}, NEW g \in Own
                 PROVE  ws'[g] = ws[g] /\ held'[0][g] = held[0][g]
      OBVIOUS
    <3>1. f \notin Own
      BY <1>2 DEF Edit, Tracks
    <3>2. g # f /\ g \in Files /\ 0 \in Readers
      BY <3>1 DEF Readers
    <3> QED BY <2>1, <3>2 DEF LTypeOK, Workspaces
  <2>9. Decides'
    BY <2>4, <2>8 DEF Decides, Proved
  <2> QED BY <2>5, <2>6, <2>7, <2>9
<1> QED
  BY <1>1, <1>2

\* Launching the worker, watched or not, keeps the invariant.
LEMMA LaunchStep ==
  ASSUME LInv, LaunchBegins \/ LaunchWatched \/ LaunchUnwatched
  PROVE  LInv'
<1> USE LiveAssumption DEF LInv
<1> DEFINE Same == UNCHANGED <<ws, tool, stop, proof, check, passed, changes>>
<1>0. Same /\ check.at = "idle"
  BY DEF LaunchBegins, LaunchWatched, LaunchUnwatched, Tracks
<1>1. ASSUME NEW i \in Readers, Fresh(i)
      PROVE  held' \in [Readers -> [Files -> SUBSET Contents]]
  <2>1. [f \in Files |-> {ws[f]}] \in [Files -> SUBSET Contents]
    BY DEF LTypeOK, Workspaces
  <2> QED BY <1>1, <2>1 DEF Fresh, LTypeOK
<1>2. Decides'
  BY <1>0 DEF Decides
<1>3. CASE LaunchBegins
  <2>1. worker.launches + 1 \in 1..Launches /\ worker.launches \in Nat
    BY <1>3 DEF LaunchBegins, LTypeOK
  <2>2. held' \in [Readers -> [Files -> SUBSET Contents]]
    BY <1>1, <1>3, <2>1 DEF LaunchBegins, Readers
  <2>3. worker' \in [at : {"idle", "starting", "running", "succeeded"}, launches : 0..Launches]
    BY <1>3, <2>1 DEF LaunchBegins
  <2>4. UNCHANGED <<watch, tracked>>
    BY <1>3 DEF LaunchBegins
  <2>5. LTypeOK'
    BY <1>0, <2>2, <2>3, <2>4 DEF LTypeOK
  <2>6. Watches'
    BY <1>0, <2>4 DEF Watches, WatchFits, Ran, Proved
  <2>7. watch[worker.launches + 1].at = "off"
    BY <2>1 DEF Tracks
  <2>8. Tracks'
    BY <1>0, <1>3, <2>1, <2>4, <2>7 DEF LaunchBegins, Tracks, Watching
  <2> QED BY <1>2, <2>5, <2>6, <2>8
<1>4. CASE LaunchWatched
  <2> DEFINE i == worker.launches
  <2>1. i \in 1..Launches /\ i \in Readers
    BY <1>4 DEF LaunchWatched, Tracks, LTypeOK, Readers
  <2>2. PICK c \in Workspaces :
          watch' = [watch EXCEPT ![i] = [at |-> "head", initial |-> c,
                                         observed |-> c, changed |-> FALSE]]
    BY <1>4 DEF LaunchWatched, Readings
  <2>3. PICK w \in WatchStates : w.at = "head" /\ watch' = [watch EXCEPT ![i] = w]
    <3>1. [at |-> "head", initial |-> c, observed |-> c, changed |-> FALSE] \in WatchStates
      BY DEF WatchStates, Remembered
    <3> QED BY <2>2, <3>1
  <2>4. held' \in [Readers -> [Files -> SUBSET Contents]]
    BY <1>1, <1>4, <2>1 DEF LaunchWatched
  <2>5. /\ worker' \in [at : {"idle", "starting", "running", "succeeded"},
                        launches : 0..Launches]
        /\ worker'.at = "running" /\ worker'.launches = i
        /\ tracked' = i
    BY <1>4 DEF LaunchWatched, LTypeOK
  <2>6. LTypeOK'
    BY <1>0, <2>1, <2>3, <2>4, <2>5 DEF LTypeOK
  <2>7. Watches'
    BY <1>0, <2>3 DEF Watches, WatchFits, Ran, Proved, LTypeOK
  <2>8. Tracks'
    BY <1>0, <2>1, <2>3, <2>5 DEF Tracks, LTypeOK
  <2> QED BY <1>2, <2>6, <2>7, <2>8
<1>5. CASE LaunchUnwatched
  <2>1. /\ worker' \in [at : {"idle", "starting", "running", "succeeded"},
                        launches : 0..Launches]
        /\ worker'.at = "running" /\ worker'.launches = worker.launches
        /\ worker.at = "starting"
        /\ UNCHANGED <<watch, tracked, held>>
    BY <1>5 DEF LaunchUnwatched, LTypeOK
  <2>2. LTypeOK'
    BY <1>0, <2>1 DEF LTypeOK
  <2>3. Watches'
    BY <1>0, <2>1 DEF Watches, WatchFits, Ran, Proved
  <2>4. Tracks'
    BY <1>0, <2>1 DEF Tracks, Watching
  <2> QED BY <1>2, <2>2, <2>3, <2>4
<1> QED
  BY <1>3, <1>4, <1>5

\* The worker's end or cancellation keeps the invariant.
LEMMA WorkerEndStep ==
  ASSUME LInv, WorkerEnds \/ WorkerCancelled
  PROVE  LInv'
<1> USE LiveAssumption DEF LInv
<1>1. /\ UNCHANGED <<ws, tool, held, watch, tracked, proof, check, passed, changes>>
      /\ worker.at = "running" /\ check.at = "idle"
  BY DEF WorkerEnds, WorkerCancelled, Tracks
<1>2. /\ worker' \in [at : {"idle", "starting", "running", "succeeded"},
                      launches : 0..Launches]
      /\ worker'.at \in {"idle", "running", "succeeded"}
      /\ worker'.launches = worker.launches
      /\ stop' \subseteq 1..Launches
  BY DEF WorkerEnds, WorkerCancelled, LTypeOK
<1>3. LTypeOK'
  BY <1>1, <1>2 DEF LTypeOK
<1>4. Watches' /\ Decides'
  BY <1>1 DEF Watches, WatchFits, Ran, Proved, Decides
<1>5. Tracks'
  BY <1>1, <1>2 DEF Tracks, Watching
<1> QED
  BY <1>3, <1>4, <1>5

\* The verifier's dispatch, up to its decision, keeps the invariant.
LEMMA VerifierStep ==
  ASSUME LInv, Verifier
  PROVE  LInv'
<1> USE LiveAssumption DEF LInv
<1>0. VerifierMoves
  BY DEF Verifier, VerifierBegins, WatcherAwaited, Decide, CollectVerifier
<1>1. ASSUME Fresh(0)
      PROVE  /\ held' \in [Readers -> [Files -> SUBSET Contents]]
             /\ \A f \in Own : held'[0][f] = {ws[f]}
  <2>1. [f \in Files |-> {ws[f]}] \in [Files -> SUBSET Contents] /\ 0 \in Readers
    BY DEF LTypeOK, Workspaces, Readers
  <2> QED BY <1>1, <2>1 DEF Fresh, LTypeOK
<1>2. worker.at # "idle" => worker.launches \in 1..Launches
  BY DEF LTypeOK, Tracks
<1>3. CASE VerifierBegins
  <2>1. /\ UNCHANGED <<held, tracked, proof>> /\ stop' \subseteq 1..Launches
        /\ check.at = "idle" /\ worker.at = "succeeded" /\ check'.at = "awaiting"
    BY <1>3 DEF VerifierBegins, LTypeOK
  <2>2. LTypeOK' /\ Watches' /\ Decides'
    BY <1>0, <2>1 DEF LTypeOK, Watches, WatchFits, Ran, Proved, Decides, VerifierMoves
  <2>3. Tracks'
    BY <1>0, <2>1 DEF Tracks, VerifierMoves
  <2> QED BY <2>2, <2>3
<1>4. CASE WatcherAwaited
  <2>1. /\ check.at = "awaiting" /\ (tracked # 0 => ~Watching(tracked))
        /\ proof' \in {proof, NoProof} /\ tracked' = 0 /\ Fresh(0) /\ stop' = stop
        /\ check' = IF proof' = NoProof THEN [at |-> "inner"]
                    ELSE [at |-> "deciding", proof |-> proof']
    BY <1>4 DEF WatcherAwaited
  <2>2. ~Watching(worker.launches)
    BY <1>2, <2>1 DEF Tracks, Watching
  <2>3. /\ check'.at \in {"deciding", "inner"}
        /\ check'.at = "deciding" => proof' # NoProof /\ check'.proof = proof'
    BY <2>1
  <2>4. LTypeOK'
    BY <1>0, <1>1, <2>1, <2>3 DEF LTypeOK, VerifierMoves
  <2>5. Watches'
    BY <1>0, <2>1 DEF Watches, WatchFits, Ran, Proved, VerifierMoves
  <2>6. Tracks'
    BY <1>0, <1>2, <2>1, <2>2, <2>3 DEF Tracks, Watching, VerifierMoves
  <2>7. Decides'
    BY <1>0, <1>1, <2>1, <2>3, <2>5 DEF Decides, Watches, Proved, VerifierMoves
  <2> QED BY <2>4, <2>5, <2>6, <2>7
<1>5. CASE Decide
  <2>1. UNCHANGED <<held, tracked, stop, proof>> /\ check.at = "deciding"
    BY <1>5 DEF Decide
  <2>2. \/ check' = [at |-> "inner"]
        \/ \E current \in Readings(0) :
             /\ Adoptable(check.proof, current, tool)
             /\ check' = [at |-> "adopted", proof |-> check.proof, tool |-> tool,
                          ws |-> held[0]]
    BY <1>5 DEF Decide
  <2>3. check'.at \in {"adopted", "inner"}
    BY <2>2
  <2>4. LTypeOK' /\ Watches'
    BY <1>0, <2>1, <2>3 DEF LTypeOK, Watches, WatchFits, Ran, Proved, VerifierMoves
  <2>5. Tracks'
    BY <1>0, <2>1, <2>3 DEF Tracks, Watching, VerifierMoves
  <2>6. ASSUME NEW current \in Readings(0),
               Adoptable(check.proof, current, tool),
               check' = [at |-> "adopted", proof |-> check.proof, tool |-> tool,
                         ws |-> held[0]]
        PROVE  Decides'
    <3>1. /\ <<check.proof.source, tool>> \in passed
          /\ \A f \in Files : check.proof.source[f] \in held[0][f]
          /\ \A f \in Own : held[0][f] = {ws[f]}
      BY <2>1, <2>6 DEF Decides, Proved, Adoptable, Readings
    <3>2. \A f \in Own : ws[f] = check.proof.source[f]
      BY <3>1
    <3>3. /\ check'.at = "adopted" /\ check'.proof = check.proof /\ check'.tool = tool
          /\ check'.ws = held[0]
      BY <2>6
    <3> QED BY <1>0, <3>1, <3>2, <3>3 DEF Decides, VerifierMoves
  <2>7. Decides'
    BY <2>2, <2>6 DEF Decides
  <2> QED BY <2>4, <2>5, <2>7
<1>6. CASE CollectVerifier
  <2>1. /\ UNCHANGED <<held, tracked, stop>> /\ proof' \in {proof, NoProof}
        /\ check.at \in {"adopted", "inner"} /\ check'.at = "collected"
    BY <1>6 DEF CollectVerifier
  <2>2. LTypeOK' /\ Watches' /\ Decides'
    BY <1>0, <2>1 DEF LTypeOK, Watches, WatchFits, Ran, Proved, Decides, VerifierMoves
  <2>3. Tracks'
    BY <1>0, <2>1 DEF Tracks, Watching, VerifierMoves
  <2> QED BY <2>2, <2>3
<1> QED
  BY <1>3, <1>4, <1>5, <1>6 DEF Verifier

\* Every step keeps the invariant of live verification.
LEMMA LStep == LInv /\ [LNext]_lvars => LInv'
<1> SUFFICES ASSUME LInv, [LNext]_lvars PROVE LInv'
  OBVIOUS
<1>1. CASE UNCHANGED lvars
  BY <1>1 DEF lvars, LInv, LTypeOK, Watches, WatchFits, Ran, Proved, Tracks, Watching, Decides
<1>2. CASE LNext
  BY <1>2, SurroundingStep, WatcherStep, LaunchStep, WorkerEndStep, VerifierStep
     DEF LNext, WorkerMoves
<1> QED
  BY <1>1, <1>2

\* Whenever a verifier is decided the watcher of the launch that succeeded is
\* over, and a result that is reused is the command's result, in the installed
\* version, on what the workspace holds (live_verify.py, dispatch and _watch).
THEOREM DecisionHolds == LSpec => []DecisionSound
<1>1. LInv => DecisionSound
  BY DEF LInv, Tracks, Decides, DecisionSound
<1> QED
  BY <1>1, InitL, LStep, PTL DEF LSpec
-----------------------------------------------------------------------------
(* Routing, for any catalog, any availability and any request.             *)
(*                                                                         *)
(* A choice among candidates is a CHOOSE of the first in some order; that  *)
(* it is a candidate at all needs that the order has a first element.      *)

\* What the comparison of keys says, position by position
LEMMA QuickerMeans ==
  ASSUME NEW c, NEW d
  PROVE  Quicker(c, d) <=> \/ Late(c) < Late(d)
                           \/ Late(c) = Late(d) /\ c.wall < d.wall
                           \/ Late(c) = Late(d) /\ c.wall = d.wall /\ c.rank < d.rank
<1> DEFINE s == <<Late(c), c.wall, c.rank>>
           t == <<Late(d), d.wall, d.rank>>
<1>1. /\ DOMAIN s = {1, 2, 3} /\ 1..(1 - 1) = {} /\ 1..(2 - 1) = {1} /\ 1..(3 - 1) = {1, 2}
      /\ s[1] = Late(c) /\ s[2] = c.wall /\ s[3] = c.rank
      /\ t[1] = Late(d) /\ t[2] = d.wall /\ t[3] = d.rank
  OBVIOUS
<1>2. Quicker(c, d) <=> Before(s, t)
  BY DEF Quicker
<1> HIDE DEF s, t
<1> QED
  BY <1>1, <1>2 DEF Before

\* What is stronger has the higher score, or is quicker.
LEMMA StrongerMeans ==
  ASSUME NEW c, NEW d
  PROVE  Stronger(c, d) <=> \/ d.score < c.score
                            \/ d.score = c.score /\ Quicker(c, d)
<1> DEFINE s == <<d.score, Late(c), c.wall, c.rank>>
           t == <<c.score, Late(d), d.wall, d.rank>>
<1>1. /\ DOMAIN s = {1, 2, 3, 4} /\ 1..(1 - 1) = {} /\ 1..(2 - 1) = {1}
      /\ 1..(3 - 1) = {1, 2} /\ 1..(4 - 1) = {1, 2, 3}
      /\ s[1] = d.score /\ s[2] = Late(c) /\ s[3] = c.wall /\ s[4] = c.rank
      /\ t[1] = c.score /\ t[2] = Late(d) /\ t[3] = d.wall /\ t[4] = d.rank
  OBVIOUS
<1>2. Stronger(c, d) <=> Before(s, t)
  BY DEF Stronger
<1> HIDE DEF s, t
<1> QED
  BY <1>1, <1>2, QuickerMeans DEF Before

\* What is earlier has a score, or comes first in the catalog.
LEMMA EarlierMeans ==
  ASSUME NEW c, NEW d
  PROVE  Earlier(c, d) <=> \/ Unscored(c) < Unscored(d)
                           \/ Unscored(c) = Unscored(d) /\ c.place < d.place
<1> DEFINE s == <<Unscored(c), c.place>>
           t == <<Unscored(d), d.place>>
<1>1. /\ DOMAIN s = {1, 2} /\ 1..(1 - 1) = {} /\ 1..(2 - 1) = {1}
      /\ s[1] = Unscored(c) /\ s[2] = c.place /\ t[1] = Unscored(d) /\ t[2] = d.place
  OBVIOUS
<1>2. Earlier(c, d) <=> Before(s, t)
  BY DEF Earlier
<1> HIDE DEF s, t
<1> QED
  BY <1>1, <1>2 DEF Before

\* One of some candidates is quicker than all the others.
LEMMA QuickestExists ==
  ASSUME NEW C, C \subseteq Catalog, C # {}
  PROVE  \E c \in C : \A d \in C \ {c} : Quicker(c, d)
<1>1. \A c \in C : Late(c) \in {0, 1} /\ c.wall \in Nat /\ c.rank \in Nat
  BY RoutingAssumption DEF Late
<1>2. PICK a \in C : \A d \in C : Late(a) <= Late(d)
  <2> DEFINE f == [c \in C |-> Late(c)]
  <2>1. C # {} /\ \A c \in C : f[c] \in Nat /\ f[c] = Late(c)
    BY <1>1
  <2> HIDE DEF f
  <2>2. \E a \in C : \A d \in C : f[a] <= f[d]
    BY <2>1, LeastOf
  <2> QED
    BY <2>1, <2>2
<1> DEFINE D == {c \in C : Late(c) = Late(a)}
<1>3. PICK b \in D : \A d \in D : b.wall <= d.wall
  <2> DEFINE f == [c \in D |-> c.wall]
  <2>1. D # {} /\ \A c \in D : f[c] \in Nat /\ f[c] = c.wall
    BY <1>1
  <2> HIDE DEF f, D
  <2>2. \E b \in D : \A d \in D : f[b] <= f[d]
    BY <2>1, LeastOf
  <2> QED
    BY <2>1, <2>2
<1> DEFINE E == {c \in D : c.wall = b.wall}
<1>4. PICK e \in E : \A d \in E : e.rank <= d.rank
  <2> DEFINE f == [c \in E |-> c.rank]
  <2>1. E # {} /\ \A c \in E : f[c] \in Nat /\ f[c] = c.rank
    BY <1>1
  <2> HIDE DEF f, E
  <2>2. \E e \in E : \A d \in E : f[e] <= f[d]
    BY <2>1, LeastOf
  <2> QED
    BY <2>1, <2>2
<1>5. ASSUME NEW d \in C \ {e} PROVE Quicker(e, d)
  <2>1. e.rank # d.rank
    BY <1>5, RoutingAssumption
  <2>2. /\ Late(e) < Late(d) \/ Late(e) = Late(d)
        /\ Late(e) = Late(d) => e.wall < d.wall \/ e.wall = d.wall
        /\ Late(e) = Late(d) /\ e.wall = d.wall => e.rank < d.rank
    BY <1>1, <1>2, <1>3, <1>4, <2>1
  <2>3. \/ Late(e) < Late(d)
        \/ Late(e) = Late(d) /\ e.wall < d.wall
        \/ Late(e) = Late(d) /\ e.wall = d.wall /\ e.rank < d.rank
    BY <2>2
  <2> QED
    BY <2>3, QuickerMeans
<1> QED
  BY <1>5

\* The fastest candidate of some is one of them.
LEMMA FastestIsOne ==
  ASSUME NEW C, C \subseteq Catalog, C # {}
  PROVE  Fastest(C) \in C
BY QuickestExists DEF Fastest

\* So is the first of them in the catalog,
LEMMA EarliestIsOne ==
  ASSUME NEW C, C \subseteq Catalog, C # {}
  PROVE  Earliest(C) \in C
<1>1. \A c \in C : Unscored(c) \in {0, 1} /\ c.place \in Nat
  BY RoutingAssumption DEF Unscored
<1>2. PICK a \in C : \A d \in C : Unscored(a) <= Unscored(d)
  <2> DEFINE f == [c \in C |-> Unscored(c)]
  <2>1. C # {} /\ \A c \in C : f[c] \in Nat /\ f[c] = Unscored(c)
    BY <1>1
  <2> HIDE DEF f
  <2>2. \E a \in C : \A d \in C : f[a] <= f[d]
    BY <2>1, LeastOf
  <2> QED
    BY <2>1, <2>2
<1> DEFINE D == {c \in C : Unscored(c) = Unscored(a)}
<1>3. PICK b \in D : \A d \in D : b.place <= d.place
  <2> DEFINE f == [c \in D |-> c.place]
  <2>1. D # {} /\ \A c \in D : f[c] \in Nat /\ f[c] = c.place
    BY <1>1
  <2> HIDE DEF f, D
  <2>2. \E b \in D : \A d \in D : f[b] <= f[d]
    BY <2>1, LeastOf
  <2> QED
    BY <2>1, <2>2
<1>4. ASSUME NEW d \in C \ {b} PROVE Earlier(b, d)
  <2>1. b.place # d.place
    BY <1>4, RoutingAssumption
  <2>2. /\ Unscored(b) < Unscored(d) \/ Unscored(b) = Unscored(d)
        /\ Unscored(b) = Unscored(d) => b.place < d.place
    BY <1>1, <1>2, <1>3, <2>1
  <2> QED
    BY <2>2, EarlierMeans
<1> QED
  BY <1>4 DEF Earliest

\* and the strongest, since there are finitely many.
LEMMA StrongestIsOne ==
  ASSUME NEW C, C \subseteq Catalog, C # {}
  PROVE  Strongest(C) \in C
<1>1. \A c \in C : c.score \in Nat /\ Late(c) \in {0, 1} /\ c.wall \in Nat /\ c.rank \in Nat
  BY RoutingAssumption DEF Late
<1>2. IsFiniteSet(C)
  BY RoutingAssumption, FS_Subset
<1>3. PICK s \in C : \A d \in C : d.score <= s.score
  <2> DEFINE f == [c \in C |-> c.score]
  <2>1. \A c \in C : f[c] \in Nat /\ f[c] = c.score
    BY <1>1
  <2> HIDE DEF f
  <2> QED
    BY <1>2, <2>1, GreatestExists
<1> DEFINE B == {c \in C : c.score = s.score}
<1>4. PICK q \in B : \A d \in B \ {q} : Quicker(q, d)
  <2>1. B \subseteq Catalog /\ B # {}
    OBVIOUS
  <2> HIDE DEF B
  <2> QED
    BY <2>1, QuickestExists
<1>5. ASSUME NEW d \in C \ {q} PROVE Stronger(q, d)
  <2>1. d.score < q.score \/ (d.score = q.score /\ Quicker(q, d))
    BY <1>1, <1>3, <1>4
  <2> QED
    BY <2>1, StrongerMeans
<1> QED
  BY <1>5 DEF Strongest

GateStates == {"none", "open", "approve", "use_fallback", "skip"}

\* What a routing of task f may be, said of the catalog alone
Justified(f, d) ==
  d.primary.premium =>
    LET unscored == f.kind \in {"research", "design", "verification"}
    IN  /\ \A c \in Fit(f) : c.premium \/ (c.score = 0 /\ ~unscored)
        /\ (\E c \in Catalog : c.model \in supply /\ Capable(f, c) /\ ~c.premium)
             => d.fallback # NoRoute /\ ~d.fallback.premium

\* Neither route planned for the review is on the provider of the implementation.
OnAnotherProvider ==
  \A r \in {routing["review"].primary, routing["review"].fallback, route["review"]} :
    r = NoRoute \/ r.provider # routing["implementation"].primary.provider

Unasked ==
  /\ ran = {} /\ routing = [n \in RoutedNodes |-> NoRouting]
  /\ route = [n \in RoutedNodes |-> NoRoute] /\ gate = [n \in RoutedNodes |-> "none"]

\* What the gate of a node says of the route it has now
GateTells(n) ==
  /\ gate[n] \in {"none", "use_fallback"} => ~route[n].premium
  /\ gate[n] = "approve" =>
       envelope[n].node = n /\ envelope[n].model = route[n].model
       /\ route[n].effort <= envelope[n].effort
  /\ n \in ran => route[n] # NoRoute /\ gate[n] \in {"none", "approve", "use_fallback"}

RInv ==
  /\ gate \in [RoutedNodes -> GateStates]
  /\ DOMAIN routing = RoutedNodes /\ DOMAIN route = RoutedNodes /\ DOMAIN envelope = RoutedNodes
  /\ ran \subseteq RoutedNodes
  /\ ask.kind = "none" => Unasked
  /\ \A n \in RoutedNodes : Justified(PlannedFor(n), routing[n]) /\ GateTells(n)
  /\ OnAnotherProvider

\* What is chosen for a task is qualified, and premium only if all that is is.
LEMMA Chosen ==
  ASSUME NEW f, Routable(f)
  PROVE  \E c \in QualifiedRoutes(f) :
           /\ Routed(f) = [primary |-> Target(c), fallback |-> Fallback(f, c)]
           /\ c.premium => \A d \in QualifiedRoutes(f) : d.premium
<1>1. /\ Pool(f) \subseteq QualifiedRoutes(f) /\ Pool(f) # {}
      /\ (\E c \in Pool(f) : c.premium) => \A d \in QualifiedRoutes(f) : d.premium
  BY RoutingAssumption DEF Pool, Normal, Routable
<1>2. Pool(f) \subseteq Catalog
  BY <1>1 DEF QualifiedRoutes, Available, Supplied
<1>3. Fastest(Pool(f)) \in Pool(f)
  BY <1>1, <1>2, FastestIsOne
<1> DEFINE same == {c \in Pool(f) : c.model = f.preferred}
           c == Hysteresis(f, Fastest(Pool(f)))
<1>4. c \in Pool(f)
  <2>1. same # {} => Earliest(same) \in same
    BY <1>2, EarliestIsOne
  <2>2. c = Fastest(Pool(f)) \/ (same # {} /\ c = Earliest(same))
    BY DEF Hysteresis
  <2> QED
    BY <1>3, <2>1, <2>2
<1>5. Routed(f) = [primary |-> Target(c), fallback |-> Fallback(f, c)]
  BY DEF Routed
<1> QED
  BY <1>1, <1>4, <1>5

\* A fallback is a capable candidate, and a normal one if there is any.
LEMMA FallsBack ==
  ASSUME NEW f, NEW c \in QualifiedRoutes(f)
  PROVE  /\ Fallback(f, c) = NoRoute \/ \E d \in Available(f) : Fallback(f, c) = Target(d)
         /\ c.premium /\ Normal(Available(f)) # {} =>
              \E d \in Normal(Available(f)) : Fallback(f, c) = Target(d)
<1> DEFINE cheap == Normal(Available(f))
           rest  == QualifiedRoutes(f) \ {c}
<1>1. cheap \subseteq Available(f) /\ rest \subseteq Available(f) /\ Available(f) \subseteq Catalog
  BY DEF Normal, QualifiedRoutes, Available, Supplied
<1>2. cheap # {} => Strongest(cheap) \in cheap
  <2> HIDE DEF cheap
  <2> QED
    BY <1>1, StrongestIsOne
<1>3. rest # {} => Earliest(rest) \in rest
  <2> HIDE DEF rest
  <2> QED
    BY <1>1, EarliestIsOne
<1>4. Fallback(f, c) = IF c.premium /\ cheap # {} THEN Target(Strongest(cheap))
                       ELSE IF rest # {} THEN Target(Earliest(rest)) ELSE NoRoute
  BY DEF Fallback
<1> HIDE DEF cheap, rest
<1> QED
  BY <1>1, <1>2, <1>3, <1>4 DEF cheap

\* No route is the route of a candidate.
LEMMA RoutesExist == \A c \in Catalog : Target(c) # NoRoute
BY RoutingAssumption DEF Target, NoRoute

\* Routing justifies what it chooses, on providers that are not excluded.
LEMMA RoutedWell ==
  ASSUME NEW f, Routable(f)
  PROVE  /\ Justified(f, Routed(f))
         /\ \A r \in {Routed(f).primary, Routed(f).fallback} :
              r = NoRoute \/ r.provider # f.excluded
<1>1. PICK c \in QualifiedRoutes(f) :
        /\ Routed(f) = [primary |-> Target(c), fallback |-> Fallback(f, c)]
        /\ c.premium => \A d \in QualifiedRoutes(f) : d.premium
  BY Chosen
<1>2. Routed(f).primary = Target(c) /\ Routed(f).fallback = Fallback(f, c)
  BY <1>1
<1>3. /\ Target(c).premium = c.premium
      /\ \A d : Target(d).premium = d.premium /\ Target(d).provider = d.provider
  BY DEF Target
<1>4. QualifiedRoutes(f) \subseteq Available(f) /\ Available(f) \subseteq Catalog
  BY DEF QualifiedRoutes, Available, Supplied
<1>5. \A d \in Available(f) : d.provider # f.excluded
  BY DEF Available, Capable
<1>6. \A r \in {Routed(f).primary, Routed(f).fallback} : r = NoRoute \/ r.provider # f.excluded
  BY <1>2, <1>3, <1>4, <1>5, FallsBack
<1>7. ASSUME c.premium
      PROVE  \A d \in Fit(f) :
               d.premium \/ (d.score = 0 /\ f.kind \notin {"research", "design", "verification"})
  <2> SUFFICES ASSUME NEW d \in Fit(f), ~d.premium
               PROVE  d.score = 0 /\ f.kind \notin {"research", "design", "verification"}
    OBVIOUS
  <2>1. d \in Available(f) /\ d.score \in Nat /\ (d.score = 0 \/ d.score >= Required(f))
    BY RoutingAssumption DEF Fit, Available, Supplied
  <2>2. d \notin QualifiedRoutes(f)
    BY <1>1, <1>7
  <2>3. d.score > 0 => d \in {x \in Available(f) : x.score > 0 /\ x.score >= Required(f)}
    BY <2>1
  <2> QED
    BY <2>1, <2>2, <2>3 DEF QualifiedRoutes
<1>8. ASSUME c.premium, NEW d \in Catalog, d.model \in supply, Capable(f, d), ~d.premium
      PROVE  Routed(f).fallback # NoRoute /\ ~Routed(f).fallback.premium
  <2>1. d \in Normal(Available(f))
    BY <1>8 DEF Normal, Available, Supplied
  <2>2. PICK e \in Normal(Available(f)) : Fallback(f, c) = Target(e)
    BY <1>8, <2>1, FallsBack
  <2>3. e \in Catalog /\ ~e.premium
    BY <1>4 DEF Normal
  <2> QED
    BY <1>2, <1>3, <2>2, <2>3, RoutesExist
<1>9. Justified(f, Routed(f))
  BY <1>2, <1>3, <1>7, <1>8 DEF Justified
<1> QED
  BY <1>6, <1>9

\* A task that is asked for is of a kind there is a floor for.
LEMMA AsksHaveKinds == \A a \in Asks : a.kind # "none"
BY RoutingAssumption DEF Asks, Floor

\* The justification of a routing does not change with the state.
LEMMA JustifiedStays ==
  ASSUME UNCHANGED <<supply, ask, routing>>
  PROVE  \A n \in RoutedNodes : Justified(PlannedFor(n), routing[n])
                                  => Justified(PlannedFor(n), routing[n])'
BY DEF Justified, PlannedFor, Fit, Capable, Required, ForReview, ForImplementation

\* Nothing is routed at first.
LEMMA InitR == RInit => RInv
<1> SUFFICES ASSUME RInit PROVE RInv
  OBVIOUS
<1>1. /\ routing = [n \in RoutedNodes |-> NoRouting] /\ route = [n \in RoutedNodes |-> NoRoute]
      /\ gate = [n \in RoutedNodes |-> "none"] /\ ran = {}
      /\ envelope = [n \in RoutedNodes |-> NoEnvelope]
  BY DEF RInit
<1>2. \A n \in RoutedNodes : Justified(PlannedFor(n), routing[n])
  BY <1>1 DEF Justified, NoRouting, NoRoute
<1>3. \A n \in RoutedNodes : GateTells(n)
  BY <1>1 DEF GateTells, NoRoute
<1>4. OnAnotherProvider
  BY <1>1 DEF OnAnotherProvider, RoutedNodes, NoRouting
<1> QED
  BY <1>1, <1>2, <1>3, <1>4 DEF RInv, Unasked, GateStates

\* The plan that is routed is justified, and premium nodes get a gate.
LEMMA RoutePlanStep == ASSUME RInv, NEW a \in Asks, RoutePlan(a) PROVE RInv'
<1> DEFINE f == ForImplementation(a)
           d == Routed(f)
           r == ForReview(a, d.primary.provider)
           both == a.review /\ Cardinality({c.provider : c \in Supplied}) > 1
           made == [n \in RoutedNodes |-> CASE n = "implementation" -> d
                                             [] n = "review" /\ both -> Routed(r)
                                             [] OTHER -> NoRouting]
<1>1. /\ ask.kind = "none" /\ Routable(f) /\ (both => Routable(r))
      /\ routing' = made /\ route' = [n \in RoutedNodes |-> made[n].primary]
      /\ gate' = [n \in RoutedNodes |-> IF made[n].primary.premium THEN "open" ELSE "none"]
      /\ ask' = a /\ supply' = supply /\ envelope' = envelope /\ ran' = ran
  BY DEF RoutePlan
<1>2. /\ made["implementation"] = d /\ made["rework"] = NoRouting
      /\ made["review"] = IF both THEN Routed(r) ELSE NoRouting
      /\ DOMAIN made = RoutedNodes
  BY DEF RoutedNodes
<1>3. ran = {} /\ a.kind # "none"
  BY <1>1, AsksHaveKinds DEF RInv, Unasked
<1>4. /\ PlannedFor("implementation")' = f
      /\ PlannedFor("rework")' = f
      /\ PlannedFor("review")' = r
  BY <1>1, <1>2 DEF PlannedFor, RoutedNodes
<1>5. Justified(f, d) /\ (both => Justified(r, Routed(r)))
  BY <1>1, RoutedWell
<1>6. \A n \in RoutedNodes : Justified(PlannedFor(n), routing[n])'
  <2>1. \A g : Justified(g, NoRouting)
    BY DEF Justified, NoRouting, NoRoute
  <2>2. /\ Justified(f, made["implementation"]) /\ Justified(f, made["rework"])
        /\ Justified(r, made["review"])
    BY <1>2, <1>5, <2>1
  <2> HIDE DEF f, r, made, d
  <2>3. ASSUME NEW n, NEW g, PlannedFor(n)' = g, Justified(g, made[n])
        PROVE  Justified(PlannedFor(n), routing[n])'
    BY <1>1, <2>3 DEF Justified, Fit
  <2> QED
    BY <1>4, <2>2, <2>3 DEF RoutedNodes
<1>7. OnAnotherProvider'
  <2>1. \A x \in {Routed(r).primary, Routed(r).fallback} :
          both => x = NoRoute \/ x.provider # r.excluded
    BY <1>1, RoutedWell
  <2>2. r.excluded = d.primary.provider
    BY DEF ForReview
  <2>3. /\ routing'["review"] = (IF both THEN Routed(r) ELSE NoRouting)
        /\ routing'["implementation"] = d
        /\ route'["review"] = routing'["review"].primary
    BY <1>1, <1>2 DEF RoutedNodes
  <2> HIDE DEF r, d, both, made
  <2> QED
    BY <2>1, <2>2, <2>3 DEF OnAnotherProvider, NoRouting
<1>8. \A n \in RoutedNodes : GateTells(n)'
  BY <1>1, <1>3 DEF GateTells
<1> HIDE DEF made
<1> QED
  BY <1>1, <1>2, <1>3, <1>6, <1>7, <1>8 DEF RInv, GateStates

\* An approval binds the very route that is approved.
LEMMA ApproveStep ==
  ASSUME RInv, NEW n \in RoutedNodes, NEW e \in Envelopes, Approve(n, e)
  PROVE  RInv'
<1>1. /\ gate[n] = "open" /\ e.node = n /\ e.model = route[n].model
      /\ route[n].effort <= e.effort
      /\ gate' = [gate EXCEPT ![n] = "approve"] /\ envelope' = [envelope EXCEPT ![n] = e]
      /\ UNCHANGED <<supply, ask, routing, route, ran>>
  BY DEF Approve, EnvelopeCovers
<1>2. \A m \in RoutedNodes : GateTells(m)'
  BY <1>1 DEF GateTells, RInv
<1>3. ask.kind # "none"
  BY <1>1 DEF RInv, Unasked
<1> QED
  BY <1>1, <1>2, <1>3, JustifiedStays DEF RInv, GateStates, OnAnotherProvider

\* Declining the premium route takes a normal one.
LEMMA UseFallbackStep == ASSUME RInv, NEW n \in RoutedNodes, UseFallback(n) PROVE RInv'
<1> DEFINE of == IF n = "rework" THEN "implementation" ELSE n
<1>1. /\ gate[n] = "open" /\ ~routing[of].fallback.premium
      /\ gate' = [gate EXCEPT ![n] = "use_fallback"]
      /\ route' = [route EXCEPT ![n] = routing[of].fallback]
      /\ UNCHANGED <<supply, ask, routing, envelope, ran>>
  BY DEF UseFallback
<1>2. \A m \in RoutedNodes : GateTells(m)'
  BY <1>1 DEF GateTells, RInv
<1>3. ask.kind # "none"
  BY <1>1 DEF RInv, Unasked
<1>4. OnAnotherProvider'
  BY <1>1 DEF OnAnotherProvider, RInv, RoutedNodes
<1> QED
  BY <1>1, <1>2, <1>3, <1>4, JustifiedStays DEF RInv, GateStates

\* What is launched has a route that needs no approval or has it.
LEMMA RouteLaunchStep == ASSUME RInv, NEW n \in RoutedNodes, Launch(n) PROVE RInv'
<1>1. /\ route[n] # NoRoute /\ gate[n] \in {"none", "approve", "use_fallback"}
      /\ ran' = ran \cup {n} /\ UNCHANGED <<supply, ask, routing, gate, envelope, route>>
  BY DEF Launch
<1>2. \A m \in RoutedNodes : GateTells(m)'
  BY <1>1 DEF GateTells, RInv
<1>3. ask.kind # "none"
  BY <1>1 DEF RInv, Unasked
<1> QED
  BY <1>1, <1>2, <1>3, JustifiedStays DEF RInv, OnAnotherProvider

\* A node that is skipped has not run.
LEMMA SkipStep == ASSUME RInv, NEW n \in RoutedNodes, Skip(n) PROVE RInv'
<1>1. /\ gate[n] = "open" /\ gate' = [gate EXCEPT ![n] = "skip"]
      /\ UNCHANGED <<supply, ask, routing, envelope, route, ran>>
  BY DEF Skip
<1>2. \A m \in RoutedNodes : GateTells(m)'
  BY <1>1 DEF GateTells, RInv
<1>3. ask.kind # "none"
  BY <1>1 DEF RInv, Unasked
<1> QED
  BY <1>1, <1>2, <1>3, JustifiedStays DEF RInv, GateStates, OnAnotherProvider

\* A rework has not run before it has a route, and asks for its own approval.
LEMMA CreateReworkStep == RInv /\ CreateRework => RInv'
<1> SUFFICES ASSUME RInv, CreateRework PROVE RInv'
  OBVIOUS
<1>1. /\ route["rework"] = NoRoute
      /\ route' = [route EXCEPT !["rework"] = route["implementation"]]
      /\ gate' = [gate EXCEPT !["rework"] =
                    IF route["implementation"].premium THEN "open" ELSE "none"]
      /\ UNCHANGED <<supply, ask, routing, envelope, ran>> /\ "implementation" \in ran
  BY DEF CreateRework
<1>2. "rework" \notin ran
  BY <1>1 DEF RInv, GateTells, RoutedNodes
<1>3. \A m \in RoutedNodes : GateTells(m)'
  BY <1>1, <1>2 DEF GateTells, RInv
<1>4. ask.kind # "none"
  BY <1>1 DEF RInv, Unasked
<1>5. OnAnotherProvider'
  BY <1>1 DEF OnAnotherProvider, RInv
<1> QED
  BY <1>1, <1>3, <1>4, <1>5, JustifiedStays DEF RInv, GateStates

\* Every step of routing keeps its invariant.
LEMMA RStep == RInv /\ [RNext]_rvars => RInv'
<1>1. RInv /\ UNCHANGED rvars => RInv'
  BY JustifiedStays DEF rvars, RInv, Unasked, GateTells, OnAnotherProvider
<1>2. ASSUME RInv, NEW a \in Asks, RoutePlan(a) PROVE RInv'
  BY <1>2, RoutePlanStep
<1>3. ASSUME RInv, NEW n \in RoutedNodes, NEW e \in Envelopes, Approve(n, e) PROVE RInv'
  BY <1>3, ApproveStep
<1>4. ASSUME RInv, NEW n \in RoutedNodes, UseFallback(n) PROVE RInv'
  BY <1>4, UseFallbackStep
<1>5. ASSUME RInv, NEW n \in RoutedNodes, Launch(n) PROVE RInv'
  BY <1>5, RouteLaunchStep
<1>6. ASSUME NEW n \in RoutedNodes, Skip(n), RInv PROVE RInv'
  BY <1>6, SkipStep
<1> QED
  BY <1>1, <1>2, <1>3, <1>4, <1>5, <1>6, CreateReworkStep DEF RNext

(* For any catalog, availability and request: a premium route is planned   *)
(* only where no normal model fits, its fallback is a normal one if there  *)
(* is any, nothing premium runs that a person did not approve for that     *)
(* node, and the review is planned on another provider (ModelRouter.route, *)
(* resolve_premium_gate).                                                  *)
THEOREM PremiumIsJustified == RSpec => []PremiumJustified
<1>1. RInv => PremiumJustified
  <2> SUFFICES ASSUME RInv PROVE PremiumJustified
    OBVIOUS
  <2>1. ASSUME NEW n \in RoutedNodes, n \in ran, route[n].premium
        PROVE  /\ gate[n] = "approve" /\ envelope[n].node = n
               /\ envelope[n].model = route[n].model /\ envelope[n].effort >= route[n].effort
    BY <2>1 DEF RInv, GateTells
  <2>2. "review" \in ran => route["review"].provider # routing["implementation"].primary.provider
    BY DEF RInv, GateTells, OnAnotherProvider, RoutedNodes
  <2>3. \A n \in RoutedNodes : Justified(PlannedFor(n), routing[n])
    BY DEF RInv
  <2> QED
    BY <2>1, <2>2, <2>3 DEF PremiumJustified, Justified
<1> QED
  BY <1>1, InitR, RStep, PTL DEF RSpec

\* A route of the plan is that of a candidate, if there is one.
FromCatalog(r) == r = NoRoute \/ \E c \in Catalog : r = Target(c)

\* The types of routing: routes come from the catalog, envelopes are for their node.
RTypes ==
  /\ RInv /\ supply \in Blends
  /\ \A n \in RoutedNodes : /\ FromCatalog(route[n]) /\ envelope[n].node \in {"nobody", n}
                            /\ FromCatalog(routing[n].primary)
                            /\ FromCatalog(routing[n].fallback)

\* What is routed comes from the catalog.
LEMMA RoutedFromCatalog ==
  ASSUME NEW f, Routable(f)
  PROVE  FromCatalog(Routed(f).primary) /\ FromCatalog(Routed(f).fallback)
<1>1. PICK c \in QualifiedRoutes(f) : Routed(f) = [primary |-> Target(c), fallback |-> Fallback(f, c)]
  BY Chosen
<1>2. QualifiedRoutes(f) \subseteq Catalog /\ Available(f) \subseteq Catalog
  BY DEF QualifiedRoutes, Available, Supplied
<1>3. Fallback(f, c) = NoRoute \/ \E d \in Available(f) : Fallback(f, c) = Target(d)
  BY FallsBack
<1> QED
  BY <1>1, <1>2, <1>3 DEF FromCatalog

\* No routes, no envelopes: the types hold at the start.
LEMMA RTypesInit == RInit => RTypes
BY InitR DEF RInit, RTypes, FromCatalog, NoRouting, NoEnvelope

\* Every step of routing keeps the types.
LEMMA RTypesStep == RTypes /\ [RNext]_rvars => RTypes'
<1> SUFFICES ASSUME RTypes, [RNext]_rvars PROVE RTypes'
  OBVIOUS
<1>1. RInv /\ RInv'
  BY RStep DEF RTypes
<1>2. DOMAIN route = RoutedNodes /\ DOMAIN envelope = RoutedNodes
  BY <1>1 DEF RInv
<1>3. CASE UNCHANGED rvars
  BY <1>1, <1>3 DEF rvars, RTypes
<1>4. ASSUME NEW a \in Asks, RoutePlan(a) PROVE RTypes'
  <2> DEFINE f == ForImplementation(a)
             d == Routed(f)
             r == ForReview(a, d.primary.provider)
             both == a.review /\ Cardinality({c.provider : c \in Supplied}) > 1
             made == [n \in RoutedNodes |-> CASE n = "implementation" -> d
                                              [] n = "review" /\ both -> Routed(r)
                                              [] OTHER -> NoRouting]
  <2>1. /\ Routable(f) /\ (both => Routable(r))
        /\ routing' = made /\ route' = [n \in RoutedNodes |-> made[n].primary]
        /\ supply' = supply /\ envelope' = envelope
    BY <1>4 DEF RoutePlan
  <2>2. \A n \in RoutedNodes : made[n] = d \/ (both /\ made[n] = Routed(r)) \/ made[n] = NoRouting
    OBVIOUS
  <2>3. /\ FromCatalog(d.primary) /\ FromCatalog(d.fallback)
        /\ both => FromCatalog(Routed(r).primary) /\ FromCatalog(Routed(r).fallback)
    BY <2>1, RoutedFromCatalog
  <2>4. FromCatalog(NoRouting.primary) /\ FromCatalog(NoRouting.fallback)
    BY DEF NoRouting, FromCatalog
  <2> HIDE DEF made, r, d, both
  <2>5. \A n \in RoutedNodes : FromCatalog(made[n].primary) /\ FromCatalog(made[n].fallback)
    BY <2>2, <2>3, <2>4
  <2> QED
    BY <1>1, <2>1, <2>5 DEF RTypes
<1>5. ASSUME NEW n \in RoutedNodes, NEW e \in Envelopes, Approve(n, e) PROVE RTypes'
  <2>1. /\ e.node = n /\ envelope' = [envelope EXCEPT ![n] = e]
        /\ UNCHANGED <<supply, routing, route>>
    BY <1>5 DEF Approve, EnvelopeCovers
  <2> QED
    BY <1>1, <1>2, <2>1 DEF RTypes
<1>6. ASSUME NEW n \in RoutedNodes, UseFallback(n) PROVE RTypes'
  <2>1. PICK m \in RoutedNodes : route' = [route EXCEPT ![n] = routing[m].fallback]
    BY <1>6 DEF UseFallback, RoutedNodes
  <2>2. UNCHANGED <<supply, routing, envelope>>
    BY <1>6 DEF UseFallback
  <2> QED
    BY <1>1, <1>2, <2>1, <2>2 DEF RTypes
<1>7. ASSUME NEW n \in RoutedNodes, Skip(n) \/ Launch(n) PROVE RTypes'
  BY <1>1, <1>7 DEF Skip, Launch, RTypes
<1>8. CASE CreateRework
  <2>1. /\ route' = [route EXCEPT !["rework"] = route["implementation"]]
        /\ UNCHANGED <<supply, routing, envelope>>
    BY <1>8 DEF CreateRework
  <2>2. "implementation" \in RoutedNodes
    BY DEF RoutedNodes
  <2> QED
    BY <1>1, <1>2, <2>1, <2>2 DEF RTypes
<1> QED
  BY <1>3, <1>4, <1>5, <1>6, <1>7, <1>8 DEF RNext

\* The types are those the run checks.
LEMMA RTypesAre == RTypes => RTypeOK
BY DEF RTypes, RTypeOK, RInv, GateStates, FromCatalog

-----------------------------------------------------------------------------
(* Topology, for any tasks, modes, roles and names of revisions.           *)
(*                                                                         *)
(* No chain of requirements returns to where it began because each of them *)
(* leads to a later stage of the review, and no chain of revisions because *)
(* each is of an earlier one.                                              *)

Requiring == {"requires", "requires_gate"}

\* how far a node is from the end of the review
Stage(n) == CASE n = "escalation" -> 0 [] n = "human_gate" -> 1 [] n = "verifier_fanin" -> 2
              [] n \in {"verifier", "verifier_normal", "verifier_adversarial"} -> 3
              [] n = "router" -> 5 [] OTHER -> 4

WellDrawn(g) ==
  /\ \A e \in g.edges : /\ e.from \in g.nodes /\ e.to \in g.nodes /\ e.from # e.to
                        /\ e.kind \in Requiring => Stage(e.to) < Stage(e.from)
  /\ \A n \in g.nodes : KindOf(n) = "verifier" =>
       \E e \in g.edges : /\ e.kind = "verifies" /\ e.from = n
                          /\ KindOf(e.to) = IF n = "verifier_fanin" THEN "verifier" ELSE "worker"

\* what is handed over has passed a verifier and then the gate
HandedOver(g) == \A e \in g.edges : /\ e.to = "observer" => e.from = "human_gate"
                                    /\ e.to = "human_gate" => KindOf(e.from) = "verifier"

Reworks == {e \in graph.edges : e.kind = "rework_of"}

\* the revisions: nodes of their own, each of the one before it
History ==
  /\ revised > 0 => \A j \in 0..revised : Revision(j) \in graph.nodes
  /\ \A i, j \in 0..revised : Revision(i) = Revision(j) => i = j
  /\ \A e \in Reworks : \E k \in 1..revised : e.from = Revision(k) /\ e.to = Revision(k - 1)
  /\ IsFiniteSet(Reworks) /\ Cardinality(Reworks) <= revised

AtTheGate ==
  escalated => /\ revised = MaxRevisions
               /\ \E e \in graph.edges : e.from = Revision(MaxRevisions) /\ e.to = "escalation"

Manned ==
  \A n \in DOMAIN crew, m \in DOMAIN crew \ {"router"} :
    crew[n].kind # crew[m].kind => Apart(crew[n], crew[m]) \/ n = "router"

TaskKept ==
  /\ task \in [about : Tasks, risk : DOMAIN RiskRank, mode : DOMAIN ModeRank,
               state : DOMAIN TaskTransitions]
  /\ revised \in 0..MaxRevisions

TopInv == /\ TaskKept /\ WellDrawn(graph) /\ History /\ AtTheGate /\ Manned
          /\ (Demanding /\ ~refused) => HandedOver(graph)

\* Edges that descend in some number make no cycle.
LEMMA DescentIsAcyclic ==
  ASSUME NEW edges, NEW kinds, NEW f,
         \A e \in edges : e.kind \in kinds => /\ f[e.from] \in Nat /\ f[e.to] \in Nat
                                              /\ f[e.to] < f[e.from]
  PROVE  Acyclic(edges, kinds)
<1> DEFINE E == {e \in edges : e.kind \in kinds}
<1> SUFFICES ASSUME NEW S \in (SUBSET {e.from : e \in E}) \ {{}}
             PROVE  \E n \in S : \A e \in E : e.from = n => e.to \notin S
  BY DEF Acyclic
<1>1. S # {} /\ \A n \in S : f[n] \in Nat
  OBVIOUS
<1>2. PICK n \in S : \A m \in S : f[n] <= f[m]
  BY <1>1, LeastOf
<1>3. \A e \in E : e.from = n => e.to \notin S
  <2> SUFFICES ASSUME NEW e \in E, e.from = n, e.to \in S PROVE FALSE
    OBVIOUS
  <2>1. f[e.from] \in Nat /\ f[e.to] \in Nat /\ f[e.to] < f[e.from]
    OBVIOUS
  <2>2. f[n] <= f[e.to]
    BY <1>2
  <2> QED
    BY <2>1, <2>2
<1> QED
  BY <1>3

\* A graph that is well drawn and whose revisions are in order is valid.
LEMMA DrawnIsValid ==
  ASSUME revised \in Nat, WellDrawn(graph), History
  PROVE  ValidGraph
<1>1. Acyclic(graph.edges, Requiring)
  <2> DEFINE f == [n \in graph.nodes |-> Stage(n)]
  <2>1. \A n \in graph.nodes : f[n] = Stage(n) /\ f[n] \in Nat
    BY DEF Stage
  <2>2. \A e \in graph.edges : e.kind \in Requiring =>
          f[e.from] \in Nat /\ f[e.to] \in Nat /\ f[e.to] < f[e.from]
    <3> HIDE DEF f
    <3> QED
      BY <2>1 DEF WellDrawn
  <2> QED
    BY <2>2, DescentIsAcyclic
<1>2. Acyclic(graph.edges, {"rework_of"})
  <2> DEFINE Numbered == {Revision(k) : k \in 0..revised}
             f        == [n \in Numbered |-> CHOOSE k \in 0..revised : Revision(k) = n]
  <2>1. \A k \in 0..revised : f[Revision(k)] = k
    <3> SUFFICES ASSUME NEW k \in 0..revised PROVE f[Revision(k)] = k
      OBVIOUS
    <3>1. \A j \in 0..revised : Revision(j) = Revision(k) => j = k
      BY DEF History
    <3>2. f[Revision(k)] = CHOOSE j \in 0..revised : Revision(j) = Revision(k)
      OBVIOUS
    <3> QED
      BY <3>1, <3>2
  <2>2. \A e \in graph.edges : e.kind \in {"rework_of"} =>
          f[e.from] \in Nat /\ f[e.to] \in Nat /\ f[e.to] < f[e.from]
    <3> SUFFICES ASSUME NEW e \in Reworks
                 PROVE  f[e.from] \in Nat /\ f[e.to] \in Nat /\ f[e.to] < f[e.from]
      BY DEF Reworks
    <3>1. PICK k \in 1..revised : e.from = Revision(k) /\ e.to = Revision(k - 1)
      BY DEF History
    <3>2. k \in 0..revised /\ k - 1 \in 0..revised /\ k - 1 < k /\ k \in Nat /\ k - 1 \in Nat
      OBVIOUS
    <3>3. f[e.from] = k /\ f[e.to] = k - 1
      <4> HIDE DEF f
      <4> QED
        BY <2>1, <3>1, <3>2
    <3> QED
      BY <3>2, <3>3
  <2> HIDE DEF f
  <2> QED
    BY <2>2, DescentIsAcyclic
<1> QED
  BY <1>1, <1>2 DEF ValidGraph, WellDrawn, Requiring

\* a graph that no revision has touched
Unrevised(g) == WellDrawn(g) /\ \A e \in g.edges : e.kind # "rework_of"

\* The graph of the fast mode is well drawn.
LEMMA PlainIsDrawn == Unrevised(Plain)
BY DEF Unrevised, WellDrawn, Plain, Observed, Arc, KindOf, Stage, Requiring

\* WithVerifier, without and with a gate
OneVerifier == Observed({"verifier"}, Checked("worker", "verifier"), "verifier")
VerifierAndGate ==
  Observed({"verifier", "human_gate"},
           Checked("worker", "verifier") \cup {Arc("verifier", "human_gate", "requires_gate")},
           "human_gate")

\* So is the graph with one verifier,
LEMMA VerifierIsDrawn == Unrevised(OneVerifier)
<1>1. /\ OneVerifier.nodes = {"verifier", "router", "worker", "observer"}
      /\ OneVerifier.edges =
           Checked("worker", "verifier")
             \cup {Arc("router", "worker", "requires"), Arc("verifier", "observer", "observes")}
  BY DEF OneVerifier, Observed
<1> QED
  BY <1>1 DEF Unrevised, WellDrawn, Arc, Checked, KindOf, Stage, Requiring

\* the graph with a verifier and a gate, which hands over through both,
LEMMA GateIsDrawn == Unrevised(VerifierAndGate) /\ HandedOver(VerifierAndGate)
<1>1. /\ VerifierAndGate.nodes = {"verifier", "human_gate", "router", "worker", "observer"}
      /\ VerifierAndGate.edges =
           Checked("worker", "verifier")
             \cup {Arc("verifier", "human_gate", "requires_gate"),
                   Arc("router", "worker", "requires"), Arc("human_gate", "observer", "observes")}
  BY DEF VerifierAndGate, Observed
<1> QED
  BY <1>1 DEF Unrevised, WellDrawn, HandedOver, Arc, Checked, KindOf, Stage, Requiring

\* and the graph with two verifiers, their fan-in and a gate.
LEMMA ParallelIsDrawn == Unrevised(InParallel) /\ HandedOver(InParallel)
<1> DEFINE Both == UNION {Checked("worker", v) \cup Checked(v, "verifier_fanin") :
                            v \in {"verifier_normal", "verifier_adversarial"}}
<1>1. Both = Checked("worker", "verifier_normal") \cup Checked("verifier_normal", "verifier_fanin")
             \cup Checked("worker", "verifier_adversarial")
             \cup Checked("verifier_adversarial", "verifier_fanin")
  OBVIOUS
<1>2. /\ InParallel.nodes = {"verifier_normal", "verifier_adversarial", "verifier_fanin",
                             "human_gate", "router", "worker", "observer"}
      /\ InParallel.edges =
           Checked("worker", "verifier_normal") \cup Checked("verifier_normal", "verifier_fanin")
             \cup Checked("worker", "verifier_adversarial")
             \cup Checked("verifier_adversarial", "verifier_fanin")
             \cup {Arc("verifier_fanin", "human_gate", "requires_gate"),
                   Arc("router", "worker", "requires"), Arc("human_gate", "observer", "observes")}
  <2>1. InParallel = Observed({"verifier_normal", "verifier_adversarial", "verifier_fanin",
          "human_gate"}, Both \cup {Arc("verifier_fanin", "human_gate", "requires_gate")}, "human_gate")
    BY Zenon DEF InParallel
  <2> HIDE DEF Both
  <2> QED
    BY <2>1, <1>1 DEF Observed
<1> QED
  BY <1>2 DEF Unrevised, WellDrawn, HandedOver, Arc, Checked, KindOf, Stage, Requiring

\* the task's result goes to a human gate
Gated(asked) == \/ Selected(task, asked) = "critical"
                \/ Selected(task, asked) = "standard" /\ task.about.gate

Roles(first, second, gates) ==
  [router |-> Dispatcher, worker |-> Builder(task), verifier |-> first,
   verifier_normal |-> first, verifier_adversarial |-> second, human_gate |-> gates[1]]

AllQualified(checkers) == \A v \in checkers : v.kind = "verifier" /\ IndependentWorker(Builder(task), v)

Drawn(made, asked, first, second, gates) ==
  \/ made.graph = Plain /\ ~Gated(asked)
  \/ /\ made.graph = OneVerifier /\ ~Gated(asked)
     /\ made.fits => AllQualified({first})
  \/ /\ made.graph = VerifierAndGate
     /\ made.fits => AllQualified({first}) /\ PoolFits(gates, {Builder(task)} \cup {first})
  \/ /\ made.graph = InParallel
     /\ made.fits => AllQualified({first, second}) /\ PoolFits(gates, {Builder(task)} \cup {first, second})

\* A compilation rates the task and draws one of the four graphs, for roles it has checked.
LEMMA CompilationIs ==
  ASSUME NEW asked, NEW supplied, NEW pool
  PROVE  LET made  == Compilation(asked, supplied, pool)
             gates == IF pool = <<>> THEN DefaultPool ELSE pool
         IN  /\ made.task = [task EXCEPT !.mode = Selected(task, asked), !.risk = CompiledRisk(task)]
             /\ \E first, second : /\ made.roles = Roles(first, second, gates)
                                   /\ Drawn(made, asked, first, second, gates)
<1> DEFINE made   == Compilation(asked, supplied, pool)
           gates  == IF pool = <<>> THEN DefaultPool ELSE pool
           mode   == Selected(task, asked)
           double == mode = "critical" /\ task.about.parallel
           alone  == mode = "fast" \/ (mode = "standard" /\ ~ReviewTriggered(task))
           Given(i, name) == IF i \in DOMAIN supplied THEN supplied[i] ELSE DefaultVerifier(name)
           first  == Given(1, IF double THEN "normal" ELSE IF mode = "critical" THEN "critical"
                              ELSE "target")
           second == Given(2, "adversarial")
           checkers == IF alone THEN {} ELSE IF double THEN {first, second} ELSE {first}
           withGate  == mode = "critical" \/ task.about.gate
<1>1. /\ made.task = [task EXCEPT !.mode = mode, !.risk = CompiledRisk(task)]
      /\ made.graph = IF alone THEN Plain ELSE IF double THEN InParallel ELSE WithVerifier(withGate)
      /\ made.roles = Roles(first, second, gates)
      /\ made.fits => /\ AllQualified(checkers)
                      /\ (~alone /\ withGate) => PoolFits(gates, {Builder(task)} \cup checkers)
  BY DEF Compilation, Roles, AllQualified
<1>2. WithVerifier(withGate) = IF withGate THEN VerifierAndGate ELSE OneVerifier
  BY DEF WithVerifier, VerifierAndGate, OneVerifier
<1>3. Drawn(made, asked, first, second, gates)
  <2> HIDE DEF made, gates, Given, first, second
  <2>1. CASE alone
    <3>1. ~Gated(asked) /\ made.graph = Plain
      BY <1>1, <2>1 DEF Gated, ReviewTriggered
    <3> QED
      BY <3>1 DEF Drawn
  <2>2. CASE ~alone /\ double
    <3>1. checkers = {first, second} /\ withGate /\ made.graph = InParallel
      BY <1>1, <2>2
    <3> QED
      BY <1>1, <2>2, <3>1 DEF Drawn
  <2>3. CASE ~alone /\ ~double /\ withGate
    <3>1. checkers = {first} /\ made.graph = VerifierAndGate
      BY <1>1, <1>2, <2>3
    <3> QED
      BY <1>1, <2>3, <3>1 DEF Drawn
  <2>4. CASE ~alone /\ ~double /\ ~withGate
    <3>1. checkers = {first} /\ made.graph = OneVerifier /\ ~Gated(asked)
      BY <1>1, <1>2, <2>4 DEF Gated
    <3> QED
      BY <1>1, <2>4, <3>1 DEF Drawn
  <2> QED
    BY <2>1, <2>2, <2>3, <2>4
<1> QED
  BY <1>1, <1>3, Zenon

\* Whom a gate or a verifier is apart from is apart from it.
LEMMA ApartIsMutual ==
  ASSUME NEW a, NEW b, Apart(a, b)
  PROVE  Apart(b, a)
BY DEF Apart

\* The roles of a compilation that fits are apart.
LEMMA CrewIsApart ==
  ASSUME NEW asked \in Requested, NEW supplied \in Verifiers, NEW pool \in GatePools,
         Compile(asked, supplied, pool)
  PROVE  Manned'
<1> DEFINE made  == Compilation(asked, supplied, pool)
           gates == IF pool = <<>> THEN DefaultPool ELSE pool
           W == Builder(task)
           G == gates[1]
<1>1. PICK first, second : /\ made.roles = Roles(first, second, gates)
                           /\ Drawn(made, asked, first, second, gates)
  BY CompilationIs
<1>2. made.fits /\ crew' = Bound(made.graph.nodes \cap DOMAIN made.roles, made.roles)
  BY DEF Compile
<1>3. 1 \in DOMAIN gates \/ Cardinality(DOMAIN gates) = 0
  <2>1. CASE pool = <<>>
    BY <2>1 DEF DefaultPool
  <2>2. CASE pool # <<>>
    <3>1. Len(pool) \in Nat /\ DOMAIN pool = 1..Len(pool)
      BY TopologyAssumption
    <3>2. CASE Len(pool) = 0
      <4>1. DOMAIN pool = {}
        BY <3>1, <3>2
      <4> QED
        BY <2>2, <4>1, FS_EmptySet
    <3> QED
      BY <2>2, <3>1, <3>2
  <2> QED
    BY <2>1, <2>2
<1> HIDE DEF made, gates
<1>4. ASSUME NEW team, PoolFits(gates, team)
      PROVE  G.kind = "human_gate" /\ \A w \in team : Apart(G, w)
  <2>1. 1 \in DOMAIN gates
    BY <1>3, <1>4 DEF PoolFits
  <2> QED
    BY <1>4, <2>1 DEF PoolFits, IndependentModel
<1>5. ASSUME NEW vs, AllQualified(vs) PROVE \A v \in vs : v.kind = "verifier" /\ Apart(W, v)
  BY <1>5 DEF AllQualified, IndependentWorker
<1>6. W.kind = "worker"
  BY DEF Builder, Actor
<1> DEFINE Team(C) ==
             /\ \A v \in C : v.kind = "verifier" /\ Apart(W, v)
             /\ \A n \in DOMAIN crew' \ {"router"} :
                  \/ crew'[n] = W \/ crew'[n] \in C
                  \/ crew'[n] = G /\ G.kind = "human_gate" /\ \A w \in {W} \cup C : Apart(G, w)
<1>7. PICK C : Team(C)
  <2>1. /\ DOMAIN crew' = made.graph.nodes \cap
               {"router", "worker", "verifier", "verifier_normal", "verifier_adversarial", "human_gate"}
        /\ \A n \in DOMAIN crew' : crew'[n] = made.roles[n]
    BY <1>1, <1>2 DEF Bound, Roles
  <2>2. /\ made.roles["worker"] = W /\ made.roles["verifier"] = first
        /\ made.roles["verifier_normal"] = first /\ made.roles["verifier_adversarial"] = second
        /\ made.roles["human_gate"] = G
    BY <1>1 DEF Roles
  <2> HIDE DEF W, G
  <2>3. CASE made.graph = Plain
    <3>1. \A n \in DOMAIN crew' \ {"router"} : n = "worker"
      BY <2>1, <2>3 DEF Plain, Observed
    <3>2. Team({})
      BY <2>1, <2>2, <3>1
    <3> QED
      BY <3>2
  <2>4. CASE made.graph = OneVerifier /\ AllQualified({first})
    <3>1. \A n \in DOMAIN crew' \ {"router"} : n \in {"worker", "verifier"}
      BY <2>1, <2>4 DEF OneVerifier, Observed
    <3>2. Team({first})
      BY <1>5, <2>1, <2>2, <2>4, <3>1
    <3> QED
      BY <3>2
  <2>5. CASE made.graph = VerifierAndGate /\ AllQualified({first}) /\ PoolFits(gates, {W} \cup {first})
    <3>1. \A n \in DOMAIN crew' \ {"router"} : n \in {"worker", "verifier", "human_gate"}
      BY <2>1, <2>5 DEF VerifierAndGate, Observed
    <3>2. /\ G.kind = "human_gate" /\ \A w \in {W} \cup {first} : Apart(G, w)
          /\ \A v \in {first} : v.kind = "verifier" /\ Apart(W, v)
      BY <1>4, <1>5, <2>5
    <3>3. Team({first})
      BY <2>1, <2>2, <3>1, <3>2
    <3> QED
      BY <3>3
  <2>6. CASE /\ made.graph = InParallel /\ AllQualified({first, second})
             /\ PoolFits(gates, {W} \cup {first, second})
    <3>1. \A n \in DOMAIN crew' \ {"router"} :
            n \in {"worker", "verifier_normal", "verifier_adversarial", "human_gate"}
      BY <2>1, <2>6 DEF InParallel, Observed
    <3>2. /\ G.kind = "human_gate" /\ \A w \in {W} \cup {first, second} : Apart(G, w)
          /\ \A v \in {first, second} : v.kind = "verifier" /\ Apart(W, v)
      BY <1>4, <1>5, <2>6
    <3>3. Team({first, second})
      BY <2>1, <2>2, <3>1, <3>2
    <3> QED
      BY <3>3
  <2> HIDE DEF Team
  <2> QED
    BY <1>1, <1>2, <2>3, <2>4, <2>5, <2>6 DEF Drawn, W
<1> HIDE DEF W, G
<1> SUFFICES ASSUME NEW n \in DOMAIN crew', NEW m \in DOMAIN crew' \ {"router"}, n # "router",
                    crew'[n].kind # crew'[m].kind
             PROVE  Apart(crew'[n], crew'[m])
  BY DEF Manned
<1> QED
  BY <1>6, <1>7, ApartIsMutual

\* Compiled risks and modes are risks and modes.
LEMMA CompiledTypes ==
  ASSUME TaskKept, NEW asked \in Requested
  PROVE  /\ CompiledRisk(task) \in DOMAIN RiskRank /\ CompiledMode(task) \in DOMAIN ModeRank
         /\ Selected(task, asked) \in DOMAIN ModeRank
<1>1. task.mode \in DOMAIN ModeRank /\ asked \in DOMAIN ModeRank
  BY TopologyAssumption DEF TaskKept
<1>2. CompiledRisk(task) \in {"low", "medium", "high", "critical"}
  BY DEF CompiledRisk
<1>3. CompiledMode(task) \in {"fast", "standard", "critical"}
  BY DEF CompiledMode
<1> QED
  BY <1>1, <1>2, <1>3 DEF Selected, RiskRank, ModeRank

\* What a compilation writes into the task.
LEMMA CompiledTask ==
  ASSUME TaskKept, NEW asked \in Requested,
         task' = [task EXCEPT !.mode = Selected(task, asked), !.risk = CompiledRisk(task)]
  PROVE  /\ task'.mode = Selected(task, asked) /\ task'.risk = CompiledRisk(task)
         /\ task'.about = task.about /\ task'.state = task.state
         /\ task' \in [about : Tasks, risk : DOMAIN RiskRank, mode : DOMAIN ModeRank,
                       state : DOMAIN TaskTransitions]
<1> DEFINE mode == Selected(task, asked)
           risk == CompiledRisk(task)
<1>1. risk \in DOMAIN RiskRank /\ mode \in DOMAIN ModeRank
  BY CompiledTypes
<1>2. task' = [task EXCEPT !.mode = mode, !.risk = risk]
  OBVIOUS
<1>3. task \in [about : Tasks, risk : DOMAIN RiskRank, mode : DOMAIN ModeRank,
                state : DOMAIN TaskTransitions]
  BY DEF TaskKept
<1> HIDE DEF mode, risk
<1>4. /\ task'.mode = mode /\ task'.risk = risk
      /\ task'.about = task.about /\ task'.state = task.state
      /\ task' \in [about : Tasks, risk : DOMAIN RiskRank, mode : DOMAIN ModeRank,
                    state : DOMAIN TaskTransitions]
  <2>1. /\ task'.mode = mode /\ task'.risk = risk
        /\ task'.about = task.about /\ task'.state = task.state
    BY <1>2, <1>3
  <2>2. task' = [about |-> task.about, risk |-> risk, mode |-> mode, state |-> task.state]
    BY <1>2, <1>3
  <2>3. task.about \in Tasks /\ task.state \in DOMAIN TaskTransitions
    BY <1>3
  <2>4. \A R, M, T, A : task.about \in A /\ risk \in R /\ mode \in M /\ task.state \in T =>
          task' \in [about : A, risk : R, mode : M, state : T]
    BY <2>2
  <2>5. task' \in [about : Tasks, risk : DOMAIN RiskRank, mode : DOMAIN ModeRank,
                  state : DOMAIN TaskTransitions]
    BY <1>1, <2>3, <2>4, Zenon
  <2> QED
    BY <2>1, <2>5, Zenon
<1> QED
  BY <1>4 DEF mode, risk

\* The topology invariant holds at the start.
LEMMA InitTop == TInit => TopInv
<1> SUFFICES ASSUME TInit PROVE TopInv
  OBVIOUS
<1>1. graph.edges = {} /\ graph.nodes = {} /\ revised = 0 /\ ~escalated /\ DOMAIN crew = {}
  BY DEF TInit, NoGraph
<1>2. TaskKept
  BY <1>1, TopologyAssumption DEF TInit, TaskKept, RiskRank, ModeRank, TaskTransitions
<1>3. WellDrawn(graph) /\ HandedOver(graph) /\ AtTheGate /\ Manned
  BY <1>1 DEF WellDrawn, HandedOver, AtTheGate, Manned
<1>4. History
  <2>1. Reworks = {}
    BY <1>1 DEF Reworks
  <2> QED
    BY <1>1, <2>1, FS_EmptySet DEF History
<1> QED
  BY <1>2, <1>3, <1>4 DEF TopInv

\* A compilation keeps the invariant: its graph is one of the four.
LEMMA CompileKept ==
  ASSUME TopInv, NEW asked \in Requested, NEW supplied \in Verifiers, NEW pool \in GatePools,
         Compile(asked, supplied, pool)
  PROVE  TopInv'
<1> DEFINE made  == Compilation(asked, supplied, pool)
           gates == IF pool = <<>> THEN DefaultPool ELSE pool
<1>1. PICK first, second : Drawn(made, asked, first, second, gates)
  BY CompilationIs
<1>0. made.task = [task EXCEPT !.mode = Selected(task, asked), !.risk = CompiledRisk(task)]
  BY CompilationIs
<1>2. /\ task' = made.task /\ graph' = made.graph /\ revised' = revised /\ escalated' = escalated
      /\ revised = 0 /\ ~escalated /\ refused' = FALSE
  BY DEF Compile, MayCompile
<1> HIDE DEF made, gates
<1>3. /\ Unrevised(graph')
      /\ Gated(asked) => HandedOver(graph')
  BY <1>1, <1>2, PlainIsDrawn, VerifierIsDrawn, GateIsDrawn, ParallelIsDrawn DEF Drawn
<1>4. TaskKept /\ TaskKept'
  BY <1>0, <1>2, CompiledTask DEF TopInv, TaskKept
<1>5. Demanding' => HandedOver(graph')
  <2>1. task'.mode = Selected(task, asked) /\ task'.about = task.about
    BY <1>0, <1>2, <1>4, CompiledTask
  <2>2. Demanding' => Gated(asked)
    BY <2>1 DEF Demanding, Gated
  <2> QED
    BY <1>3, <2>2
<1>6. History'
  <2>1. Reworks' = {}
    BY <1>3 DEF Reworks, Unrevised
  <2> QED
    BY <1>2, <2>1, FS_EmptySet DEF History
<1>7. AtTheGate' /\ Manned'
  BY <1>2, CrewIsApart DEF AtTheGate
<1>8. WellDrawn(graph)'
  BY <1>3 DEF Unrevised, WellDrawn
<1>9. HandedOver(graph)' \/ ~Demanding'
  BY <1>5 DEF HandedOver
<1> QED
  BY <1>4, <1>6, <1>7, <1>8, <1>9 DEF TopInv

\* A refused one leaves the graph, which no longer counts.
LEMMA RefusalKept ==
  ASSUME TopInv, NEW asked \in Requested, NEW supplied \in Verifiers, NEW pool \in GatePools,
         CompileRefused(asked, supplied, pool)
  PROVE  TopInv'
<1>1. /\ task' = [task EXCEPT !.mode = Selected(task, asked), !.risk = CompiledRisk(task)]
      /\ graph' = graph /\ revised' = revised /\ escalated' = escalated /\ crew' = crew
      /\ refused' = TRUE
  BY CompilationIs DEF CompileRefused
<1>2. TaskKept'
  BY <1>1, CompiledTask DEF TopInv, TaskKept
<1>3. WellDrawn(graph)' /\ History' /\ AtTheGate' /\ Manned'
  BY <1>1 DEF TopInv, WellDrawn, History, Reworks, AtTheGate, Manned
<1> QED
  BY <1>1, <1>2, <1>3 DEF TopInv

\* A change of the task's state alone keeps what is asked of the graph.
LEMMA StateKept ==
  ASSUME TaskKept, NEW to \in DOMAIN TaskTransitions, task' = [task EXCEPT !.state = to]
  PROVE  /\ task' \in [about : Tasks, risk : DOMAIN RiskRank, mode : DOMAIN ModeRank,
                       state : DOMAIN TaskTransitions]
         /\ task'.about = task.about /\ task'.mode = task.mode /\ task'.risk = task.risk
         /\ Demanding' = Demanding
<1>1. /\ task' \in [about : Tasks, risk : DOMAIN RiskRank, mode : DOMAIN ModeRank,
                    state : DOMAIN TaskTransitions]
      /\ task'.about = task.about /\ task'.mode = task.mode /\ task'.risk = task.risk
  BY DEF TaskKept
<1> QED
  BY <1>1 DEF Demanding

\* A transition of the task keeps the invariant.
LEMMA TransitionKept ==
  ASSUME TopInv, NEW to \in DOMAIN TaskTransitions, TransitionTask(to)
  PROVE  TopInv'
<1>1. /\ task' = [task EXCEPT !.state = to] /\ graph' = graph /\ revised' = revised
      /\ escalated' = escalated /\ crew' = crew /\ refused' = refused
  BY DEF TransitionTask
<1>2. TaskKept' /\ Demanding' = Demanding
  BY <1>1, StateKept DEF TopInv, TaskKept
<1>3. WellDrawn(graph)' /\ History' /\ AtTheGate' /\ Manned'
  BY <1>1 DEF TopInv, WellDrawn, History, Reworks, AtTheGate, Manned
<1>4. (Demanding /\ ~refused)' => HandedOver(graph)'
  BY <1>1, <1>2 DEF TopInv, HandedOver
<1> QED
  BY <1>2, <1>3, <1>4 DEF TopInv

\* What the nodes of revisions are: workers, and so none of the others.
LEMMA RevisionsAreWork ==
  ASSUME NEW k \in 0..MaxRevisions
  PROVE  /\ KindOf(Revision(k)) = "worker" /\ Stage(Revision(k)) \in {4}
         /\ Revision(k) \notin {"observer", "human_gate", "escalation"}
<1> DEFINE n == Revision(k)
<1>1. KindOf(n) = "worker"
  BY NamesAssumption
<1> HIDE DEF n
<1>2. n \notin {"observer", "human_gate", "escalation", "router", "verifier", "verifier_normal",
                "verifier_adversarial", "verifier_fanin"}
  BY <1>1 DEF KindOf
<1>3. Stage(n) = 4
  BY <1>2 DEF Stage
<1> QED
  BY <1>1, <1>2, <1>3 DEF n

\* A node and an edge more keep a graph well drawn.
LEMMA MoreIsDrawn ==
  ASSUME NEW g, WellDrawn(g), NEW n, NEW e, NEW h,
         h.nodes = g.nodes \cup {n}, h.edges = g.edges \cup {e},
         KindOf(n) # "verifier", {e.from, e.to} \subseteq h.nodes, e.from # e.to,
         e.kind \in Requiring => Stage(e.to) < Stage(e.from)
  PROVE  WellDrawn(h)
BY DEF WellDrawn

\* A revision keeps it: its node is new and comes after the others.
LEMMA ReviseKept ==
  ASSUME TopInv, Revise
  PROVE  TopInv'
<1> DEFINE next == revised + 1
           e    == Arc(Revision(next), Revision(revised), "rework_of")
<1>1. /\ task' = [task EXCEPT !.state = "ready"] /\ revised' = next /\ revised < MaxRevisions
      /\ graph'.nodes = graph.nodes \cup {Revision(next)} /\ graph'.edges = graph.edges \cup {e}
      /\ Revision(revised) \in graph.nodes /\ Revision(next) \notin graph.nodes
      /\ escalated' = escalated /\ crew' = crew /\ refused' = refused
  BY DEF Revise
<1>2. /\ revised \in Nat /\ MaxRevisions \in Nat /\ next \in 0..MaxRevisions
      /\ revised \in 0..MaxRevisions /\ TaskKept
  BY <1>1, TopologyAssumption DEF TopInv, TaskKept
<1>3. TaskKept' /\ Demanding' = Demanding
  <2>1. "ready" \in DOMAIN TaskTransitions
    BY DEF TaskTransitions
  <2> QED
    BY <1>1, <1>2, <2>1, StateKept DEF TaskKept
<1>4. /\ e.from = Revision(next) /\ e.to = Revision(revised) /\ e.kind = "rework_of"
      /\ KindOf(Revision(next)) = "worker" /\ Revision(next) # Revision(revised)
      /\ Revision(revised) \notin {"observer", "human_gate", "escalation"}
  BY <1>1, <1>2, RevisionsAreWork DEF Arc
<1> HIDE DEF e
<1>5. WellDrawn(graph)'
  <2>1. WellDrawn(graph) /\ "rework_of" \notin Requiring
    BY DEF TopInv, Requiring
  <2>2. WellDrawn(graph')
    <3> DEFINE h == graph'
    <3>1. /\ h.nodes = graph.nodes \cup {Revision(next)} /\ h.edges = graph.edges \cup {e}
          /\ KindOf(Revision(next)) # "verifier" /\ {e.from, e.to} \subseteq h.nodes
          /\ e.from # e.to /\ e.kind \notin Requiring
      BY <1>1, <1>4, <2>1
    <3> HIDE DEF h
    <3>2. WellDrawn(h)
      BY <2>1, <3>1, MoreIsDrawn
    <3> QED
      BY <3>2 DEF h
  <2> QED
    BY <2>2 DEF WellDrawn
<1>6. History'
  <2>1. Reworks' = Reworks \cup {e}
    BY <1>1, <1>4 DEF Reworks
  <2>2. IsFiniteSet(Reworks') /\ Cardinality(Reworks') <= revised'
    <3>1. IsFiniteSet(Reworks) /\ Cardinality(Reworks) <= revised
      BY DEF TopInv, History
    <3>2. Cardinality(Reworks) \in Nat
      BY <3>1, FS_CardinalityType
    <3>3. /\ IsFiniteSet(Reworks \cup {e})
          /\ Cardinality(Reworks \cup {e}) \in {Cardinality(Reworks), Cardinality(Reworks) + 1}
      BY <3>1, FS_AddElement
    <3> QED
      BY <1>1, <1>2, <2>1, <3>1, <3>2, <3>3
  <2>3. \A j \in 0..revised : Revision(j) \in graph.nodes
    BY <1>1, <1>2 DEF TopInv, History
  <2>4. \A j \in 0..next : j \in 0..revised \/ j = next
    BY <1>2
  <2>5. \A j \in 0..next : Revision(j) \in graph'.nodes
    BY <1>1, <2>3, <2>4
  <2>6. \A i, j \in 0..next : Revision(i) = Revision(j) => i = j
    <3>1. \A i, j \in 0..revised : Revision(i) = Revision(j) => i = j
      BY DEF TopInv, History
    <3> QED
      BY <1>1, <2>3, <2>4, <3>1
  <2>7. \A d \in Reworks' : \E k \in 1..next : d.from = Revision(k) /\ d.to = Revision(k - 1)
    <3> SUFFICES ASSUME NEW d \in Reworks'
                 PROVE  \E k \in 1..next : d.from = Revision(k) /\ d.to = Revision(k - 1)
      OBVIOUS
    <3>1. CASE d = e
      <4>1. next \in 1..next /\ next - 1 = revised
        BY <1>2
      <4> QED
        BY <1>4, <3>1, <4>1
    <3>2. CASE d \in Reworks
      <4>1. PICK k \in 1..revised : d.from = Revision(k) /\ d.to = Revision(k - 1)
        BY <3>2 DEF TopInv, History
      <4>2. k \in 1..next
        BY <1>2
      <4> QED
        BY <4>1, <4>2
    <3> QED
      BY <2>1, <3>1, <3>2
  <2>8. \A j : Revision(j)' = Revision(j)
    BY DEF Revision
  <2> HIDE DEF next
  <2> QED
    BY <1>1, <2>2, <2>5, <2>6, <2>7, <2>8 DEF History
<1>7. AtTheGate' /\ Manned'
  <2>1. ~escalated
    BY <1>1, <1>2 DEF TopInv, AtTheGate
  <2> QED
    BY <1>1, <2>1 DEF TopInv, AtTheGate, Manned
<1>8. (Demanding /\ ~refused)' => HandedOver(graph)'
  BY <1>1, <1>3, <1>4 DEF TopInv, HandedOver
<1> QED
  BY <1>3, <1>5, <1>6, <1>7, <1>8 DEF TopInv

\* So does the gate at the limit, from which no edge leads away.
LEMMA EscalateKept ==
  ASSUME TopInv, Escalate
  PROVE  TopInv'
<1> DEFINE e == Arc(Revision(revised), "escalation", "requires_gate")
<1>1. /\ task' = [task EXCEPT !.state = "escalated"] /\ revised' = revised /\ revised >= MaxRevisions
      /\ graph'.nodes = graph.nodes \cup {"escalation"} /\ graph'.edges = graph.edges \cup {e}
      /\ Revision(revised) \in graph.nodes
      /\ escalated' = TRUE /\ crew' = crew /\ refused' = refused
  BY DEF Escalate
<1>2. /\ MaxRevisions \in Nat /\ revised = MaxRevisions /\ revised \in 0..MaxRevisions /\ TaskKept
  BY <1>1, TopologyAssumption DEF TopInv, TaskKept
<1>3. TaskKept' /\ Demanding' = Demanding
  <2>1. "escalated" \in DOMAIN TaskTransitions
    BY DEF TaskTransitions
  <2> QED
    BY <1>1, <1>2, <2>1, StateKept DEF TaskKept
<1>4. /\ e.from = Revision(revised) /\ e.to = "escalation" /\ e.kind = "requires_gate"
      /\ Stage(e.to) < Stage(e.from) /\ e.from # e.to
  <2>1. Stage("escalation") = 0
    BY DEF Stage
  <2> QED
    BY <1>2, <2>1, RevisionsAreWork DEF Arc
<1> HIDE DEF e
<1>5. WellDrawn(graph)'
  <2>1. WellDrawn(graph) /\ KindOf("escalation") # "verifier"
    BY DEF TopInv, KindOf
  <2>2. WellDrawn(graph')
    <3> DEFINE h == graph'
    <3>1. /\ h.nodes = graph.nodes \cup {"escalation"} /\ h.edges = graph.edges \cup {e}
          /\ {e.from, e.to} \subseteq h.nodes
      BY <1>1, <1>4
    <3> HIDE DEF h
    <3>2. WellDrawn(h)
      BY <1>4, <2>1, <3>1, MoreIsDrawn
    <3> QED
      BY <3>2 DEF h
  <2> QED
    BY <2>2 DEF WellDrawn
<1>6. History'
  <2>1. Reworks' = Reworks
    BY <1>1, <1>4 DEF Reworks
  <2>2. \A j : Revision(j)' = Revision(j)
    BY DEF Revision
  <2> QED
    BY <1>1, <2>1, <2>2 DEF TopInv, History
<1>7. AtTheGate' /\ Manned'
  BY <1>1, <1>2, <1>4 DEF TopInv, AtTheGate, Manned
<1>8. (Demanding /\ ~refused)' => HandedOver(graph)'
  BY <1>1, <1>3, <1>4 DEF TopInv, HandedOver
<1> QED
  BY <1>3, <1>5, <1>6, <1>7, <1>8 DEF TopInv

\* A compilation lowers neither the risk nor the mode.
LEMMA CompiledIsNoLower ==
  ASSUME TaskKept, task.about \in Tasks, NEW asked \in Requested,
         task' = [task EXCEPT !.mode = Selected(task, asked), !.risk = CompiledRisk(task)]
  PROVE  NeverDowngraded
<1>1. /\ task'.mode = Selected(task, asked) /\ task'.risk = CompiledRisk(task)
      /\ task'.about = task.about
  BY CompiledTask
<1>2. /\ task.about.uncertainty \in Nat /\ task.about.scope \in Nat
      /\ task.risk \in {"low", "medium", "high", "critical"}
      /\ task.mode \in {"none", "fast", "standard", "critical"}
      /\ asked \in {"none", "fast", "standard", "critical"}
  BY TopologyAssumption DEF TaskKept, RiskRank, ModeRank
<1>3. RiskRank[CompiledRisk(task)] >= RiskRank[task.risk]
  <2>1. CASE HardTriggers(task)
    <3>1. CompiledRisk(task) = "critical"
      BY <2>1 DEF CompiledRisk
    <3> QED
      BY <1>2, <3>1 DEF RiskRank
  <2>2. CASE ~HardTriggers(task)
    <3>1. task.risk \in {"low", "medium", "high"}
      BY <1>2, <2>2 DEF HardTriggers
    <3>2. CASE task.risk = "high"
      <4>1. CompiledRisk(task) = "high"
        BY <2>2, <3>2 DEF CompiledRisk, RiskRank
      <4> QED
        BY <3>2, <4>1 DEF RiskRank
    <3>3. CASE task.risk = "medium"
      <4>1. Score(task) \in Nat /\ Score(task) >= 3 /\ RiskRank[task.risk] < 2
        BY <1>2, <3>3 DEF Score, RiskRank
      <4>2. CompiledRisk(task) \in {"high", "medium"}
        <5> HIDE DEF Score
        <5> QED
          BY <2>2, <4>1 DEF CompiledRisk
      <4> QED
        BY <3>3, <4>2 DEF RiskRank
    <3>4. CASE task.risk = "low"
      <4>1. CompiledRisk(task) \in {"critical", "high", "medium", "low"}
        BY DEF CompiledRisk
      <4> QED
        BY <3>4, <4>1 DEF RiskRank
    <3> QED
      BY <3>1, <3>2, <3>3, <3>4
  <2> QED
    BY <2>1, <2>2
<1>4. ModeRank[Selected(task, asked)] >= ModeRank[CompiledMode(task)]
  <2>1. CompiledMode(task) \in {"fast", "standard", "critical"}
    BY DEF CompiledMode
  <2> QED
    BY <1>2, <2>1 DEF Selected, ModeRank
<1>5. ModeRank[CompiledMode(task)] >= ModeRank[CompiledMode(task')]
  <2>1. HardTriggers(task') = HardTriggers(task)
    BY <1>1, <1>2 DEF HardTriggers, CompiledRisk
  <2>2. Doubt(task') = Doubt(task)
    BY <1>1 DEF Doubt
  <2>3. CompiledRisk(task) = "low" => CompiledRisk(task') = "low"
    <3> SUFFICES ASSUME CompiledRisk(task) = "low" PROVE CompiledRisk(task') = "low"
      OBVIOUS
    <3>1. task.risk = "low" /\ ~HardTriggers(task)
      <4>1. /\ ~HardTriggers(task)
            /\ ~(Score(task) >= 7 \/ RiskRank[task.risk] >= 2)
            /\ ~(Score(task) \in 3..6 /\ RiskRank[task.risk] < 2)
        BY DEF CompiledRisk
      <4>2. task.risk \notin {"high", "critical"}
        BY <4>1 DEF RiskRank
      <4>3. task.risk # "medium"
        <5> SUFFICES ASSUME task.risk = "medium" PROVE FALSE
          OBVIOUS
        <5>1. RiskRank[task.risk] = 1
          BY DEF RiskRank
        <5>2. Score(task) \in Nat /\ Score(task) >= 3
          BY <1>2, <5>1 DEF Score
        <5> QED
          BY <4>1, <5>1, <5>2
      <4> QED
        BY <1>2, <4>1, <4>2, <4>3
    <3>2. task'.risk = task.risk /\ Score(task') = Score(task)
      BY <1>1, <3>1 DEF Score
    <3> QED
      BY <2>1, <3>1, <3>2 DEF CompiledRisk
  <2> QED
    BY <2>1, <2>2, <2>3 DEF CompiledMode, ModeRank
<1>6. /\ ModeRank[Selected(task, asked)] \in Nat /\ ModeRank[CompiledMode(task)] \in Nat
      /\ ModeRank[CompiledMode(task')] \in Nat
  BY CompiledTypes, <1>5 DEF ModeRank, CompiledMode
<1> QED
  BY <1>1, <1>3, <1>4, <1>5, <1>6 DEF NeverDowngraded

\* Every step of the topology keeps its invariant, and lowers nothing.
LEMMA TopStep ==
  ASSUME TopInv, [TNext]_tvars
  PROVE  TopInv' /\ [NeverDowngraded]_tvars
<1>1. ASSUME NEW asked \in Requested, NEW supplied \in Verifiers, NEW pool \in GatePools,
             Compile(asked, supplied, pool) \/ CompileRefused(asked, supplied, pool)
      PROVE  TopInv' /\ NeverDowngraded
  <2>1. task' = [task EXCEPT !.mode = Selected(task, asked), !.risk = CompiledRisk(task)]
    BY <1>1, CompilationIs DEF Compile, CompileRefused
  <2>2. TaskKept /\ task.about \in Tasks
    BY DEF TopInv, TaskKept
  <2> QED
    BY <1>1, <2>1, <2>2, CompileKept, RefusalKept, CompiledIsNoLower
<1>2. ASSUME NEW to \in DOMAIN TaskTransitions, task' = [task EXCEPT !.state = to]
      PROVE  NeverDowngraded
  <2>1. task'.risk = task.risk /\ task'.mode = task.mode
    BY <1>2, StateKept DEF TopInv
  <2>2. task.risk \in DOMAIN RiskRank
    BY DEF TopInv, TaskKept
  <2> QED
    BY <2>1, <2>2 DEF NeverDowngraded, RiskRank
<1>3. CASE Revise
  <2>1. task' = [task EXCEPT !.state = "ready"] /\ "ready" \in DOMAIN TaskTransitions
    BY <1>3 DEF Revise, TaskTransitions
  <2> QED
    BY <1>2, <1>3, <2>1, ReviseKept
<1>4. CASE Escalate
  <2>1. task' = [task EXCEPT !.state = "escalated"] /\ "escalated" \in DOMAIN TaskTransitions
    BY <1>4 DEF Escalate, TaskTransitions
  <2> QED
    BY <1>2, <1>4, <2>1, EscalateKept
<1>5. ASSUME NEW to \in DOMAIN TaskTransitions, TransitionTask(to)
      PROVE  TopInv' /\ NeverDowngraded
  <2>1. task' = [task EXCEPT !.state = to]
    BY <1>5 DEF TransitionTask
  <2> QED
    BY <1>2, <1>5, <2>1, TransitionKept
<1>6. CASE UNCHANGED tvars
  <2>1. /\ TaskKept' /\ WellDrawn(graph)' /\ History' /\ AtTheGate' /\ Manned'
        /\ (Demanding /\ ~refused)' => HandedOver(graph)'
    BY <1>6 DEF tvars, TopInv, TaskKept, WellDrawn, History, Reworks, AtTheGate, Manned, Demanding,
                HandedOver
  <2> QED
    BY <1>6, <2>1 DEF TopInv
<1> QED
  BY <1>1, <1>3, <1>4, <1>5, <1>6 DEF TNext

\* What is asked of the reviewed graph follows from the invariant.
LEMMA TopStands ==
  ASSUME TopInv
  PROVE  ReviewStands
<1>1. revised \in Nat /\ MaxRevisions \in Nat /\ revised <= MaxRevisions
  BY TopologyAssumption DEF TopInv, TaskKept
<1>2. ValidGraph
  BY <1>1, DrawnIsValid DEF TopInv
<1>3. Cardinality({e \in graph.edges : e.kind = "rework_of"}) <= MaxRevisions
  <2>1. IsFiniteSet(Reworks) /\ Cardinality(Reworks) <= revised
    BY DEF TopInv, History
  <2>2. Cardinality(Reworks) \in Nat
    BY <2>1, FS_CardinalityType
  <2>3. Cardinality(Reworks) <= MaxRevisions
    BY <1>1, <2>1, <2>2
  <2> QED
    BY <2>3 DEF Reworks
<1> QED
  BY <1>2, <1>3 DEF TopInv, ReviewStands, AtTheGate, Manned, HandedOver

(***************************************************************************)
(* Whatever tasks are compiled, with whatever modes, verifiers and gates   *)
(* asked for and however often, no compilation lowers a risk or a mode     *)
(* (compile_risk, compile_topology); the graph is valid, its reviewers are *)
(* apart, a critical result passes a verifier and then the gate; and       *)
(* revisions keep it acyclic and end at the gate, for any limit            *)
(* (validate_graph, RevisionController.record).                            *)
(***************************************************************************)
THEOREM TopologyIsSound == TSpec => TopologyHolds
<1>1. TopInv => ReviewStands
  BY TopStands
<1> QED
  BY <1>1, InitTop, TopStep, PTL DEF TSpec, TopologyHolds

\* The types of the topology: besides the task, of the flags and of the crew.
TTypes == TopInv /\ {escalated, refused} \subseteq BOOLEAN /\ DOMAIN crew \subseteq graph.nodes

\* The types hold at the start.
LEMMA TTypesInit == TInit => TTypes
<1> SUFFICES ASSUME TInit PROVE TTypes
  OBVIOUS
<1>1. DOMAIN crew = {} /\ escalated = FALSE /\ refused = FALSE
  BY DEF TInit
<1> QED
  BY <1>1, InitTop DEF TTypes

\* Every step of the topology keeps the types.
LEMMA TTypesStep == TTypes /\ [TNext]_tvars => TTypes'
<1> SUFFICES ASSUME TTypes, [TNext]_tvars PROVE TTypes'
  OBVIOUS
<1>1. TopInv'
  BY TopStep DEF TTypes
<1>2. CASE UNCHANGED tvars
  BY <1>1, <1>2 DEF TTypes, tvars
<1>3. ASSUME NEW asked \in Requested, NEW supplied \in Verifiers, NEW pool \in GatePools,
             Compile(asked, supplied, pool)
      PROVE  TTypes'
  <2> DEFINE made == Compilation(asked, supplied, pool)
  <2>1. /\ graph' = made.graph /\ crew' = Bound(made.graph.nodes \cap DOMAIN made.roles, made.roles)
        /\ refused' = FALSE /\ escalated' = escalated
    BY <1>3 DEF Compile
  <2> HIDE DEF made
  <2>2. DOMAIN crew' \subseteq graph'.nodes
    BY <2>1 DEF Bound
  <2> QED
    BY <1>1, <2>1, <2>2 DEF TTypes
<1>4. ASSUME NEW asked \in Requested, NEW supplied \in Verifiers, NEW pool \in GatePools,
             CompileRefused(asked, supplied, pool)
      PROVE  TTypes'
  BY <1>1, <1>4 DEF CompileRefused, TTypes
<1>5. CASE Revise
  <2>1. graph.nodes \subseteq graph'.nodes /\ UNCHANGED <<crew, escalated, refused>>
    BY <1>5 DEF Revise
  <2> QED
    BY <1>1, <2>1 DEF TTypes
<1>6. CASE Escalate
  <2>1. graph.nodes \subseteq graph'.nodes /\ UNCHANGED <<crew, refused>> /\ escalated' = TRUE
    BY <1>6 DEF Escalate
  <2> QED
    BY <1>1, <2>1 DEF TTypes
<1>7. ASSUME NEW to \in DOMAIN TaskTransitions, TransitionTask(to) PROVE TTypes'
  BY <1>1, <1>7 DEF TransitionTask, TTypes
<1> QED
  BY <1>2, <1>3, <1>4, <1>5, <1>6, <1>7 DEF TNext

\* The types are those the run checks.
LEMMA TTypesAre == TTypes => TTypeOK
BY DEF TTypes, TTypeOK, TopInv, TaskKept
-----------------------------------------------------------------------------
(* The dashboard, for any number of connections, of events and of drops.   *)

\* The types of the dashboard: a piece of an event is of one within the bound,
\* and a handler sends events it has read.
DTypes ==
  /\ DTypeOK
  /\ partial => length < MaxLength
  /\ stream.last <= stream.upto /\ (stream.at \in {"opened", "snapped"} => stream.last = 0)

Handlers == [at : {"closed", "opened", "snapped", "replay", "live", "gap"},
             last : 0..MaxLength, upto : 0..MaxLength, snapshot : 0..MaxLength]
Messages == [is : {"nothing", "snapshot", "event", "heartbeat", "gap", "error"},
             snapshot : 0..MaxLength]
Requests == [at : {"unused", "asked", "answered"}, first : BOOLEAN, snapshot : 0..MaxLength]

\* What a handler may have become
Serves(s) ==
  /\ s \in Handlers /\ s.last <= s.upto
  /\ s.at \in {"opened", "snapped"} => s.last = 0

\* The constants of the page and the handler are of their types.
LEMMA Fixed ==
  /\ Serves(Closed) /\ Serves(Opened) /\ Silence \in Messages /\ Unused \in Requests
BY DashboardAssumption DEF Serves, Handlers, Messages, Requests, Closed, Opened, Silence, Message,
                           Unused

\* The messages of the stream are messages.
LEMMA Tidings ==
  \A is \in {"event", "heartbeat", "gap", "error"} : Message(is, 0) \in Messages
BY DashboardAssumption DEF Messages, Message

\* The request for a snapshot is one.
LEMMA RequestsAre == \A first \in BOOLEAN : Asked(first) \in Requests
BY DashboardAssumption DEF Asked, Requests

\* The types hold at the start.
LEMMA DTypesInit == DInit => DTypes
<1> SUFFICES ASSUME DInit PROVE DTypes
  OBVIOUS
<1>1. /\ Serves(stream) /\ wire \in Messages /\ fetch \in [Fetches -> Requests]
  BY Fixed DEF DInit
<1>2. /\ length \in 1..MaxLength /\ display \in 0..MaxLength
      /\ partial = FALSE /\ timer = FALSE
  BY DashboardAssumption DEF DInit
<1>3. connects \in 0..MaxConnects /\ drops \in 0..MaxDrops
  BY DashboardAssumption DEF DInit
<1> QED
  BY <1>1, <1>2, <1>3 DEF DTypes, DTypeOK, Serves, Handlers, Messages, Requests

\* What the journal may have become, and the rest of the page
Grows == length' \in 1..MaxLength /\ partial' \in BOOLEAN /\ (partial' => length' < MaxLength)
Counts == connects' \in 0..MaxConnects /\ drops' \in 0..MaxDrops

\* The types after a step, part by part
LEMMA DTypesAfter ==
  ASSUME Grows, Counts, Serves(stream'), wire' \in Messages, fetch' \in [Fetches -> Requests],
         timer' \in BOOLEAN, display' \in 0..MaxLength
  PROVE  DTypes'
BY DEF Grows, Counts, Serves, DTypes, DTypeOK, Handlers, Messages, Requests

\* The types of a state, part by part
LEMMA DTypesNow ==
  ASSUME DTypes
  PROVE  /\ Serves(stream) /\ wire \in Messages /\ fetch \in [Fetches -> Requests]
         /\ timer \in BOOLEAN /\ display \in 0..MaxLength
         /\ UNCHANGED fileVars => Grows
         /\ UNCHANGED <<connects, drops>> => Counts
         /\ MaxLength \in Nat /\ length \in Nat /\ length <= MaxLength /\ 1 <= length
BY DashboardAssumption
   DEF Grows, Counts, Serves, DTypes, DTypeOK, Handlers, Messages, Requests, fileVars

\* The handler's steps keep the types.
LEMMA HandlerTyped ==
  ASSUME DTypes, Handler
  PROVE  DTypes'
<1> DEFINE Rest == UNCHANGED <<fileVars, fetch, timer, display, connects, drops>>
<1>1. Rest
  BY DEF Handler, ReadSnapshot, ReadReplay, SendGap, SendEvent, Heartbeat, PollJournal, ReadFails
<1>2. SUFFICES Serves(stream') /\ wire' \in Messages
  BY <1>1, DTypesNow, DTypesAfter
<1>3. /\ Serves(stream) /\ wire \in Messages
      /\ MaxLength \in Nat /\ length \in Nat /\ length <= MaxLength /\ 1 <= length
  BY DTypesNow
<1>4. CASE ReadSnapshot
  <2>1. /\ stream' = [stream EXCEPT !.at = "snapped", !.snapshot = length] /\ wire' = wire
        /\ stream.last = 0 /\ stream \in Handlers
    BY <1>3, <1>4 DEF ReadSnapshot, Serves
  <2>2. stream' \in Handlers /\ stream'.last = stream.last /\ stream'.upto = stream.upto
    <3>1. length \in 0..MaxLength
      BY <1>3
    <3> QED
      BY <2>1, <3>1 DEF Handlers
  <2> QED
    BY <1>3, <2>1, <2>2 DEF Serves
<1>5. CASE ReadReplay
  <2>1. PICK kept \in Kept :
          stream' = [stream EXCEPT !.at = IF Gap(0, Oldest(kept)) THEN "gap" ELSE "replay",
                                   !.upto = kept]
    BY <1>5 DEF ReadReplay
  <2>2. PICK p \in {"gap", "replay"} : stream' = [stream EXCEPT !.at = p, !.upto = kept]
    BY <2>1
  <2>3. kept \in 0..MaxLength
    BY <1>3 DEF Kept
  <2>4. stream.last = 0 /\ wire' = Message("snapshot", stream.snapshot)
    BY <1>3, <1>5 DEF ReadReplay, Serves
  <2>5. wire' \in Messages
    BY <1>3, <2>4 DEF Serves, Handlers, Messages, Message
  <2>6. stream' \in Handlers /\ stream'.at = p /\ stream'.last = 0 /\ stream'.upto = kept
    BY <1>3, <2>2, <2>3, <2>4 DEF Serves, Handlers
  <2> QED
    BY <2>3, <2>5, <2>6 DEF Serves
<1>6. CASE SendGap \/ ReadFails
  <2>1. stream' = Closed /\ (wire' = Message("gap", 0) \/ wire' = Message("error", 0))
    BY <1>6 DEF SendGap, ReadFails
  <2> QED
    BY <2>1, Fixed, Tidings
<1>7. CASE SendEvent
  <2>1. /\ stream' = [stream EXCEPT !.last = stream.last + 1] /\ wire' = Message("event", 0)
        /\ stream.at \in {"replay", "live"} /\ stream.last # stream.upto
    BY <1>7 DEF SendEvent, Sent
  <2>2. stream.last + 1 \in 0..MaxLength /\ stream.last + 1 <= stream.upto
    BY <1>3, <2>1 DEF Serves, Handlers
  <2> QED
    BY <1>3, <2>1, <2>2 DEF Serves, Handlers, Messages, Message
<1>8. CASE Heartbeat
  <2>1. stream' = [stream EXCEPT !.at = "live"] /\ wire' = Message("heartbeat", 0)
    BY <1>8 DEF Heartbeat
  <2> QED
    BY <1>3, <2>1, Tidings DEF Serves, Handlers
<1>9. CASE PollJournal
  <2>1. PICK kept \in Kept :
          /\ stream.last < kept
          /\ stream' = IF Gap(stream.last, Oldest(kept)) THEN [stream EXCEPT !.at = "gap"]
                       ELSE [stream EXCEPT !.upto = kept]
    BY <1>9 DEF PollJournal
  <2>2. stream' = [stream EXCEPT !.at = "gap"] \/ stream' = [stream EXCEPT !.upto = kept]
    BY <2>1
  <2>3. kept \in 0..MaxLength /\ stream.at = "live" /\ wire' = wire
    BY <1>3, <1>9 DEF Kept, PollJournal
  <2> QED
    BY <1>3, <2>1, <2>2, <2>3 DEF Serves, Handlers
<1> QED
  BY <1>4, <1>5, <1>6, <1>7, <1>8, <1>9 DEF Handler

\* What is asked, answered and handled by the page keeps the types.
LEMMA PageTyped ==
  ASSUME DTypes, Page \/ Dropped \/ \E c \in Fetches : Fetched(c) \/ Connect(c)
  PROVE  DTypes'
<1>1. /\ Serves(stream) /\ wire \in Messages /\ fetch \in [Fetches -> Requests]
      /\ timer \in BOOLEAN /\ display \in 0..MaxLength
      /\ UNCHANGED fileVars => Grows
      /\ UNCHANGED <<connects, drops>> => Counts
      /\ MaxLength \in Nat /\ length \in Nat /\ length <= MaxLength /\ 1 <= length
  BY DTypesNow
<1>2. Grows
  BY <1>1 DEF Page, OnSnapshot, OnEnd, OnNews, TimerFires, Dropped, Fetched, Served, Refused,
              Arrives, Connect
<1>3. Reconnect => timer' \in BOOLEAN /\ Serves(stream') /\ wire' \in Messages
  BY Fixed DEF Reconnect
<1>4. ASSUME NEW c \in Fetches, NEW first \in BOOLEAN, Ask(c, first)
      PROVE  fetch' \in [Fetches -> Requests]
  <2>1. Asked(first) \in Requests
    BY RequestsAre
  <2> QED
    BY <1>1, <1>4, <2>1 DEF Ask
<1>5. CASE OnSnapshot
  <2>1. wire.snapshot \in 0..MaxLength
    BY <1>1 DEF Messages
  <2> QED
    BY <1>1, <1>2, <1>5, <2>1, Fixed, DTypesAfter DEF OnSnapshot
<1>6. CASE OnEnd
  BY <1>1, <1>2, <1>3, <1>6, DTypesAfter DEF OnEnd
<1>7. ASSUME NEW c \in Fetches, OnNews(c) PROVE DTypes'
  BY <1>1, <1>2, <1>4, <1>7, Fixed, DTypesAfter DEF OnNews
<1>8. ASSUME NEW c \in Fetches, TimerFires(c) PROVE DTypes'
  BY <1>1, <1>2, <1>4, <1>8, Fixed, DTypesAfter DEF TimerFires
<1>9. CASE Dropped
  <2>1. drops < MaxDrops /\ drops' = drops + 1 /\ connects' = connects
    BY <1>9 DEF Dropped
  <2>2. Counts
    BY <2>1, DashboardAssumption DEF DTypes, DTypeOK, Counts
  <2> QED
    BY <1>1, <1>2, <1>3, <1>9, <2>2, DTypesAfter DEF Dropped
<1>10. ASSUME NEW c \in Fetches, Connect(c) PROVE DTypes'
  <2>1. connects < MaxConnects /\ connects' = connects + 1 /\ drops' = drops
    BY <1>10 DEF Connect
  <2>2. Counts
    BY <2>1, DashboardAssumption DEF DTypes, DTypeOK, Counts
  <2>3. Asked(TRUE) \in Requests
    BY RequestsAre
  <2>4. fetch' \in [Fetches -> Requests]
    BY <1>10, <2>3, Fixed DEF Connect
  <2> QED
    BY <1>1, <1>2, <1>10, <2>2, <2>4, Fixed, DTypesAfter DEF Connect
<1>11. ASSUME NEW c \in Fetches, Served(c) PROVE DTypes'
  <2>1. fetch' = [fetch EXCEPT ![c].at = "answered", ![c].snapshot = length]
    BY <1>11 DEF Served
  <2>2. fetch' \in [Fetches -> Requests]
    <3>1. fetch[c] \in Requests /\ length \in 0..MaxLength
      BY <1>1
    <3>2. [fetch[c] EXCEPT !.at = "answered", !.snapshot = length] \in Requests
      BY <3>1 DEF Requests
    <3>3. fetch' = [fetch EXCEPT ![c] = [fetch[c] EXCEPT !.at = "answered", !.snapshot = length]]
      BY <2>1
    <3> QED
      BY <1>1, <3>2, <3>3
  <2> QED
    BY <1>1, <1>2, <1>11, <2>2, DTypesAfter DEF Served
<1>12. ASSUME NEW c \in Fetches, Refused(c) PROVE DTypes'
  <2>1. fetch' \in [Fetches -> Requests]
    BY <1>1, <1>12, Fixed DEF Refused
  <2> QED
    BY <1>1, <1>2, <1>3, <1>12, <2>1, DTypesAfter DEF Refused
<1>13. ASSUME NEW c \in Fetches, Arrives(c) PROVE DTypes'
  <2>1. fetch' \in [Fetches -> Requests] /\ display' \in 0..MaxLength
    BY <1>1, <1>13, Fixed DEF Arrives, Requests
  <2> QED
    BY <1>1, <1>2, <1>13, <2>1, DTypesAfter DEF Arrives
<1> QED
  BY <1>5, <1>6, <1>7, <1>8, <1>9, <1>10, <1>11, <1>12, <1>13 DEF Page, Fetched

\* Every step of the server, the page and the writer keeps the types.
LEMMA DTypesStep == DTypes /\ [DNext]_dvars => DTypes'
<1> SUFFICES ASSUME DTypes, [DNext]_dvars PROVE DTypes'
  OBVIOUS
<1>1. CASE UNCHANGED dvars
  BY <1>1 DEF dvars, DTypes, DTypeOK
<1>2. CASE AppendBegins \/ AppendEnds
  <2>1. UNCHANGED <<stream, wire, fetch, timer, display, connects, drops>>
    BY <1>2 DEF AppendBegins, AppendEnds
  <2>2. Grows
    <3>1. length \in Nat /\ length <= MaxLength /\ 1 <= length /\ MaxLength \in Nat
      BY DTypesNow
    <3>2. CASE AppendBegins
      BY <3>1, <3>2 DEF AppendBegins, Grows
    <3>3. CASE AppendEnds
      <4>1. partial' = FALSE /\ length' \in {length, length + 1} /\ length < MaxLength
        BY <3>3 DEF AppendEnds, DTypes
      <4> QED
        <5>1. length' \in 1..MaxLength
          BY <3>1, <4>1
        <5> QED
          BY <4>1, <5>1, Zenon DEF Grows
    <3> QED
      BY <1>2, <3>2, <3>3
  <2> QED
    BY <2>1, <2>2, DTypesNow, DTypesAfter
<1> QED
  BY <1>1, <1>2, HandlerTyped, PageTyped DEF DNext

-----------------------------------------------------------------------------
(* All parts together: a behaviour stays in the part it has picked.        *)

PartInv ==
  /\ scene \in Scenes
  /\ scene = "process" => PInv
  /\ scene = "live" => LInv
  /\ scene = "orca" => OInv
  /\ scene = "cli" => CTypes
  /\ scene = "sprout" => GTypes
  /\ scene = "routing" => RTypes
  /\ scene = "topology" => TTypes
  /\ scene = "skills" => KInv
  /\ scene = "product" => HTypes
  /\ scene = "dashboard" => DTypes

\* Each part starts with its invariant.
LEMMA PartsInit == MCInit => PartInv
BY InitP, InitO, InitL, RTypesInit, CTypesInit, GTypesInit, TTypesInit, InitK, HTypesInit, DTypesInit
   DEF MCInit, PartInv

\* A step is one of the part that is the scene, and keeps its invariant.
LEMMA PartsStep == PartInv /\ [MCNext]_mcvars => PartInv'
<1> SUFFICES ASSUME PartInv, [MCNext]_mcvars PROVE PartInv'
  OBVIOUS
<1>1. scene' = scene
  BY DEF MCNext, mcvars
<1>2. /\ scene = "process" => [PNext]_pvars
      /\ scene = "live" => [LNext]_lvars
      /\ scene = "orca" => [ONext]_ovars
      /\ scene = "cli" => [CNext]_cvars
      /\ scene = "sprout" => [GNext]_gvars
      /\ scene = "routing" => [RNext]_rvars
      /\ scene = "topology" => [TNext]_tvars
      /\ scene = "skills" => [KNext]_kvars
      /\ scene = "product" => [HNext]_hvars
      /\ scene = "dashboard" => [DNext]_dvars
  BY DEF MCNext, mcvars
<1> QED
  BY <1>1, <1>2, PStep, LStep, OStep, CTypesStep, GTypesStep, RTypesStep, TTypesStep, KStep,
     HTypesStep, DTypesStep DEF PartInv

\* The types of the part that is the scene are those of its invariant.
LEMMA PartsTyped == PartInv => TypeOK
<1> SUFFICES ASSUME PartInv PROVE TypeOK
  OBVIOUS
<1>1. PInv => PTypeOK
  BY DEF PInv
<1>2. LInv => LTypeOK
  BY DEF LInv
<1>3. OInv => OTypeOK
  BY DEF OInv
<1>4. CTypes => CTypeOK
  BY DEF CTypes
<1>5. GTypes => GTypeOK
  BY DEF GTypes
<1>6. KInv => KTypeOK
  BY DEF KInv
<1>7. DTypes => DTypeOK
  BY DEF DTypes
<1> QED
  BY <1>1, <1>2, <1>3, <1>4, <1>5, <1>6, <1>7, RTypesAre, TTypesAre, HTypesAre,
     ScenesAssumption DEF PartInv, TypeOK

(***************************************************************************)
(* Whatever the constants, each part of the project keeps to the states    *)
(* its code can be in: handles, attempts and outcomes of the adapters,     *)
(* candidates and plans of the proof frontier, routes from the catalog,    *)
(* compiled tasks, skills, product runs and pages of the dashboard.        *)
(***************************************************************************)
THEOREM PartsAreTyped == MCSpec => []TypeOK
BY PartsInit, PartsStep, PartsTyped, PTL DEF MCSpec
=============================================================================
