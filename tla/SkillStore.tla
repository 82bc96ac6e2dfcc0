----------------------------- MODULE SkillStore -----------------------------
(***************************************************************************)
(* SkillRegistry, SkillCompatibilityCompiler and SkillPolicyEngine         *)
(* (graphori_core/skills.py): several processes install skill packages     *)
(* into one directory, without a lock, and bind installed skills to the    *)
(* nodes of plans.  Any of them can die between two file operations.       *)
(*                                                                         *)
(* What a package holds is one of Builds and stands for its own digest.    *)
(* Copying a package takes two steps and reads its files when it ends; a   *)
(* copy that has only begun, or into which two processes copied, holds     *)
(* "part".                                                                 *)
(***************************************************************************)
EXTENDS Naturals, FiniteSets

CONSTANTS
  SkillIds,      \* the skills
  About,         \* per skill: what its SkillManifest says of compatibility
  Contexts,      \* the SkillNodeContexts a skill is asked for
  Registries,    \* processes that hold a SkillRegistry
  Builds,        \* what a package directory can hold
  FirstBuild,    \* what every package holds at first
  MaxEdits, MaxInstalls, MaxDeaths   \* bounds of the exploration

ASSUME SkillsAssumption ==
  /\ FirstBuild \in Builds /\ "none" \notin Builds
  /\ MaxEdits \in Nat /\ MaxInstalls \in Nat /\ MaxDeaths \in Nat
  /\ \A s \in SkillIds : About[s].deps \subseteq SkillIds /\ About[s].conflicts \subseteq SkillIds

VARIABLES
  package,     \* per skill: what its source directory holds
  snapshots,   \* per digest: what root/<digest> holds
  copies,      \* per digest: root/.<digest>.tmp, who made it and what it holds
  manifests,   \* per skill: the digest in .manifests/<skill>.json
  lock,        \* skills.lock.json
  known,       \* per registry: _manifests, the digests it believes in
  job,         \* per registry: the install it is in
  bindings,    \* per SkillPolicyDecision that selected skills: their digests
  edits, installs, deaths

kvars == <<package, snapshots, copies, manifests, lock, known, job, bindings,
           edits, installs, deaths>>

Digests == Builds \cup {"none"}
NoCopy  == [by |-> "nobody", holds |-> "none"]
JobAt(at) == [at |-> at, skill |-> "none", digest |-> "none"]

Stands(r, at) == job[r].at = at
MoveTo(r, at) == job' = [job EXCEPT ![r].at = at]
GiveUp(r)     == job' = [job EXCEPT ![r] = JobAt("idle")]   \* install raises

-----------------------------------------------------------------------------
(* SkillRegistry                                                           *)

OpenRegistry(r) ==  \* a torn manifest makes the constructor raise
  /\ Stands(r, "closed")
  /\ \A s \in SkillIds : manifests[s] # "torn"
  /\ known' = [known EXCEPT ![r] = manifests]
  /\ MoveTo(r, "idle")
  /\ UNCHANGED <<package, snapshots, copies, manifests, lock, bindings, edits, installs, deaths>>

DigestPackage(r, s) ==
  /\ Stands(r, "idle") /\ installs < MaxInstalls
  /\ installs' = installs + 1
  /\ job' = [job EXCEPT ![r] = [at |-> "digested", skill |-> s, digest |-> package[s]]]
  /\ UNCHANGED <<package, snapshots, copies, manifests, lock, known, bindings, edits, deaths>>

InstallMoves == UNCHANGED <<package, known, bindings, edits, installs, deaths>>

KeepSnapshot(r) ==
  /\ Stands(r, "digested") /\ snapshots[job[r].digest] # "none"
  /\ MoveTo(r, "placed")
  /\ UNCHANGED <<snapshots, copies, manifests, lock>> /\ InstallMoves

StartCopyAnyway(r) ==  \* mutation: no look at snapshot.exists()
  /\ Stands(r, "digested")
  /\ copies' = [copies EXCEPT ![job[r].digest] = [by |-> r, holds |-> "part"]]
  /\ snapshots' = [snapshots EXCEPT ![job[r].digest] = "none"]
  /\ MoveTo(r, "copying")
  /\ UNCHANGED <<manifests, lock>> /\ InstallMoves
StartCopy(r) ==  \* a directory somebody left there is removed first
  /\ Stands(r, "digested") /\ snapshots[job[r].digest] = "none"
  /\ copies' = [copies EXCEPT ![job[r].digest] = [by |-> r, holds |-> "part"]]
  /\ MoveTo(r, "copying")
  /\ UNCHANGED <<snapshots, manifests, lock>> /\ InstallMoves

FinishCopy(r) ==
  /\ Stands(r, "copying") /\ copies[job[r].digest].by = r
  /\ copies' = [copies EXCEPT ![job[r].digest].holds = package[job[r].skill]]
  /\ MoveTo(r, "copied")
  /\ UNCHANGED <<snapshots, manifests, lock>> /\ InstallMoves

\* another process removed or renamed the directory meanwhile: the copy
\* fails, unless that process made a new one into which the rest is copied
CopyDisturbed(r) ==
  LET now == copies[job[r].digest].by
  IN  /\ Stands(r, "copying") /\ now # r
      /\ \/ GiveUp(r) /\ UNCHANGED copies
         \/ /\ now # "nobody" /\ MoveTo(r, "copied")
            /\ \E h \in {copies[job[r].digest].holds, "part"} :
                 copies' = [copies EXCEPT ![job[r].digest].holds = h]
      /\ UNCHANGED <<snapshots, manifests, lock>> /\ InstallMoves

PlaceSnapshot(r) ==
  LET d == job[r].digest
  IN  /\ Stands(r, "copied")
      /\ copies[d].by # "nobody" /\ snapshots[d] = "none"
      /\ snapshots' = [snapshots EXCEPT ![d] = copies[d].holds]
      /\ copies' = [copies EXCEPT ![d] = NoCopy]
      /\ MoveTo(r, "placed")
      /\ UNCHANGED <<manifests, lock>> /\ InstallMoves

\* rename raises: there is nothing to rename, or the target is not empty
PlaceFails(r) ==
  LET d == job[r].digest
  IN  /\ Stands(r, "copied")
      /\ copies[d].by = "nobody" \/ snapshots[d] # "none"
      /\ GiveUp(r)
      /\ UNCHANGED <<snapshots, copies, manifests, lock>> /\ InstallMoves

WriteManifest(r) ==
  LET s == job[r].skill
  IN  /\ Stands(r, "placed")
      /\ known' = [known EXCEPT ![r][s] = job[r].digest]
      /\ manifests' = [manifests EXCEPT ![s] = job[r].digest]
      /\ MoveTo(r, "written")
      /\ UNCHANGED <<package, snapshots, copies, lock, bindings, edits, installs, deaths>>

WriteLock(r) ==  \* all this registry knows, and nothing else
  /\ Stands(r, "written")
  /\ lock' = [whole |-> TRUE, pins |-> known[r]]
  /\ GiveUp(r)
  /\ UNCHANGED <<snapshots, copies, manifests>> /\ InstallMoves

\* a process that dies while it writes a file leaves it torn
RegistryDies(r) ==
  /\ ~Stands(r, "closed") /\ deaths < MaxDeaths
  /\ deaths' = deaths + 1
  /\ job' = [job EXCEPT ![r] = JobAt("closed")]
  /\ known' = [known EXCEPT ![r] = [s \in SkillIds |-> "none"]]
  /\ \/ UNCHANGED <<manifests, lock>>
     \/ /\ Stands(r, "placed")
        /\ manifests' = [manifests EXCEPT ![job[r].skill] = "torn"] /\ UNCHANGED lock
     \/ /\ Stands(r, "written")
        /\ lock' = [lock EXCEPT !.whole = FALSE] /\ UNCHANGED manifests
  /\ UNCHANGED <<package, snapshots, copies, bindings, edits, installs>>

EditPackage(s, b) ==
  /\ edits < MaxEdits /\ b # package[s]
  /\ package' = [package EXCEPT ![s] = b] /\ edits' = edits + 1
  /\ UNCHANGED <<snapshots, copies, manifests, lock, known, job, bindings, installs, deaths>>

VerifyLock(r, s) == lock.whole /\ lock.pins[s] = known[r][s]
GetSkill(r, s) ==  \* get: known, locked as known, and the snapshot still has that digest
  /\ known[r][s] # "none"
  /\ VerifyLock(r, s)
  /\ snapshots[known[r][s]] = known[r][s]

-----------------------------------------------------------------------------
(* SkillCompatibilityCompiler                                              *)

\* check: a request by name waives the rules on invocation policy, fast mode
\* and trust, for the dependencies of the skill as well; `strong' is ponytail
\* in a mode beyond lite
Compatible(s, node) ==
  /\ About[s].kind \notin {"workflow", "orchestrator", "tooling"}
  /\ ~About[s].nested /\ ~About[s].interactive
  /\ About[s].hosts = {} \/ node.host \in About[s].hosts
  /\ About[s].needs \subseteq node.given
  /\ ~(About[s].strong /\ node.risky)

\* the dependencies of a skill, and theirs, as far as n steps reach
Needed(s) ==
  LET reach[n \in 0..Cardinality(SkillIds)] ==
        IF n = 0 THEN About[s].deps
        ELSE reach[n - 1] \cup UNION {About[d].deps : d \in reach[n - 1]}
  IN  reach[Cardinality(SkillIds)]

ResolvedSet(s) == {s} \cup Needed(s)

\* resolve_many, for one primary skill, over the skills the registry serves
Resolves(s, node, served) ==
  LET all == ResolvedSet(s)
  IN  /\ all \subseteq served
      /\ \A x \in all : x \notin Needed(x) /\ Compatible(x, node)
      /\ Cardinality(all) <= 2
      /\ \A x \in all : About[x].conflicts \cap (all \ {x}) = {}

-----------------------------------------------------------------------------
(* SkillPolicyEngine.decide: nothing is selected unless asked for by name. *)

\* manifests() raises when any skill the registry knows cannot be served
ServedBy(r) == {s \in SkillIds : known[r][s] # "none"}
BindSkill(r, s, node) ==
  /\ Stands(r, "idle")
  /\ \A x \in ServedBy(r) : GetSkill(r, x)
  /\ Resolves(s, node, ServedBy(r))
  /\ bindings' = bindings \cup {[x \in ResolvedSet(s) |-> known[r][x]]}
  /\ UNCHANGED <<package, snapshots, copies, manifests, lock, known, job, edits, installs, deaths>>

\* _verify_pinned_skills of product_cli.py, before a resumed dispatch
PinHolds(f) == \A s \in DOMAIN f : snapshots[f[s]] = f[s]

-----------------------------------------------------------------------------
KInit ==
  /\ package = [s \in SkillIds |-> FirstBuild]
  /\ snapshots = [d \in Builds |-> "none"]
  /\ copies = [d \in Builds |-> NoCopy]
  /\ manifests = [s \in SkillIds |-> "none"]
  /\ lock = [whole |-> FALSE, pins |-> manifests]
  /\ known = [r \in Registries |-> manifests]
  /\ job = [r \in Registries |-> JobAt("closed")]
  /\ bindings = {} /\ edits = 0 /\ installs = 0 /\ deaths = 0

Installs(r) ==
  \/ KeepSnapshot(r) \/ StartCopy(r) \/ FinishCopy(r) \/ CopyDisturbed(r)
  \/ PlaceSnapshot(r) \/ PlaceFails(r) \/ WriteManifest(r) \/ WriteLock(r)

KNext ==
  \/ \E r \in Registries :
       \/ OpenRegistry(r) \/ Installs(r) \/ RegistryDies(r)
       \/ \E s \in SkillIds :
            DigestPackage(r, s) \/ \E node \in Contexts : BindSkill(r, s, node)
  \/ \E s \in SkillIds, b \in Builds : EditPackage(s, b)

KSpec == KInit /\ [][KNext]_kvars

KTypeOK ==
  /\ package \in [SkillIds -> Builds]
  /\ snapshots \in [Builds -> Digests \cup {"part"}]
  /\ copies \in [Builds -> [by : Registries \cup {"nobody"}, holds : Digests \cup {"part"}]]
  /\ manifests \in [SkillIds -> Digests \cup {"torn"}]
  /\ lock \in [whole : BOOLEAN, pins : [SkillIds -> Digests]]
  /\ known \in [Registries -> [SkillIds -> Digests]]
  /\ job \in [Registries ->
              [at : {"closed", "idle", "digested", "copying", "copied", "placed", "written"},
               skill : SkillIds \cup {"none"}, digest : Digests]]
  /\ bindings \subseteq UNION {[S -> Builds] : S \in SUBSET SkillIds}
  /\ edits \in 0..MaxEdits /\ installs \in 0..MaxInstalls /\ deaths \in 0..MaxDeaths

\* A plan's skills stay what they were when the plan was bound, whatever is
\* installed again, edited, copied at the same time or interrupted later, so
\* that a run can be resumed with them.
BoundSkillsKept == \A f \in bindings : PinHolds(f)
=============================================================================
