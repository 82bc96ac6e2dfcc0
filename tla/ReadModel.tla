------------------------------ MODULE ReadModel ------------------------------
(***************************************************************************)
(* What every consumer is shown of a run (graphori_core/projection.py):    *)
(* functions of the recorded verdicts and of the replayed node states.     *)
(*                                                                         *)
(* A verdict here is [by, targets, claims]: the node that recorded it, the *)
(* nodes it judges, and per criterion what the verification command said   *)
(* of it.  The command of a verifier claims PROVEN or FAILED of the        *)
(* criteria it is mapped to and names itself as the evidence, which counts *)
(* as proof only for a node whose evidence requirements name the criterion.*)
(***************************************************************************)
EXTENDS Naturals, FiniteSets, Sequences

CriterionStates == {"NOT_APPLICABLE", "NOT_PROVEN", "PROVEN", "FAILED"}

LastOf(S) == CHOOSE i \in S : \A j \in S : j <= i

\* the verdicts that make a claim about criterion c of node n: those n recorded
\* itself, which are read first, and those on it, whenever they were recorded
ClaimsByNobody(n, c, verdicts) == {}  \* mutation: what a verifier said itself is not read
ClaimsBy(n, c, verdicts) ==
  {i \in DOMAIN verdicts : verdicts[i].by = n /\ c \in DOMAIN verdicts[i].claims}
ClaimsOn(n, c, verdicts) ==
  {i \in DOMAIN verdicts : n \in verdicts[i].targets /\ c \in DOMAIN verdicts[i].claims}

\* _criterion_evidence: the last claim stands; `required' are the criteria the
\* evidence requirements of n name
LastClaim(n, c, verdicts) ==
  LET said == IF ClaimsOn(n, c, verdicts) # {} THEN ClaimsOn(n, c, verdicts)
              ELSE ClaimsBy(n, c, verdicts)
  IN  IF said = {} THEN "NOT_PROVEN" ELSE verdicts[LastOf(said)].claims[c]
CriterionStatus(n, c, verdicts, required) ==
  IF LastClaim(n, c, verdicts) = "PROVEN" /\ c \notin required THEN "NOT_PROVEN"
  ELSE LastClaim(n, c, verdicts)

Weight(s) ==
  CASE s = "NOT_APPLICABLE" -> 0 [] s = "NOT_PROVEN" -> 1 [] s = "PROVEN" -> 2 [] s = "FAILED" -> 3

\* a criterion in the summary: the weightiest of its states over all nodes of
\* the effective plan, those a rework replaced included
Weightiest(states) == CHOOSE s \in states : \A t \in states : Weight(t) <= Weight(s)

\* requirements_status, from the criteria in the summary
RequirementsStatus(states) ==
  IF states = {} THEN "not_declared"
  ELSE IF "FAILED" \in states THEN "failed"
  ELSE IF states \subseteq {"PROVEN", "NOT_APPLICABLE"} THEN "proven"
  ELSE "not_proven"

BlockedStates == {"blocked", "failed", "cancelled", "rejected", "inconclusive", "outcome_unknown"}
ActiveStates  == {"ready", "assigned", "running", "awaiting_verification"}

\* a team, from the states of its nodes and whether the scheduler holds one of
\* them back for good or would start one
TeamStatus(states, held, startable) ==
  IF states = {} THEN "omitted"
  ELSE IF held \/ states \cap BlockedStates # {} THEN "blocked"
  ELSE IF states = {"passed"} THEN "complete"
  ELSE IF startable \/ states \cap ActiveStates # {} THEN "active"
  ELSE "standby"

\* the run as a whole: `states' of all nodes, those a rework replaced included
RunStatus(ended, gateOpen, states) ==
  IF ended # "none" THEN ended
  ELSE IF gateOpen THEN "waiting_approval"
  ELSE IF "outcome_unknown" \in states THEN "outcome_unknown"
  ELSE IF {"blocked", "failed"} \cap states # {} THEN "blocked"
  ELSE "running"

\* verdict_by_target: the last verdict recorded on a node
VerdictsOn(n, verdicts) == {i \in DOMAIN verdicts : n \in verdicts[i].targets}
LastVerdict(n, verdicts) ==
  IF VerdictsOn(n, verdicts) = {} THEN "none"
  ELSE IF verdicts[LastOf(VerdictsOn(n, verdicts))].passed THEN "pass" ELSE "revise"

\* the verification of a node: its verdict, or what stands for one
VerificationOf(n, s, deterministic, verdicts) ==
  IF LastVerdict(n, verdicts) # "none" THEN LastVerdict(n, verdicts)
  ELSE IF s = "awaiting_verification" THEN "pending"
  ELSE IF deterministic THEN "not_required"
  ELSE "not_started"

\* resolve_projection_metadata: `torn' when a sidecar cannot be parsed, and the
\* RunSpecs and RunPlans that sidecars and events record
MetadataSource(torn, specs, plans) ==
  IF torn \/ Cardinality(specs) > 1 \/ Cardinality(plans) > 1 THEN "ambiguous"
  ELSE IF specs = {} /\ plans = {} THEN "legacy_journal"
  ELSE IF specs = {} \/ plans = {} THEN "ambiguous"
  ELSE "canonical_v3"
=============================================================================
