------------------------------ MODULE MCEngine ------------------------------
(***************************************************************************)
(* Plans for checking Engine, of the shapes PlanCompiler publishes         *)
(* (graphori_core/product.py): research and design nodes that close        *)
(* deterministically, an implementation with its verifier, and a           *)
(* cross-review between the two.                                           *)
(***************************************************************************)
EXTENDS Engine

\* design -> implementation -> verifier
ChainDeps == [d |-> {}, i |-> {"d"}, v |-> {"i"}]
ChainBase == {"d", "i", "v"}

\* independent nodes
Alone == [n \in Base |-> {}]

Swaps == {p \in Permutations(Base) :
            \A C \in Conflicts : {p[x] : x \in C} \in Conflicts}

\* implementation, cross-review, verifier of both
ReviewDeps == [i |-> {}, r |-> {"i"}, v |-> {"i", "r"}]
ReviewBase == {"i", "r", "v"}

\* implementation and verifier
PairDeps == [i |-> {}, v |-> {"i"}]
PairBase == {"i", "v"}

JustV == {"v"}
JustI == {"i"}
JustD == {"d"}
JustR == {"r"}
None  == {}

AllReports   == {"succeeded", "failed", "timed_out", "outcome_unknown", "cancelled"}
KnownReports == {"succeeded", "failed", "timed_out", "cancelled"}
MostReports  == {"succeeded", "failed", "timed_out"}
AllErrors    == {"startup_failure", "outcome_unknown"}
AllVerdicts  == {"pass", "revise", "reject", "inconclusive", "none"}
AllChoices   == {"approve", "use_fallback", "skip"}
=============================================================================
