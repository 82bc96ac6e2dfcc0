----------------------------- MODULE MCJournal ------------------------------
(***************************************************************************)
(* Model values for checking Journal: four envelopes that cover the ways   *)
(* identities can meet (the same event, the same ids with other content,   *)
(* the same event_id under another producer_event_id, nothing in common),  *)
(* one the producer validation refuses, and one only the canonical         *)
(* validation refuses.                                                     *)
(***************************************************************************)
EXTENDS Journal, TLC

First   == [pid |-> 1, eid |-> 1, body |-> "x"]
Changed == [pid |-> 1, eid |-> 1, body |-> "y"]
SameEid == [pid |-> 2, eid |-> 1, body |-> "x"]
Other   == [pid |-> 3, eid |-> 3, body |-> "x"]
Broken  == [pid |-> 4, eid |-> 4, body |-> "malformed"]
LaxOne  == [pid |-> 5, eid |-> 5, body |-> "lax"]

BrokenOnly == {Broken}

\* Safety and liveness together: redelivery, a clash, a file
\* without any relation to them and a malformed one.
SmallEnvelope == {First, SameEid, Other, Broken}
None          == {}

\* Files of an older version with the same mtime, the malformed one first.
OldFiles == <<[ord |-> 2, env |-> Broken], [ord |-> 2, env |-> Other]>>
NoFiles  == << >>

Processes == Permutations(Producers) \cup Permutations(Writers)

FaultEnvelope == {First, Changed, Other, LaxOne}
LaxOnly       == {LaxOne}
PoisonEnvelope == {First, LaxOne}
=============================================================================
