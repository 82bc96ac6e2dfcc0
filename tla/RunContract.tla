---------------------------- MODULE RunContract -----------------------------
(***************************************************************************)
(* What a run promises to those who read its journal (EVENT_PROTOCOL       *)
(* sections 4 and 6), without attempts, gates, schedulers and restarts:    *)
(* a node's fate is decided once; a failed node is replaced by one         *)
(* revision and never revived; the run ends once, and then stands still;   *)
(* it ends in success only when all the work that counts has passed.       *)
(***************************************************************************)
EXTENDS Integers

CONSTANT Base      \* node ids of the published plan

VARIABLES fate,    \* per node <<b, revision>>
          outcome  \* "none" until the run has ended

vars == <<fate, outcome>>

Ids   == Base \X {0, 1}
Fates == {"passed", "failed", "cancelled"}

Replaced(n) == n[2] = 0 /\ fate[<<n[1], 1>>] # "unborn"
Counts(n)   == fate[n] # "unborn" /\ ~Replaced(n)

Init ==
  /\ fate = [n \in Ids |-> IF n[2] = 0 THEN "open" ELSE "unborn"]
  /\ outcome = "none"

(* One verdict may decide several nodes *)
Decide ==
  /\ outcome = "none"
  /\ fate' \in [Ids -> Fates \cup {"unborn", "open"}]
  /\ \A n \in Ids : fate'[n] # fate[n] => fate[n] = "open" /\ fate'[n] \in Fates
  /\ UNCHANGED outcome

(* The work b and the check c of it both failed and are done once more *)
Revise(b, c) ==
  /\ outcome = "none" /\ b # c
  /\ \A x \in {b, c} : fate[<<x, 0>>] = "failed" /\ fate[<<x, 1>>] = "unborn"
  /\ fate' = [fate EXCEPT ![<<b, 1>>] = "open", ![<<c, 1>>] = "open"]
  /\ UNCHANGED outcome

End(how) ==
  /\ outcome = "none"
  /\ how = "succeeded" => \A n \in Ids : Counts(n) => fate[n] = "passed"
  /\ outcome' = how
  /\ UNCHANGED fate

Next ==
  \/ Decide
  \/ \E b, c \in Base : Revise(b, c)
  \/ \E how \in {"succeeded", "failed", "blocked", "cancelled"} : End(how)

Spec == Init /\ [][Next]_vars
=============================================================================
