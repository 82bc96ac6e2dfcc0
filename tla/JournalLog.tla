----------------------------- MODULE JournalLog -----------------------------
(***************************************************************************)
(* What the run journal promises to everyone who reads it: an idempotent,  *)
(* append-only log of the envelopes offered to it.  How ready files, locks, *)
(* torn writes and crashes are handled is Journal's business; Journal      *)
(* implements this module.                                                 *)
(***************************************************************************)
EXTENDS Sequences, Integers

CONSTANT Envelope       \* producer envelopes: records with pid, eid and body

VARIABLES offered,      \* envelopes some producer has published
          log           \* envelopes recorded, in the order of their seq

vars == <<offered, log>>

(* EVENT_PROTOCOL section 7, item 5: the same producer_event_id or event_id *)
(* is reflected once; a clash never overwrites the original event.          *)
SameIdentity(e, f) == e.pid = f.pid \/ e.eid = f.eid

Init == offered \in SUBSET Envelope /\ log = << >>

Offer(e) == offered' = offered \cup {e} /\ UNCHANGED log

Record(e) ==
  /\ e \in offered
  /\ \A i \in DOMAIN log : ~SameIdentity(log[i], e)
  /\ log' = Append(log, e)
  /\ UNCHANGED offered

Next == \E e \in Envelope : Offer(e) \/ Record(e)

Spec == Init /\ [][Next]_vars
=============================================================================
