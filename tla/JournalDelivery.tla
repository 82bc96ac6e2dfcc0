-------------------------- MODULE JournalDelivery ---------------------------
(***************************************************************************)
(* Proofs about Journal: from the ordinal a file gets when it is published *)
(* to the place of its envelope in the journal.                            *)
(***************************************************************************)
EXTENDS JournalProofs

(***************************************************************************)
(* Ordinals.  The submission lock is held from the choice of an ordinal to *)
(* the rename, and by a writer while it lists the directory; so the chosen *)
(* ordinal is still the largest when its file appears.                     *)
(***************************************************************************)
Stamped(m) == m > Len(Legacy)

Locked ==
  /\ \A p \in Producers : sub[p].at \in {"locked", "stamped", "published"} => subLock = p
  /\ \A w \in Writers : phase[w] = "listing" => subLock = w

Counted ==
  /\ Len(Legacy) <= Len(published)
  /\ \A m \in DOMAIN published : Stamped(m) => published[m].ord <= counter

Topmost ==
  \A p \in Producers : sub[p].at = "stamped" =>
    /\ sub[p].ord = counter
    /\ \A m \in DOMAIN published : Stamped(m) \/ m \in ready => published[m].ord < counter

InboxInv == Locked /\ Counted /\ Topmost /\ OrdinalsIncrease

\* The files of an older version, with their ordinals.
LEMMA LegacySeq ==
  /\ Len(Legacy) \in Nat /\ DOMAIN Legacy = 1 .. Len(Legacy)
  /\ \A i \in DOMAIN Legacy : Legacy[i] \in [ord : Nat, env : Envelope]
<1>1. Legacy \in Seq([ord : Nat, env : Envelope])
  BY LegacyAssumption DEF LegacyAssumption
<1>2. Len(Legacy) \in Nat /\ DOMAIN Legacy = 1 .. Len(Legacy)
  BY <1>1
<1>3. ASSUME NEW i \in DOMAIN Legacy PROVE Legacy[i] \in [ord : Nat, env : Envelope]
  BY <1>1, SeqEntry
<1> QED
  BY <1>2, <1>3

\* The inbox invariant holds at the start.
LEMMA InitInbox == Init => InboxInv
<1> SUFFICES ASSUME Init PROVE InboxInv
  OBVIOUS
<1>1. Locked /\ Topmost
  BY DEF Init, Locked, Topmost, Idle
<1>2. Counted /\ OrdinalsIncrease
  BY LegacySeq DEF Init, Counted, OrdinalsIncrease, Stamped
<1> QED
  BY <1>1, <1>2 DEF InboxInv

(* Nothing here is lost when files leave ready or when a lock is given up by *)
(* one who holds it.                                                        *)
LEMMA FewerReady ==
  ASSUME InboxInv, ready' \subseteq ready, UNCHANGED <<published, counter, sub>>, Locked'
  PROVE  InboxInv'
BY DEF InboxInv, Counted, Topmost, OrdinalsIncrease, Stamped

\* submit_event keeps the inbox invariant.
LEMMA SubmitInbox ==
  ASSUME TypeOK, InboxInv, NEW p \in Producers, Submit(p)
  PROVE  InboxInv'
<1> USE ProcessAssumption DEF ProcessAssumption, InboxInv
<1>0. /\ counter \in Nat /\ Len(published) \in Nat /\ DOMAIN published = 1 .. Len(published)
      /\ \A m \in DOMAIN published : published[m].ord \in Nat
      /\ ready \subseteq DOMAIN published /\ sub \in [Producers -> SubmitState]
  BY PublishedEntry DEF TypeOK
<1>1. ASSUME NEW e \in Envelope, WriteTmp(p, e) PROVE InboxInv'
  <2>1. Locked'
    BY <1>0, <1>1 DEF WriteTmp, Locked, Idle, writer
  <2>2. Counted' /\ OrdinalsIncrease'
    BY <1>1 DEF WriteTmp, Counted, OrdinalsIncrease, Stamped, inbox
  <2>3. Topmost'
    BY <1>0, <1>1 DEF WriteTmp, Topmost, Stamped, inbox
  <2> QED
    BY <2>1, <2>2, <2>3
<1>2. CASE LockInbox(p)
  <2>1. /\ subLock' = p /\ sub'[p].at = "locked" /\ UNCHANGED <<published, ready, counter, phase>>
        /\ \A q \in Producers : q # p => sub'[q] = sub[q]
    BY <1>0, <1>2 DEF LockInbox, inbox, writer
  <2>2. /\ \A q \in Producers : q # p => sub[q].at \notin {"locked", "stamped", "published"}
        /\ \A w \in Writers : phase[w] # "listing"
    BY <1>2 DEF Locked, LockInbox
  <2> QED
    BY <2>1, <2>2 DEF Locked, Counted, Topmost, OrdinalsIncrease, Stamped
<1>3. ASSUME NEW now \in Clock, Stamp(p, now) PROVE InboxInv'
  <2>1. PICK o \in Candidates(now) :
          /\ \A c \in Candidates(now) : c <= o
          /\ counter' = o
          /\ sub' = [sub EXCEPT ![p] = [at |-> "stamped", env |-> sub[p].env, ord |-> o]]
    BY <1>3 DEF Stamp
  <2>2. /\ counter < o /\ o \in Nat
        /\ \A m \in ready : published[m].ord < o
    <3>1. now \in Nat
      BY BoundAssumption DEF BoundAssumption
    <3>2. \A m \in ready : published[m].ord \in Nat
      BY <1>0
    <3>3. \A c \in Candidates(now) : c \in Nat
      BY <1>0, <3>1, <3>2 DEF Candidates
    <3>4. counter + 1 \in Candidates(now) /\ \A m \in ready : published[m].ord + 1 \in Candidates(now)
      BY DEF Candidates
    <3>5. o \in Nat /\ counter + 1 <= o /\ \A m \in ready : published[m].ord + 1 <= o
      BY <2>1, <3>3, <3>4
    <3> QED
      BY <1>0, <3>2, <3>5
  <2>3. subLock = p /\ UNCHANGED <<published, ready, subLock, phase>>
    BY <1>3 DEF Stamp, Locked, writer
  <2>4. /\ sub'[p] = [at |-> "stamped", env |-> sub[p].env, ord |-> o]
        /\ \A q \in Producers : q # p => sub'[q] = sub[q]
    BY <1>0, <2>1
  <2>5. Locked' /\ OrdinalsIncrease'
    BY <2>3, <2>4 DEF Locked, OrdinalsIncrease
  <2>6. Counted'
    BY <1>0, <2>1, <2>2, <2>3 DEF Counted, Stamped
  <2>7. Topmost'
    <3>1. \A q \in Producers : q # p => sub[q].at # "stamped"
      BY <2>3 DEF Locked
    <3>2. \A m \in DOMAIN published : Stamped(m) \/ m \in ready => published[m].ord < o
      BY <1>0, <2>2 DEF Counted
    <3> QED
      BY <2>1, <2>3, <2>4, <3>1, <3>2 DEF Topmost, Stamped
  <2> QED
    BY <2>5, <2>6, <2>7
<1>4. CASE Publish(p)
  <2> DEFINE new == [ord |-> sub[p].ord, env |-> sub[p].env]
             N   == Len(published) + 1
  <2>1. /\ sub[p].at = "stamped" /\ published' = Append(published, new)
        /\ ready' = ready \cup {N} /\ UNCHANGED <<counter, subLock, phase>>
        /\ sub' = [sub EXCEPT ![p] = [at |-> "published"]]
    BY <1>4 DEF Publish, writer
  <2>2. /\ subLock = p /\ sub[p].ord = counter
        /\ \A m \in DOMAIN published : Stamped(m) \/ m \in ready => published[m].ord < counter
    BY <2>1 DEF Locked, Topmost
  <2>3. /\ DOMAIN published' = 1 .. N /\ Len(published') = N
        /\ \A m \in DOMAIN published : published'[m] = published[m]
        /\ published'[N] = new
    BY <1>0, <2>1
  <2>4. /\ sub'[p] = [at |-> "published"] /\ \A q \in Producers : q # p => sub'[q] = sub[q]
    BY <1>0, <2>1
  <2>5. Locked'
    BY <2>1, <2>2, <2>4 DEF Locked
  <2>6. \A q \in Producers : sub'[q].at # "stamped"
    BY <2>2, <2>4 DEF Locked
  <2>7. Topmost'
    BY <2>6 DEF Topmost
  <2>8. Counted'
    <3>1. Len(Legacy) <= Len(published')
      BY <1>0, <2>3, LegacySeq DEF Counted
    <3>2. ASSUME NEW m \in DOMAIN published', Stamped(m) PROVE published'[m].ord <= counter'
      <4>1. CASE m = N
        BY <1>0, <2>1, <2>2, <2>3, <4>1
      <4>2. CASE m # N
        BY <1>0, <2>1, <2>3, <3>2, <4>2 DEF Counted
      <4> QED
        BY <4>1, <4>2
    <3> QED
      BY <3>1, <3>2 DEF Counted, Stamped
  <2>9. OrdinalsIncrease'
    <3> SUFFICES ASSUME NEW m \in DOMAIN published', NEW n \in DOMAIN published',
                        m < n, n > Len(Legacy), m > Len(Legacy) \/ m \in ready'
                 PROVE  published'[m].ord < published'[n].ord
      BY DEF OrdinalsIncrease
    <3>1. m \in DOMAIN published /\ (m > Len(Legacy) \/ m \in ready)
      BY <1>0, <2>1, <2>3
    <3>2. CASE n = N
      BY <2>2, <2>3, <3>1, <3>2 DEF Stamped
    <3>3. CASE n # N
      BY <1>0, <2>3, <3>1, <3>3 DEF OrdinalsIncrease
    <3> QED
      BY <3>2, <3>3
  <2> QED
    BY <2>5, <2>7, <2>8, <2>9
<1>5. CASE UnlockInbox(p)
  <2>1. /\ sub[p].at = "published" /\ subLock' = Nobody /\ sub'[p].at = "idle"
        /\ UNCHANGED <<published, ready, counter, phase>>
        /\ \A q \in Producers : q # p => sub'[q] = sub[q]
    BY <1>0, <1>5 DEF UnlockInbox, inbox, writer, Idle
  <2>2. /\ \A q \in Producers : q # p => sub[q].at \notin {"locked", "stamped", "published"}
        /\ \A w \in Writers : phase[w] # "listing"
    BY <2>1 DEF Locked
  <2> QED
    BY <2>1, <2>2 DEF Locked, Counted, Topmost, OrdinalsIncrease, Stamped
<1> QED
  BY <1>1, <1>2, <1>3, <1>4, <1>5 DEF Submit

(* A process that gives the lock up, or never had it, leaves the others' hold. *)
LEMMA ReleaseLocked ==
  ASSUME Locked, NEW x,
         subLock' = IF subLock = x THEN Nobody ELSE subLock,
         \A p \in Producers : sub'[p].at \in {"locked", "stamped", "published"} =>
           sub'[p] = sub[p] /\ p # x,
         \A w \in Writers : phase'[w] = "listing" => phase[w] = "listing" /\ w # x
  PROVE  Locked'
BY DEF Locked

\* A producer's death keeps the inbox invariant.
LEMMA ProducerDiesInbox ==
  ASSUME TypeOK, InboxInv, NEW p \in Producers, ProducerDies(p)
  PROVE  InboxInv'
<1>1. /\ sub'[p].at = "idle" /\ \A q \in Producers : q # p => sub'[q] = sub[q]
      /\ UNCHANGED <<published, ready, counter, phase>>
      /\ subLock' = IF subLock = p THEN Nobody ELSE subLock
  BY DEF ProducerDies, TypeOK, Idle, inbox, writer
<1>2. \A w \in Writers : w # p
  BY ProcessAssumption DEF ProcessAssumption
<1>3. Locked'
  BY <1>1, <1>2, ReleaseLocked DEF InboxInv
<1> QED
  BY <1>1, <1>3 DEF InboxInv, Counted, Topmost, OrdinalsIncrease, Stamped

\* No writer step disturbs the submission lock's discipline.
LEMMA WriterLocked ==
  ASSUME TypeOK, Locked, NEW w \in Writers,
         \/ Open(w) \/ Consume(w) \/ Close(w) \/ WriterDies(w)
         \/ \E n \in queue[w], how \in Tears : AppendInterrupted(w, n, how)
  PROVE  Locked'
<1> USE ProcessAssumption DEF ProcessAssumption
<1>0. UNCHANGED sub /\ phase \in [Writers -> Phase] /\ \A p \in Producers : p # w
  BY WriterFrame DEF TypeOK
<1>1. ASSUME subLock' = subLock, \A v \in Writers : phase'[v] = "listing" => phase[v] = "listing"
      PROVE  Locked'
  BY <1>0, <1>1 DEF Locked
<1>2. CASE Forget(w)
  <2>1. \A v \in Writers : phase'[v] = "listing" => phase[v] = "listing" /\ v # w
    BY <1>0, <1>2 DEF Forget
  <2> QED
    BY <1>0, <1>2, <2>1, ReleaseLocked DEF Forget
<1>3. CASE LockSnapshot(w)
  <2>1. /\ \A p \in Producers : sub[p].at \notin {"locked", "stamped", "published"}
        /\ \A v \in Writers : phase[v] # "listing"
    BY <1>3 DEF LockSnapshot, Locked
  <2> QED
    BY <1>0, <1>3, <2>1 DEF LockSnapshot, Locked
<1>4. CASE Snapshot(w)
  <2>1. subLock = w /\ subLock' = Nobody
    BY <1>4 DEF Snapshot, Locked
  <2>2. \A v \in Writers : phase'[v] = "listing" => phase[v] = "listing" /\ v # w
    BY <1>0, <1>4 DEF Snapshot
  <2> QED
    BY <1>0, <2>1, <2>2, ReleaseLocked
<1>5. CASE Open(w)
  BY <1>0, <1>1, <1>5 DEF Open, Acquire, Load, LoadRefused, QuarantineTail, Rewrite, AfterLoad
<1>6. CASE \/ EndPass(w) \/ \E n \in ready : ConsumeDirect(w, n)
           \/ \E n \in queue[w] : Decide(w, n)
  BY <1>0, <1>1, <1>6 DEF EndPass, ConsumeDirect, Decide, Quarantine, Duplicate, Raise,
                          AppendLine, Unlink
<1>7. CASE \E n \in queue[w], how \in Tears : AppendInterrupted(w, n, how)
  <2>1. Forget(w) \/ (subLock' = subLock /\ phase' = [phase EXCEPT ![w] = "open"])
    BY <1>7 DEF AppendInterrupted
  <2> QED
    BY <1>0, <1>1, <1>2, <2>1
<1> QED
  BY <1>2, <1>3, <1>4, <1>5, <1>6, <1>7 DEF Consume, Close, WriterDies

\* Every step keeps the inbox invariant.
LEMMA InboxStep == ASSUME TypeOK, InboxInv, [Next]_vars PROVE InboxInv'
<1>1. CASE UNCHANGED vars
  BY <1>1 DEF vars, inbox, writer, InboxInv, Locked, Counted, Topmost, OrdinalsIncrease, Stamped
<1>2. CASE \E p \in Producers : Submit(p) \/ ProducerDies(p)
  BY <1>2, SubmitInbox, ProducerDiesInbox
<1>3. ASSUME NEW w \in Writers,
             \/ Open(w) \/ Consume(w) \/ Close(w) \/ WriterDies(w)
             \/ \E n \in queue[w], how \in Tears : AppendInterrupted(w, n, how)
      PROVE  InboxInv'
  <2>1. Locked'
    BY <1>3, WriterLocked DEF InboxInv
  <2> QED
    BY <1>3, <2>1, WriterFrame, FewerReady
<1> QED
  BY <1>1, <1>2, <1>3 DEF Next

(* Whoever dies between the choice of an ordinal and the rename, whatever the *)
(* clock returns and whatever an older version left in ready: a file that     *)
(* _ready_order_floor and the counter stamp gets a higher ordinal than every  *)
(* file before it.                                                            *)
THEOREM OrdinalsSafe == Spec => []OrdinalsIncrease
<1>1. Init => TypeInv /\ InboxInv
  BY InitType, InitInbox
<1>2. TypeInv /\ InboxInv /\ [Next]_vars => TypeInv' /\ InboxInv'
  BY TypeStep, InboxStep DEF TypeInv
<1>3. InboxInv => OrdinalsIncrease
  BY DEF InboxInv
<1> QED
  BY <1>1, <1>2, <1>3, PTL DEF Spec
-----------------------------------------------------------------------------
(***************************************************************************)
(* Delivery.  A file leaves ready only towards quarantine or once its       *)
(* envelope is recorded; the writer decides by a memory which, while        *)
(* interrupted appends leave only fragments, is the journal's content.      *)
(***************************************************************************)
Recorded(e) == \E i \in DOMAIN journal : journal[i].env = e

AppendedSeen ==
  \A w \in Writers : \A n \in queue[w] :
    phase[w] = "appended" /\ NextUp(w, n) => Env(n) \in mem[w].seen

DeliveryInv == NothingLost /\ QuarantineJustified /\ AppendedSeen

\* What a writer in use remembers is in the journal.
LEMMA SeenIsRecorded ==
  ASSUME Unshared, NEW w \in Writers, phase[w] \in Holding, NEW e \in mem[w].seen
  PROVE  Recorded(e)
<1>1. mem[w] = Absorbed(journal)
  BY DEF Unshared, InUse
<1>2. CASE journal = << >>
  BY <1>1, <1>2 DEF Absorbed, EmptyMemory
<1>3. CASE journal # << >>
  BY <1>1, <1>3 DEF Absorbed, Recorded
<1> QED
  BY <1>2, <1>3

\* What is recorded stays recorded.
LEMMA RecordedStays ==
  ASSUME OnlyTorn, ChainInv, [Next]_vars, NEW e, Recorded(e)
  PROVE  Recorded(e)'
<1>1. journal \in Seq(Line \cup GlueLine)
  BY DEF ChainInv, TypeInv, TypeOK
<1>2. ASSUME NEW line, journal' = Append(journal, line) PROVE Recorded(e)'
  BY <1>1, <1>2 DEF Recorded
<1> QED
  BY <1>2, JournalStep DEF Recorded

(* A published file keeps its number and its content; a new one is in ready. *)
LEMMA FilesStay ==
  ASSUME TypeOK, [Next]_vars
  PROVE  /\ \A n \in DOMAIN published : n \in DOMAIN published' /\ published'[n] = published[n]
         /\ \A n \in DOMAIN published' : n \in DOMAIN published \/ n \in ready'
<1>1. published' = published \/ \E p \in Producers : Publish(p)
  BY PublishedStep
<1>2. published \in Seq([ord : Nat, env : Envelope])
  BY DEF TypeOK
<1>3. ASSUME NEW p \in Producers, Publish(p)
      PROVE  /\ \A n \in DOMAIN published : n \in DOMAIN published' /\ published'[n] = published[n]
             /\ \A n \in DOMAIN published' : n \in DOMAIN published \/ n \in ready'
  <2>1. /\ published' = Append(published, [ord |-> sub[p].ord, env |-> sub[p].env])
        /\ ready' = ready \cup {Len(published) + 1}
    BY <1>3 DEF Publish
  <2> QED
    BY <1>2, <2>1
<1> QED
  BY <1>1, <1>3

\* A file leaves ready by being quarantined, recognised or recorded.
LEMMA LeavesReady ==
  ASSUME [Next]_vars, NEW n \in ready, n \notin ready'
  PROVE  \E w \in Writers : n \in queue[w] /\ (Quarantine(w, n) \/ Duplicate(w, n) \/ Unlink(w, n))
<1>1. ~ UNCHANGED vars
  BY DEF vars, inbox
<1>2. ASSUME NEW p \in Producers, Submit(p) \/ ProducerDies(p) PROVE FALSE
  BY <1>2 DEF Submit, ProducerDies, WriteTmp, LockInbox, Stamp, Publish, UnlockInbox, inbox
<1>3. ASSUME NEW w \in Writers,
             \/ Open(w) \/ Close(w) \/ WriterDies(w)
             \/ \E m \in queue[w], how \in Tears : AppendInterrupted(w, m, how)
      PROVE  FALSE
  BY <1>3 DEF Open, Acquire, Load, LoadRefused, QuarantineTail, Rewrite, Close, WriterDies,
              AppendInterrupted, inbox
<1>4. ASSUME NEW w \in Writers, Consume(w)
      PROVE  n \in queue[w] /\ (Quarantine(w, n) \/ Duplicate(w, n) \/ Unlink(w, n))
  <2>1. PICK m \in queue[w] : Decide(w, m)
    BY <1>4 DEF Consume, LockSnapshot, Snapshot, ConsumeDirect, EndPass, inbox
  <2>2. Quarantine(w, m) \/ Duplicate(w, m) \/ Unlink(w, m)
    BY <2>1 DEF Decide, Raise, AppendLine, inbox
  <2>3. n = m
    BY <2>2 DEF Quarantine, Duplicate, Unlink
  <2> QED
    BY <2>2, <2>3
<1> QED
  BY <1>1, <1>2, <1>3, <1>4 DEF Next

\* A file enters quarantine by a writer's decision only.
LEMMA EntersQuarantine ==
  ASSUME [Next]_vars
  PROVE  /\ quarantine \subseteq quarantine'
         /\ \A n \in quarantine' : n \in quarantine \/ \E w \in Writers : Quarantine(w, n)
<1>1. ASSUME UNCHANGED vars PROVE quarantine' = quarantine
  BY <1>1 DEF vars
<1>2. ASSUME NEW p \in Producers, Submit(p) \/ ProducerDies(p) PROVE quarantine' = quarantine
  BY <1>2 DEF Submit, ProducerDies, WriteTmp, LockInbox, Stamp, Publish, UnlockInbox
<1>3. ASSUME NEW w \in Writers, Open(w) \/ Close(w) \/ WriterDies(w) PROVE quarantine' = quarantine
  BY <1>3 DEF Open, Acquire, Load, LoadRefused, QuarantineTail, Rewrite, Close, WriterDies
<1>4. ASSUME NEW w \in Writers, NEW n \in queue[w], NEW how \in Tears, AppendInterrupted(w, n, how)
      PROVE  quarantine' = quarantine
  BY <1>4 DEF AppendInterrupted
<1>5. ASSUME NEW w \in Writers, Consume(w)
      PROVE  \/ quarantine' = quarantine
             \/ \E n \in queue[w] : Quarantine(w, n)
  <2>1. CASE LockSnapshot(w) \/ Snapshot(w) \/ EndPass(w) \/ \E n \in ready : ConsumeDirect(w, n)
    BY <2>1 DEF LockSnapshot, Snapshot, EndPass, ConsumeDirect
  <2>2. ASSUME NEW n \in queue[w], Duplicate(w, n) \/ Raise(w, n) \/ AppendLine(w, n) \/ Unlink(w, n)
        PROVE  quarantine' = quarantine
    BY <2>2 DEF Duplicate, Raise, AppendLine, Unlink
  <2> QED
    BY <1>5, <2>1, <2>2 DEF Consume, Decide
<1> DEFINE Goal == /\ quarantine \subseteq quarantine'
                   /\ \A n \in quarantine' : n \in quarantine \/ \E w \in Writers : Quarantine(w, n)
<1>6. ASSUME quarantine' = quarantine PROVE Goal
  BY <1>6
<1>7. ASSUME NEW w \in Writers, NEW n \in queue[w], Quarantine(w, n) PROVE Goal
  <2>1. quarantine' = quarantine \cup {n}
    BY <1>7 DEF Quarantine
  <2> QED
    BY <1>7, <2>1
<1> HIDE DEF Goal
<1>8. ASSUME NEW w \in Writers,
             \/ Open(w) \/ Consume(w) \/ Close(w) \/ WriterDies(w)
             \/ \E n \in queue[w], how \in Tears : AppendInterrupted(w, n, how)
      PROVE  Goal
  <2>1. CASE Open(w) \/ Close(w) \/ WriterDies(w)
    BY <1>3, <1>6, <2>1
  <2>2. CASE Consume(w)
    BY <1>5, <1>6, <1>7, <2>2
  <2>3. CASE \E n \in queue[w], how \in Tears : AppendInterrupted(w, n, how)
    BY <1>4, <1>6, <2>3
  <2> QED
    BY <1>8, <2>1, <2>2, <2>3
<1>9. Goal
  BY <1>1, <1>2, <1>6, <1>8 DEF Next
<1> QED
  BY <1>9 DEF Goal

\* Every step keeps what was published somewhere.
LEMMA NothingLostStep ==
  ASSUME OnlyTorn, ChainInv, DeliveryInv, [Next]_vars
  PROVE  NothingLost'
<1> USE DEF ChainInv, TypeInv
<1> SUFFICES ASSUME NEW n \in DOMAIN published'
             PROVE  n \in ready' \cup quarantine' \/ Recorded(Env(n))'
  BY DEF NothingLost, Recorded
<1>1. CASE n \notin DOMAIN published
  BY <1>1, FilesStay
<1>2. CASE n \in DOMAIN published
  <2>1. Env(n)' = Env(n)
    BY <1>2, FilesStay DEF Env
  <2>2. Recorded(Env(n)) => Recorded(Env(n))'
    <3>1. ASSUME Recorded(Env(n)) PROVE \E i \in DOMAIN journal' : journal'[i].env = Env(n)
      BY <3>1, RecordedStays DEF Recorded
    <3> QED
      BY <2>1, <3>1 DEF Recorded
  <2>3. CASE n \in quarantine
    BY <2>3, EntersQuarantine
  <2>4. CASE n \in ready /\ n \notin ready'
    <3> PICK w \in Writers : n \in queue[w] /\ (Quarantine(w, n) \/ Duplicate(w, n) \/ Unlink(w, n))
      BY <2>4, LeavesReady
    <3>1. CASE Quarantine(w, n)
      BY <3>1 DEF Quarantine
    <3>2. CASE Duplicate(w, n) \/ Unlink(w, n)
      <4>1. phase[w] \in Holding /\ Env(n) \in mem[w].seen
        BY <3>2 DEF Duplicate, Unlink, Deciding, Holding, DeliveryInv, AppendedSeen
      <4> QED
        BY <2>2, <4>1, SeenIsRecorded
    <3> QED
      BY <3>1, <3>2
  <2> QED
    BY <1>2, <2>2, <2>3, <2>4 DEF DeliveryInv, NothingLost, Recorded
<1> QED
  BY <1>1, <1>2

\* Every step keeps quarantine justified.
LEMMA QuarantineJustifiedStep ==
  ASSUME OnlyTorn, ChainInv, DeliveryInv, [Next]_vars
  PROVE  QuarantineJustified'
<1> USE DEF ChainInv, TypeInv
<1> DEFINE Clashing(e, f) == e # f /\ Clashes({e}, f)
<1> SUFFICES ASSUME NEW n \in quarantine'
             PROVE  \/ Env(n)' \in Malformed
                    \/ \E i \in DOMAIN journal' : Clashing(journal'[i].env, Env(n)')
  BY DEF QuarantineJustified, Clashes
<1>1. n \in DOMAIN published /\ Env(n)' = Env(n)
  <2>1. n \in DOMAIN published
    BY EntersQuarantine DEF Quarantine, Deciding, NextUp, TypeOK
  <2> QED
    BY <2>1, FilesStay DEF Env
<1>2. Env(n) \in Malformed \/ \E i \in DOMAIN journal : Clashing(journal[i].env, Env(n))
  <2>1. CASE n \in quarantine
    BY <2>1 DEF DeliveryInv, QuarantineJustified
  <2>2. ASSUME NEW w \in Writers, Quarantine(w, n), Env(n) \notin Malformed
        PROVE  \E i \in DOMAIN journal : Clashing(journal[i].env, Env(n))
    <3>1. phase[w] \in Holding /\ Env(n) \notin mem[w].seen /\ Clashes(mem[w].seen, Env(n))
      BY <2>2 DEF Quarantine, Refused, Deciding, Holding
    <3>2. PICK s \in mem[w].seen : s.pid = Env(n).pid \/ s.eid = Env(n).eid
      BY <3>1 DEF Clashes
    <3>3. PICK i \in DOMAIN journal : journal[i].env = s
      BY <3>1, SeenIsRecorded DEF Recorded
    <3> QED
      BY <3>1, <3>2, <3>3 DEF Clashes
  <2> QED
    BY <2>1, <2>2, EntersQuarantine
<1>3. ASSUME NEW i \in DOMAIN journal, Clashing(journal[i].env, Env(n))
      PROVE  \E j \in DOMAIN journal' : Clashing(journal'[j].env, Env(n)')
  <2>1. Recorded(journal[i].env)
    BY DEF Recorded
  <2>2. PICK j \in DOMAIN journal' : journal'[j].env = journal[i].env
    BY <2>1, RecordedStays DEF Recorded
  <2> QED
    BY <1>1, <1>3, <2>2
<1> QED
  BY <1>1, <1>2, <1>3

\* A pass has one next file.
LEMMA NextUpUnique ==
  ASSUME TypeOK, NEW w \in Writers, NEW m, NEW n, NextUp(w, m), NextUp(w, n)
  PROVE  m = n
<1>1. m \in DOMAIN published /\ n \in DOMAIN published
  BY DEF NextUp, TypeOK
<1>2. published[m].ord \in Nat /\ published[n].ord \in Nat /\ m \in Nat /\ n \in Nat
  BY <1>1, PublishedEntry DEF TypeOK
<1>3. m # n => Before(m, n) /\ Before(n, m)
  BY DEF NextUp
<1> QED
  BY <1>2, <1>3 DEF Before

(* Only the append moves a writer to unlink the file it is at. *)
LEMMA EntersAppended ==
  ASSUME TypeOK, [Next]_vars, NEW w \in Writers, phase'[w] = "appended"
  PROVE  \/ UNCHANGED <<phase[w], mem[w], queue[w]>>
         \/ \E n \in queue[w] : AppendLine(w, n)
<1>0. phase \in [Writers -> Phase] /\ mem \in [Writers -> Memory] /\ DOMAIN queue = Writers
  BY DEF TypeOK
<1>1. CASE UNCHANGED vars
  BY <1>1 DEF vars, writer
<1>2. ASSUME NEW p \in Producers, Submit(p) \/ ProducerDies(p)
      PROVE  UNCHANGED <<phase[w], mem[w], queue[w]>>
  BY <1>2 DEF Submit, ProducerDies, WriteTmp, LockInbox, Stamp, Publish, UnlockInbox, writer
<1>3. ASSUME NEW v \in Writers, v # w,
             \/ Open(v) \/ Consume(v) \/ Close(v) \/ WriterDies(v)
             \/ \E n \in queue[v], how \in Tears : AppendInterrupted(v, n, how)
      PROVE  UNCHANGED <<phase[w], mem[w], queue[w]>>
  BY <1>0, <1>3 DEF Open, Acquire, Load, LoadRefused, QuarantineTail, Rewrite, Consume, Decide,
     LockSnapshot, Snapshot, ConsumeDirect, EndPass, Quarantine, Duplicate, Raise, AppendLine,
     Unlink, Processed, Close, WriterDies, Forget, AppendInterrupted
<1>4. ASSUME Open(w) \/ Close(w) \/ WriterDies(w) PROVE FALSE
  BY <1>0, <1>4 DEF Open, Acquire, Load, LoadRefused, QuarantineTail, Rewrite, AfterLoad, Close,
     WriterDies, Forget
<1>5. ASSUME NEW n \in queue[w], NEW how \in Tears, AppendInterrupted(w, n, how) PROVE FALSE
  BY <1>0, <1>5 DEF AppendInterrupted, Forget
<1>6. ASSUME Consume(w) PROVE \E n \in queue[w] : AppendLine(w, n)
  BY <1>0, <1>6 DEF Consume, Decide, LockSnapshot, Snapshot, ConsumeDirect, EndPass, Quarantine,
     Duplicate, Raise, Unlink, Deciding
<1> QED
  BY <1>1, <1>2, <1>3, <1>4, <1>5, <1>6 DEF Next

\* The file to be unlinked stays in its writer's memory.
LEMMA AppendedSeenStep ==
  ASSUME TypeOK, AppendedSeen, [Next]_vars
  PROVE  AppendedSeen'
<1> SUFFICES ASSUME NEW w \in Writers, NEW n \in queue'[w], phase'[w] = "appended", NextUp(w, n)'
             PROVE  (Env(n) \in mem[w].seen)'
  BY DEF AppendedSeen
<1>1. queue'[w] = queue[w]
  BY EntersAppended DEF AppendLine
<1>2. /\ n \in DOMAIN published /\ Env(n)' = Env(n)
      /\ \A m \in queue[w] : published'[m] = published[m]
  BY <1>1, FilesStay DEF Env, TypeOK
<1>3. NextUp(w, n)
  BY <1>1, <1>2 DEF NextUp, Before
<1>4. CASE UNCHANGED <<phase[w], mem[w], queue[w]>>
  BY <1>1, <1>2, <1>3, <1>4 DEF AppendedSeen
<1>5. ASSUME NEW m \in queue[w], AppendLine(w, m) PROVE Env(n) \in mem'[w].seen
  <2>1. m = n
    BY <1>3, <1>5, NextUpUnique DEF AppendLine, Fresh, Deciding
  <2> QED
    BY <1>5, <2>1 DEF AppendLine, Finalized, TypeOK
<1> QED
  BY <1>2, <1>4, <1>5, EntersAppended

\* The delivery invariant holds at the start.
LEMMA InitDelivery == Init => DeliveryInv
BY DEF Init, DeliveryInv, NothingLost, QuarantineJustified, AppendedSeen

\* Every step keeps the delivery invariant.
LEMMA DeliveryStep ==
  ASSUME OnlyTorn, ChainInv, DeliveryInv, [Next]_vars
  PROVE  ChainInv' /\ DeliveryInv'
BY ChainStep, NothingLostStep, QuarantineJustifiedStep, AppendedSeenStep
   DEF DeliveryInv, ChainInv, TypeInv

\* The delivery invariant, for appends that leave only fragments.
LEMMA DeliveryHolds == OnlyTorn => (Spec => []DeliveryInv)
<1> SUFFICES ASSUME OnlyTorn PROVE Spec => []DeliveryInv
  OBVIOUS
<1>1. Init => ChainInv /\ DeliveryInv
  BY InitType, InitChain, InitDelivery DEF ChainInv
<1>2. ChainInv /\ DeliveryInv /\ [Next]_vars => ChainInv' /\ DeliveryInv'
  BY DeliveryStep
<1> QED
  BY <1>1, <1>2, PTL DEF Spec

(* Whoever dies between whichever two file-system operations, an accepted     *)
(* envelope is in ready, in quarantine or in the journal.                     *)
THEOREM DeliverySafe == OnlyTorn => (Spec => []NothingLost)
<1>1. DeliveryInv => NothingLost
  BY DEF DeliveryInv
<1> QED
  BY <1>1, DeliveryHolds, PTL

(* Quarantine gets only what is malformed or contradicts a record, also when  *)
(* the writer that put it there decided from a memory it rebuilt.             *)
THEOREM QuarantineSafe == OnlyTorn => (Spec => []QuarantineJustified)
<1>1. DeliveryInv => QuarantineJustified
  BY DEF DeliveryInv
<1> QED
  BY <1>1, DeliveryHolds, PTL

-----------------------------------------------------------------------------
(***************************************************************************)
(* Order.  When every record comes from a consume_ready pass, a pass holds  *)
(* the oldest files of ready and takes them by ordinal, which is the order  *)
(* of publication; a file recorded before a crash is still the oldest, and  *)
(* is then found a duplicate.                                               *)
(***************************************************************************)
LegacyKept == \A n \in DOMAIN Legacy : n \in DOMAIN published /\ published[n] = Legacy[n]

NoneSkipped ==
  \A i \in DOMAIN journal :
    /\ journal[i].n \in DOMAIN published /\ journal[i].env = Env(journal[i].n)
    /\ \A m \in ready : journal[i].n <= m

OldestFirst ==
  \A w \in Writers : phase[w] \in {"pass", "appended"} =>
    /\ queue[w] \subseteq ready
    /\ \A k \in queue[w], m \in ready \ queue[w] : k < m

OrderInv == LegacyKept /\ NoneSkipped /\ OldestFirst /\ OrderFollowsPublication

\* The next file of a pass is the oldest one in ready.
LEMMA NextUpIsOldest ==
  ASSUME TypeOK, LegacyKept, OldestFirst, OrdinalsIncrease,
         NEW w \in Writers, NEW n \in queue[w], phase[w] \in {"pass", "appended"}, NextUp(w, n),
         NEW m \in ready
  PROVE  n <= m
<1>1. /\ n \in DOMAIN published /\ m \in DOMAIN published /\ n \in Nat /\ m \in Nat /\ n \in ready
  BY DEF TypeOK, OldestFirst
<1>2. published[n].ord \in Nat /\ published[m].ord \in Nat
  BY <1>1, PublishedEntry
<1>3. CASE m \notin queue[w]
  BY <1>1, <1>3 DEF OldestFirst
<1>4. CASE m \in queue[w] /\ m < n
  <2>1. Before(n, m)
    BY <1>1, <1>4 DEF NextUp
  <2>2. CASE n > Len(Legacy)
    BY <1>1, <1>2, <1>4, <2>1, <2>2 DEF OrdinalsIncrease, Before
  <2>3. CASE ~(n > Len(Legacy))
    <3>1. n \in DOMAIN Legacy /\ m \in DOMAIN Legacy
      BY <1>1, <1>4, <2>3, LegacySeq DEF TypeOK
    <3>2. Legacy[m].ord <= Legacy[n].ord
      BY <1>1, <1>4, <3>1, LegacyAssumption DEF LegacyAssumption
    <3>3. published[m].ord <= published[n].ord
      BY <3>1, <3>2 DEF LegacyKept
    <3> QED
      BY <1>1, <1>2, <1>4, <2>1, <3>3 DEF Before
  <2> QED
    BY <2>2, <2>3
<1> QED
  BY <1>1, <1>3, <1>4

\* A step that touches neither files, lines nor passes keeps the order.
LEMMA OrderFrame ==
  ASSUME OrderInv, UNCHANGED <<published, ready, journal>>,
         \A w \in Writers : phase'[w] \in {"pass", "appended"} =>
           phase[w] \in {"pass", "appended"} /\ queue'[w] = queue[w]
  PROVE  OrderInv'
BY DEF OrderInv, LegacyKept, NoneSkipped, OldestFirst, OrderFollowsPublication, Env

\* Publishing keeps the order: the new file is the youngest.
LEMMA PublishOrder ==
  ASSUME ChainInv, OrderInv, NEW p \in Producers, Publish(p)
  PROVE  OrderInv'
<1> DEFINE N == Len(published) + 1
<1>1. /\ ready' = ready \cup {N} /\ UNCHANGED <<journal, phase, queue>>
      /\ published' = Append(published, [ord |-> sub[p].ord, env |-> sub[p].env])
  BY DEF Publish, disk, writer
<1>2. /\ published \in Seq([ord : Nat, env : Envelope])
      /\ ready \subseteq DOMAIN published /\ queue \in [Writers -> SUBSET (DOMAIN published)]
  BY DEF ChainInv, TypeInv, TypeOK
<1>3. /\ \A n \in DOMAIN published : n \in DOMAIN published' /\ published'[n] = published[n]
      /\ \A n \in DOMAIN published : n < N
  BY <1>1, <1>2
<1>4. LegacyKept'
  BY <1>3 DEF OrderInv, LegacyKept
<1>5. NoneSkipped'
  BY <1>1, <1>3 DEF OrderInv, NoneSkipped, Env
<1>6. OldestFirst'
  BY <1>1, <1>2, <1>3 DEF OrderInv, OldestFirst
<1> QED
  BY <1>1, <1>4, <1>5, <1>6 DEF OrderInv, OrderFollowsPublication

\* Recording keeps the order: the recorded file was the oldest.
LEMMA AppendOrder ==
  ASSUME ChainInv, OrdinalsIncrease, OrderInv,
         NEW w \in Writers, NEW n \in queue[w], AppendLine(w, n)
  PROVE  OrderInv'
<1> USE DEF ChainInv, TypeInv
<1>1. journal' = Append(journal, Finalized(w, n))
  BY AppendChain
<1>2. /\ Fresh(w, n) /\ phase[w] = "pass" /\ NextUp(w, n)
      /\ UNCHANGED <<published, ready, queue>> /\ phase' = [phase EXCEPT ![w] = "appended"]
  BY DEF AppendLine, Fresh, Deciding, inbox
<1>3. \A m \in ready : n <= m
  BY <1>2, NextUpIsOldest DEF OrderInv
<1>4. n \in ready /\ n \in DOMAIN published /\ n \in Nat
  BY <1>2 DEF OrderInv, OldestFirst, TypeOK
<1>5. \A i \in DOMAIN journal : journal[i].n < n
  <2>1. SUFFICES ASSUME NEW i \in DOMAIN journal PROVE journal[i].n < n
    OBVIOUS
  <2>2. journal[i].n <= n /\ journal[i].n \in Nat /\ journal[i].env = Env(journal[i].n)
    BY <1>4 DEF OrderInv, NoneSkipped, TypeOK
  <2>3. journal[i].n # n
    <3>1. ASSUME journal[i].n = n PROVE FALSE
      <4>1. mem[w] = Absorbed(journal)
        BY <1>2 DEF Unshared, InUse, Holding
      <4>2. Env(n) \in mem[w].seen
        BY <2>2, <3>1, <4>1 DEF Absorbed
      <4> QED
        BY <1>2, <4>2 DEF Fresh, Clashes
    <3> QED
      BY <3>1
  <2> QED
    BY <1>4, <2>2, <2>3
<1>6. /\ DOMAIN journal' = 1 .. (Len(journal) + 1) /\ DOMAIN journal = 1 .. Len(journal)
      /\ Len(journal) \in Nat
      /\ \A i \in DOMAIN journal : journal'[i] = journal[i]
      /\ journal'[Len(journal) + 1] = Finalized(w, n)
  <2>1. journal \in Seq(Line \cup GlueLine)
    BY DEF TypeOK
  <2> QED
    BY <1>1, <2>1
<1>7. Finalized(w, n).n = n /\ Finalized(w, n).env = Env(n)
  BY DEF Finalized
<1>8. LegacyKept' /\ OldestFirst'
  BY <1>2 DEF OrderInv, LegacyKept, OldestFirst, TypeOK
<1>9. NoneSkipped'
  <2> SUFFICES ASSUME NEW i \in DOMAIN journal'
               PROVE  /\ journal'[i].n \in DOMAIN published'
                      /\ journal'[i].env = published'[journal'[i].n].env
                      /\ \A m \in ready' : journal'[i].n <= m
    BY DEF NoneSkipped, Env
  <2>1. CASE i \in DOMAIN journal
    BY <1>2, <1>6, <2>1 DEF OrderInv, NoneSkipped, Env
  <2>2. CASE i = Len(journal) + 1
    BY <1>2, <1>3, <1>4, <1>6, <1>7, <2>2 DEF Env
  <2> QED
    BY <1>6, <2>1, <2>2
<1>10. OrderFollowsPublication'
  <2> SUFFICES ASSUME NEW i \in DOMAIN journal', NEW j \in DOMAIN journal', i < j
               PROVE  journal'[i].n < journal'[j].n
    BY DEF OrderFollowsPublication
  <2>1. i \in DOMAIN journal /\ journal'[i].n = journal[i].n
    BY <1>6
  <2>2. CASE j \in DOMAIN journal
    BY <1>6, <2>1, <2>2 DEF OrderInv, OrderFollowsPublication
  <2>3. CASE j = Len(journal) + 1
    BY <1>5, <1>6, <1>7, <2>1, <2>3
  <2> QED
    BY <1>6, <2>2, <2>3
<1> QED
  BY <1>8, <1>9, <1>10 DEF OrderInv

(* The file at hand leaves ready and the pass together. *)
LEMMA TakenOrder ==
  ASSUME ChainInv, OrderInv, NEW w \in Writers, NEW n \in queue[w],
         Quarantine(w, n) \/ Duplicate(w, n) \/ Unlink(w, n)
  PROVE  OrderInv'
<1> USE DEF ChainInv, TypeInv
<1>1. /\ phase[w] \in {"pass", "appended"} /\ ready' = ready \ {n} /\ Processed(w, n)
      /\ UNCHANGED <<published, journal>>
      /\ \A v \in Writers : v # w => phase'[v] = phase[v]
  BY DEF Quarantine, Duplicate, Unlink, Deciding, disk, TypeOK
<1>2. \A v \in Writers : v # w => phase[v] = "closed"
  BY <1>1 DEF Unshared, Owned
<1>3. queue'[w] = queue[w] \ {n}
  BY <1>1 DEF Processed, TypeOK
<1>4. OldestFirst'
  BY <1>1, <1>2, <1>3 DEF OrderInv, OldestFirst
<1> QED
  BY <1>1, <1>4 DEF OrderInv, LegacyKept, NoneSkipped, OrderFollowsPublication, Env

\* A listing taken under the submission lock has the oldest files.
LEMMA SnapshotOrder ==
  ASSUME TypeOK, OrderInv, NEW w \in Writers, Snapshot(w)
  PROVE  OrderInv'
<1>1. /\ queue'[w] = ready /\ UNCHANGED <<published, ready, journal>>
      /\ \A v \in Writers : v # w => phase'[v] = phase[v] /\ queue'[v] = queue[v]
  BY DEF Snapshot, Listed, TypeOK, inbox, disk
<1>2. OldestFirst'
  BY <1>1 DEF OrderInv, OldestFirst
<1> QED
  BY <1>1, <1>2 DEF OrderInv, LegacyKept, NoneSkipped, OrderFollowsPublication, Env

\* Every step keeps the order.
LEMMA OrderStep ==
  ASSUME OnlyTorn, ~Direct, ChainInv, OrdinalsIncrease, OrderInv, [Next]_vars
  PROVE  OrderInv'
<1> USE DEF ChainInv, TypeInv
<1>0. phase \in [Writers -> Phase] /\ DOMAIN queue = Writers
  BY DEF TypeOK
<1>1. CASE UNCHANGED vars
  BY <1>1, OrderFrame DEF vars, inbox, disk, writer
<1>2. ASSUME NEW p \in Producers, Submit(p) \/ ProducerDies(p) PROVE OrderInv'
  BY <1>2, OrderFrame, PublishOrder
     DEF Submit, ProducerDies, WriteTmp, LockInbox, Stamp, UnlockInbox, inbox, disk, writer
<1>3. ASSUME NEW w \in Writers, Open(w) PROVE OrderInv'
  <2>1. UNCHANGED <<published, ready, journal>>
    BY <1>3 DEF Open, Acquire, Load, LoadRefused, QuarantineTail, Rewrite, inbox, disk,
                Unshared, Recovering
  <2>2. \A v \in Writers : phase'[v] \in {"pass", "appended"} =>
           phase[v] \in {"pass", "appended"} /\ queue'[v] = queue[v]
    BY <1>0, <1>3 DEF Open, Acquire, Load, LoadRefused, QuarantineTail, Rewrite, AfterLoad
  <2> QED
    BY <2>1, <2>2, OrderFrame
<1>4. ASSUME NEW w \in Writers, LockSnapshot(w) \/ EndPass(w) PROVE OrderInv'
  BY <1>0, <1>4, OrderFrame DEF LockSnapshot, EndPass, inbox, disk
<1>5. ASSUME NEW w \in Writers, NEW n \in queue[w], Decide(w, n) PROVE OrderInv'
  <2>1. CASE Raise(w, n)
    BY <1>0, <2>1, OrderFrame DEF Raise, inbox, disk
  <2> QED
    BY <1>5, <2>1, AppendOrder, TakenOrder DEF Decide
<1>6. ASSUME NEW w \in Writers, Consume(w) PROVE OrderInv'
  BY <1>4, <1>5, <1>6, SnapshotOrder DEF Consume, ConsumeDirect
<1>7. ASSUME NEW w \in Writers,
             \/ Close(w) \/ WriterDies(w)
             \/ \E n \in queue[w], how \in Tears : AppendInterrupted(w, n, how)
      PROVE  OrderInv'
  <2>1. journal' = journal
    BY <1>7, WriterLeavesChain
  <2>2. Forget(w) /\ UNCHANGED <<published, ready>>
    BY <1>7 DEF OnlyTorn, Close, WriterDies, AppendInterrupted, inbox
  <2>3. \A v \in Writers : phase'[v] \in {"pass", "appended"} =>
           phase[v] \in {"pass", "appended"} /\ queue'[v] = queue[v]
    BY <1>0, <2>2 DEF Forget
  <2> QED
    BY <2>1, <2>2, <2>3, OrderFrame
<1> QED
  BY <1>1, <1>2, <1>3, <1>6, <1>7 DEF Next

(* Across clock rollbacks, passes, crashes and successive writers the journal *)
(* records envelopes in the order in which their files were published.        *)
THEOREM OrderSafe == OnlyTorn /\ ~Direct => (Spec => []OrderFollowsPublication)
<1> SUFFICES ASSUME OnlyTorn, ~Direct PROVE Spec => []OrderFollowsPublication
  OBVIOUS
<1> DEFINE Inv == ChainInv /\ InboxInv /\ OrderInv
<1>1. Init => Inv
  <2>1. Init => ChainInv /\ InboxInv
    BY InitType, InitChain, InitInbox DEF ChainInv
  <2>2. Init => OrderInv
    BY DEF Init, OrderInv, LegacyKept, NoneSkipped, OldestFirst, OrderFollowsPublication
  <2> QED
    BY <2>1, <2>2
<1>2. Inv /\ [Next]_vars => Inv'
  <2>1. Inv /\ [Next]_vars => ChainInv' /\ InboxInv'
    BY ChainStep, InboxStep DEF ChainInv, TypeInv
  <2>2. Inv /\ [Next]_vars => OrderInv'
    BY OrderStep DEF InboxInv
  <2> QED
    BY <2>1, <2>2
<1>3. Inv => OrderFollowsPublication
  BY DEF OrderInv
<1> HIDE DEF Inv
<1> QED
  BY <1>1, <1>2, <1>3, PTL DEF Spec
=============================================================================
