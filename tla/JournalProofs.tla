--------------------------- MODULE JournalProofs ----------------------------
(***************************************************************************)
(* Proofs about Journal, for every set of producers, writers and envelopes *)
(* and every bound: the types, then the integrity of the chain.            *)
(***************************************************************************)
EXTENDS Journal, TLAPS

(* _absorb computes well-typed memory from well-typed lines, and the digest of *)
(* a line is a history again.                                                  *)
LEMMA DigestType ==
  ASSUME NEW l \in Line
  PROVE  Digest(l) \in History
BY DEF Digest, Line, History

\* Absorbing lines gives a memory.
LEMMA AbsorbedType ==
  ASSUME NEW lines \in Seq(Line)
  PROVE  Absorbed(lines) \in Memory
<1>1. CASE lines = << >>
  BY <1>1 DEF Absorbed, EmptyMemory, Genesis, Memory, History
<1>2. CASE lines # << >>
  <2>1. Len(lines) \in DOMAIN lines /\ Len(lines) \in Nat
    BY <1>2
  <2>2. lines[Len(lines)] \in Line
    BY <2>1
  <2>3. Digest(lines[Len(lines)]) \in History
    BY <2>2, DigestType
  <2>4. {lines[i].env : i \in DOMAIN lines} \in SUBSET Accepted
    <3>1. \A i \in DOMAIN lines : lines[i] \in Line
      OBVIOUS
    <3>2. \A i \in DOMAIN lines : lines[i].env \in Accepted
      BY <3>1 DEF Line
    <3> QED
      BY <3>2
  <2>5. lines[Len(lines)].seq \in Nat
    BY <2>2 DEF Line
  <2> QED
    BY <1>2, <2>3, <2>4, <2>5 DEF Absorbed, Memory
<1> QED
  BY <1>1, <1>2

(* A journal that reads has no glued line. *)
LEMMA ReadableLines ==
  ASSUME NEW lines \in Seq(Line \cup GlueLine), Readable(lines)
  PROVE  lines \in Seq(Line)
<1>1. ASSUME NEW i \in DOMAIN lines PROVE lines[i] \in Line
  <2>1. lines[i] \in Line \cup GlueLine
    OBVIOUS
  <2>2. lines[i].whole
    BY DEF Readable
  <2> QED
    BY <2>1, <2>2 DEF GlueLine
<1> QED
  BY <1>1

\* An entry of a sequence over a set is in that set.
LEMMA SeqEntry ==
  ASSUME NEW S, NEW s \in Seq(S), NEW i \in DOMAIN s
  PROVE  s[i] \in S
OBVIOUS

\* A published file has an ordinal and an envelope.
LEMMA PublishedEntry ==
  ASSUME TypeOK, NEW n \in DOMAIN published
  PROVE  published[n] \in [ord : Nat, env : Envelope]
<1>1. published \in Seq([ord : Nat, env : Envelope])
  BY DEF TypeOK
<1> QED
  BY <1>1, SeqEntry

(* What _finalize produces for a fresh file is a well-typed line. *)
LEMMA FinalizedType ==
  ASSUME TypeOK, NEW w \in Writers, NEW n \in queue[w], Fresh(w, n), Env(n) \notin Lax
  PROVE  Finalized(w, n) \in Line /\ n \in DOMAIN published /\ Env(n) \in Accepted
<1>1. n \in DOMAIN published /\ n \in Nat
  BY DEF TypeOK
<1>2. Env(n) \in Accepted
  <2>1. published[n] \in [ord : Nat, env : Envelope]
    BY <1>1, PublishedEntry
  <2> QED
    BY <2>1 DEF Fresh, Env, Accepted
<1>3. mem[w].seq \in Nat /\ mem[w].last \in History
  BY DEF TypeOK, Memory
<1> QED
  BY <1>1, <1>2, <1>3 DEF Finalized, Line

\* Extending the journal by a line gives lines and glued lines.
LEMMA ExtendedType ==
  ASSUME TypeOK, NEW line \in Line, tail = "bare" => journal # << >>
  PROVE  Extended(line) \in Seq(Line \cup GlueLine)
<1>1. Glue(line.n) \in Line \cup GlueLine
  BY DEF Glue, GlueLine, Line
<1>2. journal \in Seq(Line \cup GlueLine) /\ tail \in Ending
  BY DEF TypeOK
<1> QED
  BY <1>1, <1>2 DEF Extended, Ending
-----------------------------------------------------------------------------
(* A bare ending is the ending of some last line; a fragment has been counted. *)
EndingFits ==
  /\ tail = "bare" => journal # << >>
  /\ tail = "fragment" => torn > 0
  /\ \A w \in Writers : phase[w] = "salvage" => torn > 0

TypeInv == TypeOK /\ EndingFits

\* The types hold at the start.
LEMMA InitType == Init => TypeInv
<1> SUFFICES ASSUME Init PROVE TypeInv
  OBVIOUS
<1>1. Legacy \in Seq([ord : Nat, env : Envelope])
  BY LegacyAssumption
<1>2. sub \in [Producers -> SubmitState]
  BY DEF Init, Idle, SubmitState
<1>3. EmptyMemory \in Memory
  BY DEF EmptyMemory, Memory, Genesis, History
<1> QED
  BY <1>1, <1>2, <1>3 DEF Init, TypeInv, EndingFits, TypeOK, Ending, Phase

\* submit_event keeps the types.
LEMMA SubmitType == ASSUME TypeInv, NEW p \in Producers, Submit(p) PROVE TypeInv'
<1> USE DEF TypeInv, EndingFits
<1>1. ASSUME NEW e \in Envelope, WriteTmp(p, e) PROVE TypeInv'
  <2>1. sub' \in [Producers -> SubmitState]
    BY <1>1 DEF WriteTmp, TypeOK, SubmitState
  <2> QED
    BY <1>1, <2>1 DEF WriteTmp, TypeOK, inbox, disk, writer
<1>2. ASSUME LockInbox(p) PROVE TypeInv'
  <2>1. sub[p] \in SubmitState /\ sub[p].at = "tmp"
    BY <1>2 DEF LockInbox, TypeOK
  <2>2. [sub[p] EXCEPT !.at = "locked"] \in SubmitState
    BY <2>1 DEF SubmitState
  <2>3. sub' \in [Producers -> SubmitState]
    BY <1>2, <2>2 DEF LockInbox, TypeOK
  <2> QED
    BY <1>2, <2>3 DEF LockInbox, TypeOK, inbox, disk, writer
<1>3. ASSUME NEW now \in Clock, Stamp(p, now) PROVE TypeInv'
  <2>1. sub[p] \in SubmitState /\ sub[p].at = "locked"
    BY <1>3 DEF Stamp, TypeOK
  <2>2. sub[p].env \in Envelope
    BY <2>1 DEF SubmitState
  <2>3. Candidates(now) \subseteq Nat
    <3>1. \A n \in ready : published[n] \in [ord : Nat, env : Envelope]
      <4>1. ready \subseteq DOMAIN published
        BY DEF TypeOK
      <4> QED
        BY <4>1, PublishedEntry
    <3> QED
      BY <3>1, BoundAssumption DEF TypeOK, Candidates
  <2>4. counter' \in Nat /\ sub' \in [Producers -> SubmitState]
    BY <1>3, <2>2, <2>3 DEF Stamp, TypeOK, SubmitState
  <2> QED
    BY <1>3, <2>4 DEF Stamp, TypeOK, disk, writer
<1>4. ASSUME Publish(p) PROVE TypeInv'
  <2>1. sub[p] \in SubmitState /\ sub[p].at = "stamped"
    BY <1>4 DEF Publish, TypeOK
  <2>2. [ord |-> sub[p].ord, env |-> sub[p].env] \in [ord : Nat, env : Envelope]
    BY <2>1 DEF SubmitState
  <2>3. published \in Seq([ord : Nat, env : Envelope])
    BY DEF TypeOK
  <2>4. /\ published' \in Seq([ord : Nat, env : Envelope])
        /\ DOMAIN published' = DOMAIN published \cup {Len(published) + 1}
    BY <1>4, <2>2, <2>3 DEF Publish
  <2>5. sub' \in [Producers -> SubmitState]
    BY <1>4 DEF Publish, TypeOK, SubmitState
  <2>6. queue' \in [Writers -> SUBSET (DOMAIN published')]
    BY <1>4, <2>4 DEF Publish, TypeOK, writer
  <2> QED
    BY <1>4, <2>4, <2>5, <2>6 DEF Publish, TypeOK, disk, writer
<1>5. ASSUME UnlockInbox(p) PROVE TypeInv'
  <2>1. sub' \in [Producers -> SubmitState]
    BY <1>5 DEF UnlockInbox, TypeOK, SubmitState, Idle
  <2> QED
    BY <1>5, <2>1 DEF UnlockInbox, TypeOK, inbox, disk, writer
<1> QED
  BY <1>1, <1>2, <1>3, <1>4, <1>5 DEF Submit

\* A producer's death keeps the types.
LEMMA ProducerDiesType == ASSUME TypeInv, NEW p \in Producers, ProducerDies(p) PROVE TypeInv'
<1>1. sub' \in [Producers -> SubmitState]
  BY DEF ProducerDies, TypeInv, TypeOK, SubmitState, Idle
<1> QED
  BY <1>1 DEF ProducerDies, TypeInv, EndingFits, TypeOK, inbox, disk, writer

\* Opening and recovery keep the types.
LEMMA OpenType == ASSUME TypeInv, NEW w \in Writers, Open(w) PROVE TypeInv'
<1> USE DEF TypeInv, EndingFits
<1>1. CASE Acquire(w)
  BY <1>1 DEF Acquire, TypeOK, Phase, inbox, disk
<1>2. CASE Load(w)
  <2>1. journal \in Seq(Line)
    BY <1>2, ReadableLines DEF Load, TypeOK
  <2>2. Absorbed(journal) \in Memory
    BY <2>1, AbsorbedType
  <2>3. phase' \in [Writers -> Phase]
    BY <1>2 DEF Load, TypeOK, Phase, AfterLoad
  <2> QED
    <3>1. \A v \in Writers : phase'[v] = "salvage" => torn > 0
      BY <1>2 DEF Load, TypeOK, AfterLoad
    <3>2. mem' \in [Writers -> Memory] /\ recovered' \in [Writers -> Seq(Line)]
      BY <1>2, <2>1, <2>2 DEF Load, TypeOK
    <3> QED
      BY <1>2, <2>3, <3>1, <3>2 DEF Load, TypeOK, inbox, disk
<1>3. CASE LoadRefused(w)
  BY <1>3 DEF LoadRefused, TypeOK, Phase, inbox, disk
<1>4. CASE QuarantineTail(w)
  <2>1. torn \in 1..torn
    BY <1>4 DEF QuarantineTail, TypeOK
  <2>2. salvaged' \subseteq 1..torn'
    BY <1>4, <2>1 DEF QuarantineTail, TypeOK
  <2>3. phase' \in [Writers -> Phase] /\ \A v \in Writers : phase'[v] = "salvage" => phase[v] = "salvage"
    BY <1>4 DEF QuarantineTail, TypeOK, Phase
  <2> QED
    BY <1>4, <2>2, <2>3 DEF QuarantineTail, TypeOK, inbox
<1>5. CASE Rewrite(w)
  BY <1>5 DEF Rewrite, TypeOK, Phase, Ending, inbox
<1> QED
  BY <1>1, <1>2, <1>3, <1>4, <1>5 DEF Open

(* Forget(w), which closing, dying and a torn append share, types its variables. *)
LEMMA ForgetType ==
  ASSUME TypeOK, NEW w \in Writers, Forget(w)
  PROVE  /\ owner' \in Writers \cup {Nobody}
         /\ subLock' \in Producers \cup Writers \cup {Nobody}
         /\ phase' \in [Writers -> Phase]
         /\ mem' \in [Writers -> Memory]
         /\ recovered' \in [Writers -> Seq(Line)]
         /\ queue' \in [Writers -> SUBSET (DOMAIN published)]
         /\ \A v \in Writers : phase'[v] = "salvage" => phase[v] = "salvage"
<1>1. EmptyMemory \in Memory
  BY DEF EmptyMemory, Memory, Genesis, History
<1> QED
  BY <1>1 DEF Forget, TypeOK, Phase

\* Closing and dying keep the types.
LEMMA CloseType ==
  ASSUME TypeInv, NEW w \in Writers, Close(w) \/ WriterDies(w) PROVE TypeInv'
<1>1. Forget(w)
  BY DEF Close, WriterDies
<1>2. UNCHANGED <<published, ready, counter, quarantine, sub, journal, tail, torn, salvaged>>
  BY DEF Close, WriterDies, inbox, disk
<1>3. crashes' \in Nat
  BY DEF Close, WriterDies, TypeInv, TypeOK
<1> QED
  BY <1>1, <1>2, <1>3, ForgetType DEF TypeInv, EndingFits, TypeOK

\* An append keeps the types: the line was accepted by both validations.
LEMMA AppendLineType ==
  ASSUME TypeInv, NEW w \in Writers, NEW n \in queue[w], AppendLine(w, n) PROVE TypeInv'
<1> DEFINE line == Finalized(w, n)
<1>1. line \in Line /\ n \in DOMAIN published /\ Env(n) \in Accepted
  BY FinalizedType DEF AppendLine, TypeInv
<1>2. journal' \in Seq(Line \cup GlueLine)
  BY <1>1, ExtendedType DEF AppendLine, TypeInv, EndingFits
<1>3. Digest(line) \in History
  BY <1>1, DigestType
<1>4. line.env \in Accepted
  BY <1>1 DEF Line
<1>5. mem[w] \in Memory
  BY DEF TypeInv, TypeOK
<1>6. [seen |-> mem[w].seen \cup {line.env}, seq |-> mem[w].seq + 1, last |-> Digest(line)]
        \in Memory
  BY <1>3, <1>4, <1>5 DEF Memory
<1>7. mem' \in [Writers -> Memory]
  BY <1>6 DEF AppendLine, TypeInv, TypeOK
<1>8. phase' \in [Writers -> Phase] /\ tail' = "newline"
  BY DEF AppendLine, TypeInv, TypeOK, Phase
<1>9. \A v \in Writers : phase'[v] = "salvage" => phase[v] = "salvage"
  BY DEF AppendLine, TypeInv, TypeOK
<1> QED
  BY <1>2, <1>7, <1>8, <1>9 DEF AppendLine, TypeInv, EndingFits, TypeOK, Ending, inbox

\* consume_ready and consume_one keep the types.
LEMMA ConsumeType == ASSUME TypeInv, NEW w \in Writers, Consume(w) PROVE TypeInv'
<1> USE DEF TypeInv, EndingFits
<1>1. CASE LockSnapshot(w)
  BY <1>1 DEF LockSnapshot, TypeOK, Phase, inbox, disk
<1>2. CASE Snapshot(w)
  BY <1>2 DEF Snapshot, Listed, TypeOK, Phase, inbox, disk
<1>3. ASSUME NEW n \in ready, ConsumeDirect(w, n) PROVE TypeInv'
  BY <1>3 DEF ConsumeDirect, TypeOK, Phase, inbox, disk
<1>4. CASE EndPass(w)
  BY <1>4 DEF EndPass, TypeOK, Phase, inbox, disk
<1>5. ASSUME NEW n \in queue[w], Decide(w, n) PROVE TypeInv'
  <2>0. n \in DOMAIN published
    BY DEF TypeOK
  <2>1. CASE Quarantine(w, n)
    BY <2>0, <2>1 DEF Quarantine, Processed, TypeOK, disk
  <2>2. CASE Duplicate(w, n)
    BY <2>2 DEF Duplicate, Processed, TypeOK, disk
  <2>3. CASE Raise(w, n)
    BY <2>3 DEF Raise, TypeOK, Phase, inbox, disk
  <2>4. CASE AppendLine(w, n)
    BY <2>4, AppendLineType
  <2>5. CASE Unlink(w, n)
    BY <2>5 DEF Unlink, Processed, TypeOK, Phase, disk
  <2> QED
    BY <1>5, <2>1, <2>2, <2>3, <2>4, <2>5 DEF Decide
<1> QED
  BY <1>1, <1>2, <1>3, <1>4, <1>5 DEF Consume

\* An interrupted append keeps the types.
LEMMA AppendInterruptedType ==
  ASSUME TypeInv, NEW w \in Writers, NEW n \in queue[w], NEW how \in Tears,
         AppendInterrupted(w, n, how)
  PROVE  TypeInv'
<1>1. /\ journal' \in Seq(Line \cup GlueLine)
      /\ torn' \in Nat /\ salvaged' \subseteq 1..torn' /\ tail' \in Ending
      /\ tail' = "bare" => journal' # << >>
      /\ tail' = "fragment" => torn' > 0
      /\ torn > 0 => torn' > 0
  <2>1. CASE how = "bare"
    <3>1. Finalized(w, n) \in Line
      BY FinalizedType DEF AppendInterrupted, TypeInv
    <3>2. journal \in Seq(Line \cup GlueLine)
      BY DEF TypeInv, TypeOK
    <3>3. journal' = Append(journal, Finalized(w, n)) /\ tail' = "bare"
      BY <2>1 DEF AppendInterrupted
    <3>4. journal' \in Seq(Line \cup GlueLine) /\ journal' # << >>
      BY <3>1, <3>2, <3>3
    <3> QED
      BY <2>1, <3>3, <3>4 DEF AppendInterrupted, TypeInv, TypeOK, Ending
  <2>2. CASE how # "bare"
    BY <2>2 DEF AppendInterrupted, TypeInv, TypeOK, Ending
  <2> QED
    BY <2>1, <2>2
<1>2. /\ owner' \in Writers \cup {Nobody}
      /\ subLock' \in Producers \cup Writers \cup {Nobody}
      /\ phase' \in [Writers -> Phase]
      /\ mem' \in [Writers -> Memory]
      /\ recovered' \in [Writers -> Seq(Line)]
      /\ queue' \in [Writers -> SUBSET (DOMAIN published)]
      /\ \A v \in Writers : phase'[v] = "salvage" => phase[v] = "salvage"
  <2>1. CASE how = "raised"
    BY <2>1 DEF AppendInterrupted, TypeInv, TypeOK, Phase
  <2>2. CASE how # "raised"
    <3>1. Forget(w)
      BY <2>2 DEF AppendInterrupted
    <3> QED
      BY <3>1, ForgetType DEF TypeInv
  <2> QED
    BY <2>1, <2>2
<1>3. UNCHANGED <<published, ready, counter, quarantine, sub>> /\ crashes' \in Nat
  BY DEF AppendInterrupted, TypeInv, TypeOK, inbox
<1> QED
  BY <1>1, <1>2, <1>3 DEF TypeInv, EndingFits, TypeOK

\* Every step keeps the types.
LEMMA TypeStep == ASSUME TypeInv, [Next]_vars PROVE TypeInv'
<1>1. CASE UNCHANGED vars
  BY <1>1 DEF TypeInv, EndingFits, TypeOK, vars, inbox, disk, writer
<1>2. CASE \E p \in Producers : Submit(p) \/ ProducerDies(p)
  BY <1>2, SubmitType, ProducerDiesType
<1>3. CASE \E w \in Writers : Open(w) \/ Consume(w) \/ Close(w) \/ WriterDies(w)
  BY <1>3, OpenType, ConsumeType, CloseType
<1>4. CASE \E w \in Writers : \E n \in queue[w], how \in Tears : AppendInterrupted(w, n, how)
  BY <1>4, AppendInterruptedType
<1> QED
  BY <1>1, <1>2, <1>3, <1>4 DEF Next

(* Type correctness: in particular the journal and the writers' maps only ever *)
(* hold envelopes that both validations accept.                               *)
THEOREM TypeCorrect == Spec => []TypeOK
<1>1. Init => TypeInv
  BY InitType
<1>2. TypeInv /\ [Next]_vars => TypeInv'
  BY TypeStep
<1>3. TypeInv => TypeOK
  BY DEF TypeInv
<1> QED
  BY <1>1, <1>2, <1>3, PTL DEF Spec
-----------------------------------------------------------------------------
(***************************************************************************)
(* The chain.  While interrupted appends can only leave fragments, a       *)
(* writer in use holds the lock alone, the file ends with a newline, and   *)
(* its memory is what the file says; so the line it appends continues the  *)
(* chain and carries an identity the file does not hold yet.               *)
(***************************************************************************)
Owned == \A w \in Writers : phase[w] # "closed" => owner = w

Recovering ==
  \A w \in Writers : phase[w] \in {"salvage", "rewrite"} =>
    recovered[w] = journal /\ mem[w] = Absorbed(journal)

InUse ==
  \A w \in Writers : phase[w] \in Holding =>
    tail = "newline" /\ mem[w] = Absorbed(journal)

Unshared == ChainIntact /\ ExactlyOnce /\ tail # "bare" /\ Owned /\ Recovering /\ InUse

ChainInv == TypeInv /\ Unshared

Longer(w, n) == Append(journal, Finalized(w, n))

NumberedOnce(lines) ==
  /\ \A i \in DOMAIN lines : lines[i].seq = i - 1
  /\ \A i, j \in DOMAIN lines :
       i # j => lines[i].env.pid # lines[j].env.pid /\ lines[i].env.eid # lines[j].env.eid

(* Continuing a readable, numbered chain from the memory of its last line. *)
LEMMA Continues ==
  ASSUME TypeOK, ChainIntact, ExactlyOnce, NEW w \in Writers, NEW n \in queue[w],
         Fresh(w, n), Env(n) \notin Lax, mem[w] = Absorbed(journal)
  PROVE  /\ Readable(Longer(w, n))
         /\ NumberedOnce(Longer(w, n))
         /\ Absorbed(Longer(w, n)) = [seen |-> mem[w].seen \cup {Finalized(w, n).env},
                              seq  |-> mem[w].seq + 1, last |-> Digest(Finalized(w, n))]
<1> DEFINE line == Finalized(w, n)
           k == Len(journal)
           next == Longer(w, n)
<1>1. journal \in Seq(Line) /\ k \in Nat
  <2>1. journal \in Seq(Line \cup GlueLine)
    BY DEF TypeOK
  <2> QED
    BY <2>1, ReadableLines DEF ChainIntact, JournalReadable
<1>2. line \in Line
  BY FinalizedType
<1>3. /\ next \in Seq(Line) /\ Len(next) = k + 1 /\ next[k + 1] = line
      /\ DOMAIN next = DOMAIN journal \cup {k + 1} /\ DOMAIN journal = 1..k
      /\ \A i \in DOMAIN journal : next[i] = journal[i]
  BY <1>1, <1>2 DEF Longer
<1> HIDE DEF next
<1>4. line.seq = mem[w].seq /\ line.prev = mem[w].last /\ line.env = Env(n) /\ line.whole
  BY DEF Finalized
<1>5. mem[w].seq = k /\ (k = 0 => mem[w].last = Genesis) /\ (k # 0 => mem[w].last = Digest(journal[k]))
  <2>1. CASE journal = << >>
    BY <2>1, <1>1 DEF Absorbed, EmptyMemory
  <2>2. CASE journal # << >>
    <3>1. k \in DOMAIN journal /\ k # 0
      BY <2>2, <1>1
    <3>2. journal[k].seq = k - 1
      BY <3>1 DEF ChainIntact
    <3> QED
      BY <2>2, <3>1, <3>2, <1>1 DEF Absorbed
  <2> QED
    BY <2>1, <2>2
<1>6. Readable(next)
  <2>1. ASSUME NEW i \in DOMAIN journal
        PROVE  next[i].whole /\ next[i].prev = IF i = 1 THEN Genesis ELSE Digest(next[i - 1])
    <3>1. journal[i].whole /\ journal[i].prev = IF i = 1 THEN Genesis ELSE Digest(journal[i - 1])
      BY DEF ChainIntact, JournalReadable, Readable
    <3>2. i # 1 => i - 1 \in DOMAIN journal
      BY <1>3
    <3> QED
      BY <3>1, <3>2, <1>3
  <2>2. ASSUME NEW i, i = k + 1
        PROVE  next[i].whole /\ next[i].prev = IF i = 1 THEN Genesis ELSE Digest(next[i - 1])
    <3>1. k # 0 => k \in DOMAIN journal
      BY <1>1, <1>3
    <3>2. k # 0 => next[k] = journal[k]
      BY <3>1, <1>3
    <3>3. i - 1 = k /\ (i = 1 <=> k = 0)
      BY <1>1, <2>2
    <3>4. next[i].whole /\ next[i].prev = mem[w].last
      BY <1>3, <1>4, <2>2
    <3> HIDE DEF line, k
    <3> QED
      BY <3>2, <3>3, <3>4, <1>5
  <2>3. \A i \in DOMAIN next : i \in DOMAIN journal \/ i = k + 1
    BY <1>3
  <2>4. ASSUME NEW i \in DOMAIN next
        PROVE  next[i].whole /\ next[i].prev = IF i = 1 THEN Genesis ELSE Digest(next[i - 1])
    <3>1. CASE i \in DOMAIN journal
      BY <3>1, <2>1
    <3>2. CASE i = k + 1
      BY <3>2, <2>2
    <3> QED
      BY <3>1, <3>2, <2>3
  <2> QED
    BY <2>4 DEF Readable
<1>7. \A i \in DOMAIN next : next[i].seq = i - 1
  <2>1. \A i \in DOMAIN journal : next[i].seq = i - 1
    BY <1>3 DEF ChainIntact
  <2>2. next[k + 1].seq = k + 1 - 1
    BY <1>1, <1>3, <1>4, <1>5
  <2> QED
    BY <2>1, <2>2, <1>3
<1>8. mem[w].seen = {journal[i].env : i \in DOMAIN journal}
  <2>1. CASE journal = << >>
    BY <2>1, <1>3 DEF Absorbed, EmptyMemory
  <2>2. CASE journal # << >>
    BY <2>2 DEF Absorbed
  <2> QED
    BY <2>1, <2>2
<1>9. ASSUME NEW i \in DOMAIN next, NEW j \in DOMAIN next, i # j
      PROVE  next[i].env.pid # next[j].env.pid /\ next[i].env.eid # next[j].env.eid
  <2>1. \A m \in DOMAIN journal : journal[m].env.pid # Env(n).pid /\ journal[m].env.eid # Env(n).eid
    <3>1. ~Clashes(mem[w].seen, Env(n))
      BY DEF Fresh
    <3> QED
      BY <3>1, <1>8 DEF Clashes
  <2>2. \A m \in DOMAIN journal : journal[m].whole
    BY DEF ChainIntact, JournalReadable, Readable
  <2>3. CASE i \in DOMAIN journal /\ j \in DOMAIN journal
    <3>1. journal[i].env.pid # journal[j].env.pid /\ journal[i].env.eid # journal[j].env.eid
      BY <2>2, <2>3, <1>9 DEF ExactlyOnce
    <3>2. next[i] = journal[i] /\ next[j] = journal[j]
      BY <2>3, <1>3
    <3> QED
      BY <3>1, <3>2
  <2>4. CASE i = k + 1 /\ j \in DOMAIN journal
    BY <2>1, <2>4, <1>3, <1>4
  <2>5. CASE i \in DOMAIN journal /\ j = k + 1
    <3>1. next[i] = journal[i] /\ next[j].env = Env(n)
      BY <2>5, <1>3, <1>4
    <3> QED
      BY <2>1, <2>5, <3>1
  <2> QED
    BY <2>3, <2>4, <2>5, <1>3, <1>9
<1>10. Absorbed(next) = [seen |-> mem[w].seen \cup {line.env}, seq |-> mem[w].seq + 1, last |-> Digest(line)]
  <2>1. {next[i].env : i \in DOMAIN next} = mem[w].seen \cup {line.env}
    BY <1>3, <1>8
  <2>2. next # << >> /\ next[Len(next)] = line
    BY <1>1, <1>3
  <2> QED
    BY <2>1, <2>2, <1>4 DEF Absorbed
<1> QED
  BY <1>6, <1>7, <1>9, <1>10 DEF next, NumberedOnce

OnlyTorn == Tears \subseteq {"torn"}

\* The chain invariant holds at the start.
LEMMA InitChain == Init => Unshared
BY DEF Init, Unshared, ChainIntact, JournalReadable, Readable, ExactlyOnce, Owned, Recovering,
       InUse, Holding

(* A step that leaves the journal, the lock and the writers' memories alone. *)
LEMMA FrameChain ==
  ASSUME Unshared, UNCHANGED <<journal, tail, owner, phase, mem, recovered>>
  PROVE  Unshared'
BY DEF Unshared, ChainIntact, JournalReadable, Readable, ExactlyOnce, Owned, Recovering, InUse,
       Absorbed, Digest

(* A step of writer w that leaves the journal, its own memory and the lock     *)
(* alone and moves w between phases of the same kind.                         *)
LEMMA MoveChain ==
  ASSUME TypeOK, Unshared, NEW w \in Writers, NEW to \in Holding, phase[w] \in Holding,
         phase' = [phase EXCEPT ![w] = to],
         UNCHANGED <<journal, tail, owner, mem, recovered>>
  PROVE  Unshared'
BY DEF Unshared, ChainIntact, JournalReadable, Readable, ExactlyOnce, Owned, Recovering, InUse,
       Absorbed, Digest, Holding, TypeOK

(* The writer goes: nobody is left whose memory could be stale. *)
LEMMA ForgetChain ==
  ASSUME TypeOK, Unshared, NEW w \in Writers, phase[w] # "closed", Forget(w), journal' = journal
  PROVE  Unshared' \/ tail' = "bare"
<1>1. owner = w /\ \A v \in Writers : v # w => phase[v] = "closed"
  BY DEF Unshared, Owned
<1>2. \A v \in Writers : phase'[v] = "closed"
  BY <1>1 DEF Forget, TypeOK
<1> QED
  BY <1>2 DEF Unshared, ChainIntact, JournalReadable, Readable, ExactlyOnce, Owned, Recovering,
       InUse, Absorbed, Digest, Holding

\* Opening and recovery keep the chain invariant.
LEMMA OpenChain == ASSUME TypeOK, Unshared, NEW w \in Writers, Open(w) PROVE Unshared'
<1>0. ASSUME journal' = journal PROVE ChainIntact' /\ ExactlyOnce'
  BY <1>0 DEF Unshared, ChainIntact, JournalReadable, Readable, ExactlyOnce, Digest
<1>1. CASE Acquire(w)
  <2>1. \A v \in Writers : phase[v] = "closed"
    BY <1>1, ProcessAssumption DEF Acquire, CanLock, Unshared, Owned
  <2>2. \A v \in Writers : phase'[v] = IF v = w THEN "owned" ELSE "closed"
    BY <1>1, <2>1 DEF Acquire, TypeOK
  <2> QED
    BY <1>0, <1>1, <2>2 DEF Acquire, disk, Unshared, Owned, Recovering, InUse, Holding
<1>2. CASE Load(w)
  <2>1. owner = w /\ \A v \in Writers : v # w => phase[v] = "closed"
    BY <1>2 DEF Load, Unshared, Owned
  <2>2. /\ \A v \in Writers : v # w => phase'[v] = "closed"
        /\ phase'[w] = AfterLoad
        /\ mem'[w] = Absorbed(journal) /\ recovered'[w] = journal
    BY <1>2, <2>1 DEF Load, TypeOK
  <2>3. journal' = journal /\ tail' = tail /\ owner' = owner
    BY <1>2 DEF Load, disk
  <2>4. tail \in {"newline", "fragment"}
    BY DEF Unshared, TypeOK, Ending
  <2>5. Absorbed(journal)' = Absorbed(journal)
    BY <2>3 DEF Absorbed, Digest
  <2>6. Recovering'
    BY <2>2, <2>3, <2>5 DEF Recovering
  <2>7. InUse'
    BY <2>2, <2>3, <2>4, <2>5 DEF InUse, Holding, AfterLoad
  <2>8. Owned'
    BY <2>1, <2>2, <2>3 DEF Owned
  <2> QED
    BY <1>0, <2>3, <2>6, <2>7, <2>8 DEF Unshared
<1>3. CASE LoadRefused(w)
  BY <1>3 DEF LoadRefused, Unshared, ChainIntact, JournalReadable
<1>4. CASE QuarantineTail(w)
  <2>1. UNCHANGED <<journal, tail, owner, mem, recovered>>
    BY <1>4 DEF QuarantineTail
  <2>2. \A v \in Writers : phase'[v] = IF v = w THEN "rewrite" ELSE phase[v]
    BY <1>4 DEF QuarantineTail, TypeOK
  <2>3. Absorbed(journal)' = Absorbed(journal)
    BY <2>1 DEF Absorbed, Digest
  <2> QED
    BY <1>0, <1>4, <2>1, <2>2, <2>3 DEF QuarantineTail, Unshared, Owned, Recovering, InUse, Holding
<1>5. CASE Rewrite(w)
  <2>1. recovered[w] = journal /\ mem[w] = Absorbed(journal)
    BY <1>5 DEF Rewrite, Unshared, Recovering
  <2>2. journal' = journal /\ tail' = "newline" /\ UNCHANGED <<owner, mem, recovered>>
    BY <1>5, <2>1 DEF Rewrite
  <2>3. \A v \in Writers : phase'[v] = IF v = w THEN "open" ELSE phase[v]
    BY <1>5 DEF Rewrite, TypeOK
  <2>4. Absorbed(journal)' = Absorbed(journal)
    BY <2>2 DEF Absorbed, Digest
  <2>5. Owned' /\ Recovering'
    BY <1>5, <2>2, <2>3, <2>4 DEF Rewrite, Unshared, Owned, Recovering
  <2>6. InUse'
    BY <2>1, <2>2, <2>3, <2>4 DEF Unshared, InUse, Holding
  <2> QED
    BY <1>0, <2>2, <2>5, <2>6 DEF Unshared
<1> QED
  BY <1>1, <1>2, <1>3, <1>4, <1>5 DEF Open

(* The line a writer in use appends continues the chain. *)
LEMMA AppendChain ==
  ASSUME TypeOK, Unshared, NEW w \in Writers, NEW n \in queue[w], AppendLine(w, n)
  PROVE  Unshared' /\ journal' = Append(journal, Finalized(w, n))
<1>1. /\ Fresh(w, n) /\ Env(n) \notin Lax /\ phase[w] = "pass"
      /\ UNCHANGED <<owner, recovered>> /\ tail' = "newline"
  BY DEF AppendLine, Fresh, Deciding
<1>2. tail = "newline" /\ mem[w] = Absorbed(journal)
  BY <1>1 DEF Unshared, InUse, Holding
<1>3. journal' = Append(journal, Finalized(w, n))
  BY <1>2 DEF AppendLine, Extended
<1>4. /\ Readable(journal') /\ NumberedOnce(journal')
      /\ Absorbed(journal') = [seen |-> mem[w].seen \cup {Finalized(w, n).env},
                               seq |-> mem[w].seq + 1, last |-> Digest(Finalized(w, n))]
  <2>1. ChainIntact /\ ExactlyOnce
    BY DEF Unshared
  <2>2. journal' = Longer(w, n)
    BY <1>3 DEF Longer
  <2> QED
    BY <1>1, <1>2, <2>1, <2>2, Continues
<1>5. mem'[w] = Absorbed(journal')
  BY <1>4 DEF AppendLine, TypeOK
<1>6. owner = w /\ \A v \in Writers : v # w => phase[v] = "closed"
  BY <1>1 DEF Unshared, Owned
<1>7. \A v \in Writers : phase'[v] = IF v = w THEN "appended" ELSE "closed"
  BY <1>6 DEF AppendLine, TypeOK
<1>8. ChainIntact' /\ ExactlyOnce'
  BY <1>4 DEF NumberedOnce, ChainIntact, JournalReadable, Readable, ExactlyOnce, Digest
<1>9. Owned' /\ Recovering'
  BY <1>1, <1>6, <1>7 DEF Owned, Recovering
<1>10. InUse'
  BY <1>1, <1>5, <1>7 DEF InUse, Holding, Absorbed, Digest
<1> QED
  BY <1>1, <1>3, <1>8, <1>9, <1>10 DEF Unshared

\* consume_ready and consume_one keep the chain invariant.
LEMMA ConsumeChain ==
  ASSUME TypeOK, Unshared, NEW w \in Writers, Consume(w)
  PROVE  Unshared'
<1> USE DEF Holding
<1>1. CASE LockSnapshot(w)
  BY <1>1, MoveChain DEF LockSnapshot, disk
<1>2. CASE Snapshot(w)
  BY <1>2, MoveChain DEF Snapshot, disk
<1>3. ASSUME NEW n \in ready, ConsumeDirect(w, n) PROVE Unshared'
  BY <1>3, MoveChain DEF ConsumeDirect, disk
<1>4. CASE EndPass(w)
  BY <1>4, MoveChain DEF EndPass, disk
<1>5. ASSUME NEW n \in queue[w], Decide(w, n) PROVE Unshared'
  <2>1. CASE Quarantine(w, n)
    BY <2>1, FrameChain DEF Quarantine, disk
  <2>2. CASE Duplicate(w, n)
    BY <2>2, FrameChain DEF Duplicate, disk
  <2>3. CASE Raise(w, n)
    BY <2>3, MoveChain DEF Raise, Fresh, Deciding, disk
  <2>4. CASE AppendLine(w, n)
    BY <2>4, AppendChain
  <2>5. CASE Unlink(w, n)
    BY <2>5, MoveChain DEF Unlink, disk
  <2> QED
    BY <1>5, <2>1, <2>2, <2>3, <2>4, <2>5 DEF Decide
<1> QED
  BY <1>1, <1>2, <1>3, <1>4, <1>5 DEF Consume

\* A writer that goes, or tears its append, keeps the chain invariant.
LEMMA WriterLeavesChain ==
  ASSUME TypeOK, Unshared, OnlyTorn, NEW w \in Writers,
         \/ Close(w) \/ WriterDies(w)
         \/ \E n \in queue[w], how \in Tears : AppendInterrupted(w, n, how)
  PROVE  Unshared' /\ journal' = journal
<1>1. CASE Close(w) \/ WriterDies(w)
  <2>1. phase[w] # "closed" /\ Forget(w) /\ journal' = journal /\ tail' = tail
    BY <1>1 DEF Close, WriterDies, disk
  <2> QED
    BY <2>1, ForgetChain DEF Unshared
<1>2. CASE \E n \in queue[w], how \in Tears : AppendInterrupted(w, n, how)
  <2>1. phase[w] # "closed" /\ Forget(w) /\ journal' = journal /\ tail' = "fragment"
    BY <1>2 DEF OnlyTorn, AppendInterrupted, Fresh, Deciding
  <2> QED
    BY <2>1, ForgetChain
<1> QED
  BY <1>1, <1>2

\* Producers do not touch the journal.
LEMMA ProducerChain ==
  ASSUME Unshared, NEW p \in Producers, Submit(p) \/ ProducerDies(p)
  PROVE  Unshared' /\ UNCHANGED journal
<1>1. UNCHANGED <<disk, writer>>
  BY DEF Submit, ProducerDies, WriteTmp, LockInbox, Stamp, Publish, UnlockInbox
<1> QED
  BY <1>1, FrameChain DEF disk, writer

\* Every step keeps the chain invariant.
LEMMA ChainStep == ASSUME OnlyTorn, ChainInv, [Next]_vars PROVE ChainInv'
<1> USE DEF ChainInv
<1>1. TypeInv' /\ TypeOK
  BY TypeStep DEF TypeInv
<1>2. CASE UNCHANGED vars
  BY <1>1, <1>2, FrameChain DEF vars, disk, writer
<1>3. CASE \E p \in Producers : Submit(p) \/ ProducerDies(p)
  BY <1>1, <1>3, ProducerChain
<1>4. CASE \E w \in Writers : Open(w) \/ Consume(w)
  BY <1>1, <1>4, OpenChain, ConsumeChain
<1>5. CASE \E w \in Writers : \/ Close(w) \/ WriterDies(w)
                             \/ \E n \in queue[w], how \in Tears : AppendInterrupted(w, n, how)
  BY <1>1, <1>5, WriterLeavesChain
<1> QED
  BY <1>2, <1>3, <1>4, <1>5 DEF Next

(* What holds of the lines and of the writers' memory together.              *)
THEOREM ChainInvariant == OnlyTorn => (Spec => []ChainInv)
<1> SUFFICES ASSUME OnlyTorn PROVE Spec => []ChainInv
  OBVIOUS
<1>1. Init => ChainInv
  BY InitType, InitChain DEF ChainInv
<1>2. ChainInv /\ [Next]_vars => ChainInv'
  BY ChainStep
<1> QED
  BY <1>1, <1>2, PTL DEF Spec

(* With appends that are interrupted inside a line, and whatever else dies or *)
(* races, a reader always finds an intact chain, numbered without gap.       *)
THEOREM ChainSafe == OnlyTorn => (Spec => []ChainIntact)
<1>1. ChainInv => ChainIntact
  BY DEF ChainInv, Unshared
<1> QED
  BY <1>1, ChainInvariant, PTL

(* What one step does to the lines: nothing, or one fresh line at the end. *)
LEMMA JournalStep ==
  ASSUME OnlyTorn, ChainInv, [Next]_vars
  PROVE  \/ journal' = journal
         \/ \E w \in Writers : \E n \in queue[w] :
              AppendLine(w, n) /\ journal' = Append(journal, Finalized(w, n))
<1> USE DEF ChainInv, TypeInv
<1>1. CASE UNCHANGED vars
  BY <1>1 DEF vars, disk
<1>2. CASE \E p \in Producers : Submit(p) \/ ProducerDies(p)
  BY <1>2, ProducerChain
<1>3. ASSUME NEW w \in Writers, Open(w) PROVE journal' = journal
  BY <1>3 DEF Open, Acquire, Load, LoadRefused, QuarantineTail, Rewrite, disk, Unshared, Recovering
<1>4. ASSUME NEW w \in Writers, Consume(w)
      PROVE  journal' = journal \/ \E n \in queue[w] : AppendLine(w, n)
  BY <1>4 DEF Consume, Decide, LockSnapshot, Snapshot, ConsumeDirect, EndPass, Quarantine,
              Duplicate, Raise, Unlink, disk
<1>5. CASE \E w \in Writers : \/ Close(w) \/ WriterDies(w)
                             \/ \E n \in queue[w], how \in Tears : AppendInterrupted(w, n, how)
  BY <1>5, WriterLeavesChain
<1> QED
  BY <1>1, <1>2, <1>3, <1>4, <1>5, AppendChain DEF Next

(* No step of any process changes or removes a line of the journal; recovery  *)
(* rewrites the file with exactly the lines it holds.                         *)
THEOREM AppendOnlySafe == OnlyTorn => (Spec => AppendOnly)
<1> SUFFICES ASSUME OnlyTorn PROVE Spec => AppendOnly
  OBVIOUS
<1>1. Init => ChainInv
  BY InitType, InitChain DEF ChainInv
<1>2. ChainInv /\ [Next]_vars => ChainInv'
  BY ChainStep
<1>3. ChainInv /\ [Next]_vars => [IsPrefix(journal, journal')]_vars
  <2> SUFFICES ASSUME ChainInv, [Next]_vars PROVE IsPrefix(journal, journal')
    OBVIOUS
  <2>1. journal \in Seq(Line \cup GlueLine)
    BY DEF ChainInv, TypeInv, TypeOK
  <2>2. CASE journal' = journal
    BY <2>1, <2>2 DEF IsPrefix
  <2>3. ASSUME NEW line, journal' = Append(journal, line) PROVE IsPrefix(journal, journal')
    BY <2>1, <2>3 DEF IsPrefix
  <2> QED
    BY <2>2, <2>3, JournalStep
<1> QED
  BY <1>1, <1>2, <1>3, PTL DEF Spec, AppendOnly

(* Writers take files from ready and never stamp one. *)
LEMMA WriterFrame ==
  ASSUME TypeOK, NEW w \in Writers,
         \/ Open(w) \/ Consume(w) \/ Close(w) \/ WriterDies(w)
         \/ \E n \in queue[w], how \in Tears : AppendInterrupted(w, n, how)
  PROVE  ready' \subseteq ready /\ UNCHANGED <<published, counter, sub>>
<1>1. CASE Open(w)
  BY <1>1 DEF Open, Acquire, Load, LoadRefused, QuarantineTail, Rewrite, inbox
<1>2. CASE LockSnapshot(w) \/ Snapshot(w) \/ EndPass(w) \/ \E n \in ready : ConsumeDirect(w, n)
  BY <1>2 DEF LockSnapshot, Snapshot, EndPass, ConsumeDirect, inbox
<1>3. ASSUME NEW n \in queue[w], Decide(w, n)
      PROVE  ready' \subseteq ready /\ UNCHANGED <<published, counter, sub>>
  BY <1>3 DEF Decide, Quarantine, Duplicate, Raise, AppendLine, Unlink, inbox
<1>4. CASE \/ Close(w) \/ WriterDies(w)
           \/ \E n \in queue[w], how \in Tears : AppendInterrupted(w, n, how)
  BY <1>4 DEF Close, WriterDies, AppendInterrupted, inbox
<1> QED
  BY <1>1, <1>2, <1>3, <1>4 DEF Consume

(* Only a producer's rename adds a published file. *)
LEMMA PublishedStep ==
  ASSUME TypeOK, [Next]_vars
  PROVE  published' = published \/ \E p \in Producers : Publish(p)
<1>1. CASE UNCHANGED vars
  BY <1>1 DEF vars, inbox
<1>2. ASSUME NEW p \in Producers, Submit(p) \/ ProducerDies(p)
      PROVE  published' = published \/ Publish(p)
  BY <1>2 DEF Submit, ProducerDies, WriteTmp, LockInbox, Stamp, UnlockInbox, inbox
<1>3. ASSUME NEW w \in Writers,
             \/ Open(w) \/ Consume(w) \/ Close(w) \/ WriterDies(w)
             \/ \E n \in queue[w], how \in Tears : AppendInterrupted(w, n, how)
      PROVE  published' = published
  BY <1>3, WriterFrame
<1> QED
  BY <1>1, <1>2, <1>3 DEF Next

(* The run directory with its processes, locks, crashes and torn writes       *)
(* implements the idempotent log.                                            *)
THEOREM JournalRefinesLog == OnlyTorn => (Spec => ImplementsLog)
<1> SUFFICES ASSUME OnlyTorn PROVE Spec => ImplementsLog
  OBVIOUS
<1> DEFINE offered == {Env(n) : n \in DOMAIN published}
           log == [i \in DOMAIN journal |-> journal[i].env]
<1>1. Init => ChainInv
  BY InitType, InitChain DEF ChainInv
<1>2. ChainInv /\ [Next]_vars => ChainInv'
  BY ChainStep
<1>3. ASSUME TypeOK PROVE offered \subseteq Envelope
  <2>1. \A n \in DOMAIN published : published[n] \in [ord : Nat, env : Envelope]
    BY <1>3, PublishedEntry
  <2> QED
    BY <2>1 DEF Env
<1>4. Init => Log!Init
  <2> SUFFICES ASSUME Init PROVE Log!Init
    OBVIOUS
  <2>1. TypeOK
    BY InitType DEF TypeInv
  <2>2. log = << >>
    BY DEF Init
  <2> QED
    BY <2>1, <2>2, <1>3 DEF Log!Init
<1>5. ChainInv /\ [Next]_vars => [Log!Next]_(Log!vars)
  <2> SUFFICES ASSUME ChainInv, [Next]_vars PROVE [Log!Next]_(Log!vars)
    OBVIOUS
  <2>0. /\ published \in Seq([ord : Nat, env : Envelope])
        /\ journal \in Seq(Line) /\ TypeOK
    <3>1. TypeOK /\ Readable(journal)
      BY DEF ChainInv, TypeInv, Unshared, ChainIntact, JournalReadable
    <3> QED
      BY <3>1, ReadableLines DEF TypeOK
  <2>1. CASE \E w \in Writers : \E n \in queue[w] :
              AppendLine(w, n) /\ journal' = Append(journal, Finalized(w, n))
    <3> PICK w \in Writers : \E n \in queue[w] :
              AppendLine(w, n) /\ journal' = Append(journal, Finalized(w, n))
      BY <2>1
    <3> PICK n \in queue[w] :
              AppendLine(w, n) /\ journal' = Append(journal, Finalized(w, n))
      OBVIOUS
    <3>1. /\ published' = published /\ Fresh(w, n) /\ mem[w] = Absorbed(journal)
          /\ Finalized(w, n) \in Line /\ n \in DOMAIN published /\ Env(n) \in Accepted
      BY <2>0, FinalizedType
         DEF AppendLine, inbox, Fresh, Deciding, ChainInv, Unshared, InUse, Holding
    <3>2. Finalized(w, n).env = Env(n)
      BY DEF Finalized
    <3>3. log' = Append(log, Env(n))
      BY <2>0, <3>1, <3>2
    <3>4. offered' = offered
      BY <3>1 DEF Env
    <3>5. \A i \in DOMAIN log : ~Log!SameIdentity(log[i], Env(n))
      <4>1. \A i \in DOMAIN journal : journal[i].env \in mem[w].seen
        <5>1. CASE journal = << >>
          BY <5>1
        <5>2. CASE journal # << >>
          BY <5>2, <3>1 DEF Absorbed
        <5> QED
          BY <5>1, <5>2
      <4> QED
        BY <4>1, <3>1 DEF Fresh, Clashes, Log!SameIdentity
    <3>6. Env(n) \in offered /\ Env(n) \in Envelope
      BY <3>1 DEF Accepted
    <3> HIDE DEF offered, log
    <3> PICK e \in Envelope : e = Env(n)
      BY <3>6
    <3>7. Log!Record(e)
      BY <3>3, <3>4, <3>5, <3>6 DEF Log!Record, offered, log
    <3> QED
      BY <3>7 DEF Log!Next
  <2>2. CASE journal' = journal /\ published' = published
    <3>1. offered' = offered /\ log' = log
      BY <2>2 DEF Env
    <3> HIDE DEF offered, log
    <3>2. UNCHANGED <<offered, log>>
      BY <3>1
    <3> QED
      BY <3>2 DEF Log!vars, offered, log
  <2>3. ASSUME NEW p \in Producers, Publish(p) PROVE \E e \in Envelope : Log!Offer(e)
    <3>1. sub[p] \in SubmitState /\ sub[p].at = "stamped"
      BY <2>0, <2>3 DEF Publish, TypeOK
    <3>2. sub[p].env \in Envelope
      BY <3>1 DEF SubmitState
    <3>3. published' = Append(published, [ord |-> sub[p].ord, env |-> sub[p].env])
      BY <2>3 DEF Publish
    <3>4. /\ DOMAIN published' = DOMAIN published \cup {Len(published) + 1}
          /\ \A n \in DOMAIN published : published'[n] = published[n]
          /\ published'[Len(published) + 1].env = sub[p].env
      BY <2>0, <3>3
    <3>5. offered' = offered \cup {sub[p].env}
      BY <3>4 DEF Env
    <3>6. journal' = journal
      BY <2>3 DEF Publish, disk
    <3> QED
      BY <3>2, <3>5, <3>6 DEF Log!Offer
  <2>4. published' = published \/ \E p \in Producers : Publish(p)
    BY <2>0, PublishedStep
  <2> QED
    BY <2>1, <2>2, <2>3, <2>4, JournalStep DEF Log!Next
<1> QED
  BY <1>1, <1>2, <1>4, <1>5, PTL DEF Spec, ImplementsLog, Log!Spec
-----------------------------------------------------------------------------
(***************************************************************************)
(* Any interrupted append.  A write that loses only its newline, or that   *)
(* raises and leaves the process alive, may make the next line glued, and  *)
(* then nothing reads the journal again; but the writer that is still in   *)
(* use remembers every envelope of the file, and up to that moment its     *)
(* memory is the file's content.                                           *)
(***************************************************************************)
Reread ==
  /\ Recovering
  /\ \A w \in Writers : phase[w] \in {"salvage", "rewrite"} => JournalReadable

Remembered ==
  \A w \in Writers : phase[w] \in Holding =>
    \A i \in DOMAIN journal : journal[i].whole => journal[i].env \in mem[w].seen

Consistent == Owned /\ Reread /\ Remembered /\ WriterInSync /\ ExactlyOnce

FaultInv == TypeInv /\ Consistent

(* A journal that reads has absorbed exactly the envelopes of its lines. *)
LEMMA AbsorbedSeen ==
  ASSUME NEW lines, lines = << >> => DOMAIN lines = {}
  PROVE  Absorbed(lines).seen = {lines[i].env : i \in DOMAIN lines}
BY DEF Absorbed, EmptyMemory

(* A step that leaves the lines and the lock alone, and in which every writer *)
(* that stays in use or in recovery was so before, with the same memory.      *)
LEMMA StayConsistent ==
  ASSUME Consistent, UNCHANGED <<journal, owner>>,
         \A v \in Writers : phase'[v] # "closed" =>
           /\ phase[v] # "closed"
           /\ mem'[v] = mem[v] /\ recovered'[v] = recovered[v]
           /\ phase'[v] \in Holding => phase[v] \in Holding
           /\ phase'[v] \in {"salvage", "rewrite"} => phase[v] \in {"salvage", "rewrite"}
  PROVE  Consistent'
<1> USE DEF Consistent, Holding
<1>1. Readable(journal') = Readable(journal) /\ Absorbed(journal') = Absorbed(journal)
  OBVIOUS
<1>2. Owned' /\ ExactlyOnce'
  BY DEF Owned, ExactlyOnce
<1>3. Reread' /\ Remembered' /\ WriterInSync'
  BY <1>1 DEF Reread, Recovering, JournalReadable, Remembered, WriterInSync
<1> QED
  BY <1>2, <1>3

(* Nobody is left whose memory could be stale. *)
LEMMA AllClosed ==
  ASSUME \A v \in Writers : phase'[v] = "closed", ExactlyOnce'
  PROVE  Consistent'
BY DEF Consistent, Owned, Reread, Recovering, Remembered, WriterInSync, Holding

(* The other writers are closed, and the lines have not changed. *)
LEMMA LeavesConsistent ==
  ASSUME TypeOK, Consistent, NEW w \in Writers, phase[w] # "closed",
         phase' = [phase EXCEPT ![w] = "closed"], journal' = journal
  PROVE  Consistent'
<1>1. \A v \in Writers : phase'[v] = "closed"
  BY DEF Consistent, Owned, TypeOK
<1>2. ExactlyOnce'
  BY DEF Consistent, ExactlyOnce
<1> QED
  BY <1>1, <1>2, AllClosed

(* The whole line a writer in use appends carries identities the file has not. *)
LEMMA FreshLine ==
  ASSUME TypeOK, Consistent, NEW w \in Writers, NEW n \in queue[w], Fresh(w, n), Env(n) \notin Lax,
         journal' = Append(journal, Finalized(w, n))
  PROVE  /\ ExactlyOnce'
         /\ Readable(journal') => Readable(journal)
         /\ \A i \in DOMAIN journal' :
              journal'[i] = Finalized(w, n) \/ (i \in DOMAIN journal /\ journal'[i] = journal[i])
<1> DEFINE line == Finalized(w, n)
           k == Len(journal) + 1
<1>1. journal \in Seq(Line \cup GlueLine)
  BY DEF TypeOK
<1>2. /\ DOMAIN journal' = DOMAIN journal \cup {k} /\ DOMAIN journal = 1 .. Len(journal)
      /\ journal'[k] = line /\ k \notin DOMAIN journal /\ Len(journal) \in Nat
      /\ \A i \in DOMAIN journal : journal'[i] = journal[i]
  BY <1>1
<1>3. line.env = Env(n) /\ phase[w] = "pass"
  BY DEF Finalized, Fresh, Deciding
<1>4. \A i \in DOMAIN journal : journal[i].whole =>
        journal[i].env.pid # line.env.pid /\ journal[i].env.eid # line.env.eid
  BY <1>3 DEF Fresh, Clashes, Consistent, Remembered, Holding
<1> HIDE DEF line, k
<1>5. ASSUME NEW i \in DOMAIN journal', NEW j \in DOMAIN journal',
             journal'[i].whole, journal'[j].whole, i # j
      PROVE  journal'[i].env.pid # journal'[j].env.pid /\ journal'[i].env.eid # journal'[j].env.eid
  <2>1. CASE i \in DOMAIN journal /\ j \in DOMAIN journal
    <3>1. journal[i].env.pid # journal[j].env.pid /\ journal[i].env.eid # journal[j].env.eid
      BY <1>2, <1>5, <2>1 DEF Consistent, ExactlyOnce
    <3> QED
      BY <1>2, <2>1, <3>1
  <2>2. CASE i = k /\ j \in DOMAIN journal
    BY <1>2, <1>4, <1>5, <2>2
  <2>3. CASE j = k /\ i \in DOMAIN journal
    BY <1>2, <1>4, <1>5, <2>3
  <2> QED
    BY <1>2, <1>5, <2>1, <2>2, <2>3
<1>6. ExactlyOnce'
  BY <1>5 DEF ExactlyOnce
<1>7. ASSUME Readable(journal') PROVE Readable(journal)
  <2>1. SUFFICES ASSUME NEW i \in DOMAIN journal
        PROVE  /\ journal[i].whole
               /\ journal[i].prev = IF i = 1 THEN Genesis ELSE Digest(journal[i - 1])
    BY DEF Readable
  <2>2. /\ journal'[i].whole
        /\ journal'[i].prev = IF i = 1 THEN Genesis ELSE Digest(journal'[i - 1])
    BY <1>2, <1>7 DEF Readable
  <2>3. i # 1 => i - 1 \in DOMAIN journal
    BY <1>2
  <2> QED
    BY <1>2, <2>2, <2>3
<1>8. \A i \in DOMAIN journal' : journal'[i] = line \/ (i \in DOMAIN journal /\ journal'[i] = journal[i])
  BY <1>2
<1> QED
  BY <1>6, <1>7, <1>8 DEF line

(* A glued line makes the journal unreadable and adds no envelope. *)
LEMMA GluedLine ==
  ASSUME TypeOK, NEW line,
         \/ journal' = Append(journal, Glue(line.n))
         \/ journal # << >> /\ journal' = [journal EXCEPT ![Len(journal)] = Glue(line.n)]
  PROVE  /\ ~Readable(journal')
         /\ \A i \in DOMAIN journal' :
              journal'[i].whole => i \in DOMAIN journal /\ journal'[i] = journal[i]
<1>1. journal \in Seq(Line \cup GlueLine)
  BY DEF TypeOK
<1>2. ~Glue(line.n).whole
  BY DEF Glue
<1>3. CASE journal' = Append(journal, Glue(line.n))
  <2>1. /\ DOMAIN journal' = DOMAIN journal \cup {Len(journal) + 1}
        /\ journal'[Len(journal) + 1] = Glue(line.n)
        /\ \A i \in DOMAIN journal : journal'[i] = journal[i]
    BY <1>1, <1>3
  <2> QED
    BY <1>2, <2>1 DEF Readable
<1>4. CASE journal # << >> /\ journal' = [journal EXCEPT ![Len(journal)] = Glue(line.n)]
  <2>1. Len(journal) \in DOMAIN journal
    BY <1>1, <1>4
  <2>2. /\ DOMAIN journal' = DOMAIN journal /\ journal'[Len(journal)] = Glue(line.n)
        /\ \A i \in DOMAIN journal : i # Len(journal) => journal'[i] = journal[i]
    BY <1>4, <2>1
  <2> QED
    BY <1>2, <2>1, <2>2 DEF Readable
<1> QED
  BY <1>3, <1>4

\* Opening and recovery keep the memory and the file consistent.
LEMMA OpenConsistent == ASSUME TypeOK, Consistent, NEW w \in Writers, Open(w) PROVE Consistent'
<1> USE DEF Consistent
<1>0. phase \in [Writers -> Phase] /\ mem \in [Writers -> Memory] /\ DOMAIN recovered = Writers
  BY DEF TypeOK
<1>1. CASE Acquire(w)
  <2>1. \A v \in Writers : phase[v] = "closed"
    BY <1>1, ProcessAssumption DEF Acquire, CanLock, Owned
  <2>2. \A v \in Writers : phase'[v] = IF v = w THEN "owned" ELSE "closed"
    BY <1>0, <1>1, <2>1 DEF Acquire
  <2>3. ExactlyOnce'
    BY <1>1 DEF Acquire, disk, ExactlyOnce
  <2> QED
    BY <1>1, <2>2, <2>3
       DEF Acquire, Owned, Reread, Recovering, Remembered, WriterInSync, Holding
<1>2. CASE Load(w)
  <2>1. owner = w /\ Readable(journal) /\ \A v \in Writers : v # w => phase[v] = "closed"
    BY <1>2 DEF Load, Owned
  <2>2. /\ UNCHANGED <<journal, owner>> /\ mem'[w] = Absorbed(journal) /\ recovered'[w] = journal
        /\ \A v \in Writers : v # w => phase'[v] = "closed"
    BY <1>0, <1>2, <2>1 DEF Load, disk
  <2>3. Readable(journal') /\ Absorbed(journal') = Absorbed(journal)
    BY <2>1, <2>2
  <2>4. Owned' /\ ExactlyOnce'
    BY <2>1, <2>2 DEF Owned, ExactlyOnce
  <2>5. Reread' /\ WriterInSync'
    BY <2>2, <2>3 DEF Reread, Recovering, JournalReadable, WriterInSync, Holding
  <2>6. Remembered'
    <3>1. Absorbed(journal).seen = {journal[i].env : i \in DOMAIN journal}
      BY AbsorbedSeen
    <3> QED
      BY <2>2, <3>1 DEF Remembered, Holding
  <2> QED
    BY <2>4, <2>5, <2>6
<1>3. CASE LoadRefused(w)
  BY <1>3, LeavesConsistent DEF LoadRefused, disk
<1>4. CASE QuarantineTail(w)
  <2>1. \A v \in Writers : phase'[v] = IF v = w THEN "rewrite" ELSE phase[v]
    BY <1>0, <1>4 DEF QuarantineTail
  <2> QED
    BY <1>4, <2>1, StayConsistent DEF QuarantineTail, Holding
<1>5. CASE Rewrite(w)
  <2>1. recovered[w] = journal /\ mem[w] = Absorbed(journal) /\ Readable(journal)
    BY <1>5 DEF Rewrite, Reread, Recovering, JournalReadable
  <2>2. journal' = journal /\ UNCHANGED <<owner, mem, recovered>> /\ owner = w
    BY <1>5, <2>1 DEF Rewrite, Owned
  <2>3. \A v \in Writers : phase'[v] = IF v = w THEN "open" ELSE "closed"
    BY <1>0, <1>5, <2>2 DEF Rewrite, Owned
  <2>4. Owned' /\ ExactlyOnce' /\ Reread'
    BY <2>2, <2>3 DEF Owned, ExactlyOnce, Reread, Recovering
  <2>5. Absorbed(journal') = mem[w] /\ mem[w].seen = {journal[i].env : i \in DOMAIN journal}
    BY <2>1, <2>2, AbsorbedSeen
  <2>6. WriterInSync' /\ Remembered'
    BY <2>2, <2>3, <2>5 DEF WriterInSync, Remembered, Holding
  <2> QED
    BY <2>4, <2>6
<1> QED
  BY <1>1, <1>2, <1>3, <1>4, <1>5 DEF Open

(* The memory after an append is again the content of the file, if that reads. *)
LEMMA AppendConsistent ==
  ASSUME TypeInv, Consistent, NEW w \in Writers, NEW n \in queue[w], AppendLine(w, n)
  PROVE  Consistent'
<1> USE DEF TypeInv, Consistent
<1> DEFINE line == Finalized(w, n)
<1>0. phase \in [Writers -> Phase] /\ mem \in [Writers -> Memory] /\ tail \in Ending
  BY DEF TypeOK
<1>1. /\ Fresh(w, n) /\ Env(n) \notin Lax /\ phase[w] = "pass"
      /\ journal' = Extended(line) /\ UNCHANGED <<owner, recovered>>
      /\ mem'[w] = [seen |-> mem[w].seen \cup {line.env}, seq |-> mem[w].seq + 1,
                    last |-> Digest(line)]
  BY <1>0 DEF AppendLine, Fresh, Deciding
<1>2. owner = w /\ \A v \in Writers : phase'[v] = IF v = w THEN "appended" ELSE "closed"
  BY <1>0, <1>1 DEF AppendLine, Owned
<1>3. Owned' /\ Reread'
  BY <1>1, <1>2 DEF Owned, Reread, Recovering
<1>4. CASE tail = "newline"
  <2>1. journal' = Append(journal, line)
    BY <1>1, <1>4 DEF Extended
  <2>2. /\ ExactlyOnce'
        /\ Readable(journal') => Readable(journal)
        /\ \A i \in DOMAIN journal' :
             journal'[i] = line \/ (i \in DOMAIN journal /\ journal'[i] = journal[i])
    BY <1>1, <2>1, FreshLine
  <2>3. Remembered'
    BY <1>1, <1>2, <2>2 DEF Remembered, Holding
  <2>4. ASSUME Readable(journal') PROVE mem'[w] = Absorbed(journal')
    <3>1. mem[w] = Absorbed(journal)
      BY <1>1, <2>2, <2>4 DEF WriterInSync, JournalReadable, Holding
    <3>2. journal \in Seq(Line \cup GlueLine)
      BY DEF TypeOK
    <3>3. /\ DOMAIN journal' = DOMAIN journal \cup {Len(journal) + 1}
          /\ Len(journal') = Len(journal) + 1 /\ journal' # << >>
          /\ journal'[Len(journal) + 1] = line
          /\ \A i \in DOMAIN journal : journal'[i] = journal[i]
      BY <2>1, <3>2
    <3>4. mem[w].seen = {journal[i].env : i \in DOMAIN journal}
      BY <3>1, AbsorbedSeen
    <3>5. {journal'[i].env : i \in DOMAIN journal'} = mem[w].seen \cup {line.env}
      BY <3>3, <3>4
    <3>6. line.seq = mem[w].seq
      BY DEF Finalized
    <3> HIDE DEF line
    <3> QED
      BY <1>1, <3>3, <3>5, <3>6 DEF Absorbed
  <2>5. WriterInSync'
    BY <1>2, <2>4 DEF WriterInSync, JournalReadable, Holding
  <2> QED
    BY <1>3, <2>2, <2>3, <2>5
<1>5. CASE tail # "newline"
  <2>1. \/ journal' = Append(journal, Glue(line.n))
        \/ journal # << >> /\ journal' = [journal EXCEPT ![Len(journal)] = Glue(line.n)]
    BY <1>0, <1>1, <1>5 DEF Extended, Ending, EndingFits
  <2>2. /\ ~Readable(journal')
        /\ \A i \in DOMAIN journal' :
             journal'[i].whole => i \in DOMAIN journal /\ journal'[i] = journal[i]
    BY <2>1, GluedLine
  <2>3. ExactlyOnce' /\ WriterInSync'
    BY <2>2 DEF ExactlyOnce, WriterInSync, JournalReadable
  <2>4. Remembered'
    BY <1>1, <1>2, <2>2 DEF Remembered, Holding
  <2> QED
    BY <1>3, <2>3, <2>4
<1> QED
  BY <1>4, <1>5

\* An interrupted append, however it is cut, keeps memory and file consistent.
LEMMA InterruptedConsistent ==
  ASSUME TypeOK, Consistent, NEW w \in Writers, NEW n \in queue[w], NEW how \in Tears,
         AppendInterrupted(w, n, how)
  PROVE  Consistent'
<1>0. phase \in [Writers -> Phase] /\ phase[w] = "pass"
  BY DEF TypeOK, AppendInterrupted, Fresh, Deciding
<1>1. CASE how = "bare"
  <2>1. journal' = Append(journal, Finalized(w, n)) /\ phase' = [phase EXCEPT ![w] = "closed"]
    BY <1>1 DEF AppendInterrupted, Forget
  <2>2. ExactlyOnce'
    BY <2>1, FreshLine DEF AppendInterrupted
  <2>3. \A v \in Writers : phase'[v] = "closed"
    BY <1>0, <2>1 DEF Consistent, Owned
  <2> QED
    BY <2>2, <2>3, AllClosed
<1>2. CASE how = "raised"
  <2>1. \A v \in Writers : phase'[v] = IF v = w THEN "open" ELSE phase[v]
    BY <1>0, <1>2 DEF AppendInterrupted
  <2> QED
    BY <1>0, <1>2, <2>1, StayConsistent DEF AppendInterrupted, Holding
<1>3. CASE how # "bare" /\ how # "raised"
  BY <1>0, <1>3, LeavesConsistent DEF AppendInterrupted, Forget
<1> QED
  BY <1>1, <1>2, <1>3

\* consume_ready and consume_one keep the memory and the file consistent.
LEMMA ConsumeConsistent ==
  ASSUME TypeInv, Consistent, NEW w \in Writers, Consume(w)
  PROVE  Consistent'
<1>0. phase \in [Writers -> Phase]
  BY DEF TypeInv, TypeOK
<1>1. ASSUME NEW to \in Holding, phase[w] \in Holding, phase' = [phase EXCEPT ![w] = to],
             UNCHANGED <<journal, owner, mem, recovered>>
      PROVE  Consistent'
  <2>1. \A v \in Writers : phase'[v] = IF v = w THEN to ELSE phase[v]
    BY <1>0, <1>1
  <2> QED
    BY <1>1, <2>1, StayConsistent DEF Holding
<1>2. CASE LockSnapshot(w)
  BY <1>1, <1>2 DEF LockSnapshot, Holding, disk
<1>3. CASE Snapshot(w)
  BY <1>1, <1>3 DEF Snapshot, Holding, disk
<1>4. CASE EndPass(w) \/ \E n \in ready : ConsumeDirect(w, n)
  BY <1>1, <1>4 DEF EndPass, ConsumeDirect, Holding, disk
<1>5. ASSUME NEW n \in queue[w], Decide(w, n) PROVE Consistent'
  <2>1. CASE Quarantine(w, n) \/ Duplicate(w, n)
    BY <2>1, StayConsistent DEF Quarantine, Duplicate, disk
  <2>2. CASE Raise(w, n)
    BY <1>1, <2>2 DEF Raise, Fresh, Deciding, Holding, disk
  <2>3. CASE AppendLine(w, n)
    BY <2>3, AppendConsistent
  <2>4. CASE Unlink(w, n)
    BY <1>1, <2>4 DEF Unlink, Holding, disk
  <2> QED
    BY <1>5, <2>1, <2>2, <2>3, <2>4 DEF Decide
<1> QED
  BY <1>2, <1>3, <1>4, <1>5 DEF Consume

\* Every step keeps the memory and the file consistent.
LEMMA ConsistentStep == ASSUME FaultInv, [Next]_vars PROVE FaultInv'
<1> USE DEF FaultInv
<1>1. TypeInv' /\ TypeOK
  BY TypeStep DEF TypeInv
<1>2. CASE UNCHANGED vars
  BY <1>1, <1>2, StayConsistent DEF vars, disk, writer
<1>3. ASSUME NEW p \in Producers, Submit(p) \/ ProducerDies(p) PROVE Consistent'
  <2>1. UNCHANGED <<disk, writer>>
    BY <1>3 DEF Submit, ProducerDies, WriteTmp, LockInbox, Stamp, Publish, UnlockInbox
  <2> QED
    BY <2>1, StayConsistent DEF disk, writer
<1>4. ASSUME NEW w \in Writers, Open(w) \/ Consume(w) PROVE Consistent'
  BY <1>1, <1>4, OpenConsistent, ConsumeConsistent
<1>5. ASSUME NEW w \in Writers, Close(w) \/ WriterDies(w) PROVE Consistent'
  BY <1>1, <1>5, LeavesConsistent DEF Close, WriterDies, Forget, disk
<1>6. ASSUME NEW w \in Writers, NEW n \in queue[w], NEW how \in Tears, AppendInterrupted(w, n, how)
      PROVE  Consistent'
  BY <1>1, <1>6, InterruptedConsistent
<1> QED
  BY <1>1, <1>2, <1>3, <1>4, <1>5, <1>6 DEF Next

(* What every interrupted append leaves true. *)
THEOREM FaultInvariant == Spec => []FaultInv
<1>1. Init => FaultInv
  <2> SUFFICES ASSUME Init PROVE FaultInv
    OBVIOUS
  <2>1. ExactlyOnce /\ TypeInv
    BY InitType DEF Init, ExactlyOnce
  <2>2. \A w \in Writers : phase[w] = "closed"
    BY DEF Init
  <2> QED
    BY <2>1, <2>2 DEF FaultInv, Consistent, Owned, Reread, Recovering, Remembered, WriterInSync,
                      Holding
<1>2. FaultInv /\ [Next]_vars => FaultInv'
  BY ConsistentStep
<1> QED
  BY <1>1, <1>2, PTL DEF Spec

(* However often an envelope is submitted or redelivered, and however an      *)
(* append is interrupted, one line carries its identities (EVENT_PROTOCOL 7.5). *)
THEOREM IdentitiesSafe == Spec => []ExactlyOnce
<1>1. FaultInv => ExactlyOnce
  BY DEF FaultInv, Consistent
<1> QED
  BY <1>1, FaultInvariant, PTL

(* A writer in use decides from what the journal holds at that moment, even   *)
(* after an append of its own that raised: no second process can have moved   *)
(* the head under it (decision 0013).                                         *)
THEOREM WriterInSyncSafe == Spec => []WriterInSync
<1>1. FaultInv => WriterInSync
  BY DEF FaultInv, Consistent
<1> QED
  BY <1>1, FaultInvariant, PTL
-----------------------------------------------------------------------------
(***************************************************************************)
(* Recovery.  As long as the journal reads, at most the last fragment is    *)
(* still in it, and no writer rewrites the file before that one is          *)
(* salvaged.                                                                *)
(***************************************************************************)
FragmentsKept ==
  /\ NoFragmentLost
  /\ \A w \in Writers : phase[w] = "rewrite" => torn \in salvaged

\* Every step keeps the fragments of a journal that reads.
LEMMA FragmentStep ==
  ASSUME FaultInv, FragmentsKept, [Next]_vars
  PROVE  FragmentsKept'
<1> USE DEF FaultInv, TypeInv
<1>0. phase \in [Writers -> Phase] /\ torn \in Nat /\ tail \in Ending
  BY DEF TypeOK
<1>1. ASSUME UNCHANGED <<torn, salvaged>>, Readable(journal') => Readable(journal) /\ tail' = tail,
             \A w \in Writers : phase'[w] = "rewrite" => phase[w] = "rewrite"
      PROVE  FragmentsKept'
  BY <1>1 DEF FragmentsKept, NoFragmentLost
<1>2. CASE UNCHANGED vars
  BY <1>1, <1>2 DEF vars, disk, writer
<1>3. ASSUME NEW p \in Producers, Submit(p) \/ ProducerDies(p) PROVE FragmentsKept'
  BY <1>1, <1>3
     DEF Submit, ProducerDies, WriteTmp, LockInbox, Stamp, Publish, UnlockInbox, disk, writer
<1>4. ASSUME NEW w \in Writers, Acquire(w) \/ LoadRefused(w) \/ Load(w) PROVE FragmentsKept'
  BY <1>0, <1>1, <1>4 DEF Acquire, Load, LoadRefused, AfterLoad, disk
<1>5. ASSUME NEW w \in Writers, QuarantineTail(w) PROVE FragmentsKept'
  BY <1>0, <1>5 DEF QuarantineTail, FragmentsKept, NoFragmentLost
<1>6. ASSUME NEW w \in Writers, Rewrite(w) PROVE FragmentsKept'
  <2>1. /\ journal' = journal /\ torn \in salvaged /\ UNCHANGED <<torn, salvaged>>
        /\ \A v \in Writers : phase'[v] = "rewrite" => phase[v] = "rewrite"
    BY <1>0, <1>6 DEF Rewrite, FragmentsKept, Consistent, Reread, Recovering
  <2> QED
    BY <1>6, <2>1 DEF FragmentsKept, NoFragmentLost
<1>7. ASSUME NEW w \in Writers, Close(w) \/ WriterDies(w) PROVE FragmentsKept'
  BY <1>0, <1>1, <1>7 DEF Close, WriterDies, Forget, disk
<1>8. ASSUME NEW w \in Writers, NEW n \in queue[w], AppendLine(w, n) PROVE FragmentsKept'
  <2>1. /\ Fresh(w, n) /\ Env(n) \notin Lax /\ journal' = Extended(Finalized(w, n))
        /\ UNCHANGED <<torn, salvaged>> /\ tail' = "newline"
        /\ \A v \in Writers : phase'[v] = "rewrite" => phase[v] = "rewrite"
    BY <1>0, <1>8 DEF AppendLine
  <2>2. CASE tail = "newline"
    <3>1. Readable(journal') => Readable(journal)
      BY <2>1, <2>2, FreshLine DEF Extended
    <3> QED
      BY <1>1, <2>1, <2>2, <3>1
  <2>3. CASE tail # "newline"
    <3>1. \/ journal' = Append(journal, Glue(Finalized(w, n).n))
          \/ /\ journal # << >>
             /\ journal' = [journal EXCEPT ![Len(journal)] = Glue(Finalized(w, n).n)]
      BY <1>0, <2>1, <2>3 DEF Extended, Ending, EndingFits
    <3>2. ~Readable(journal')
      BY <3>1, GluedLine
    <3> QED
      BY <1>1, <2>1, <3>2
  <2> QED
    BY <2>2, <2>3
<1>9. ASSUME NEW w \in Writers, Consume(w) PROVE FragmentsKept'
  BY <1>0, <1>1, <1>8, <1>9 DEF Consume, Decide, LockSnapshot, Snapshot, ConsumeDirect, EndPass,
     Quarantine, Duplicate, Raise, Unlink, disk
<1>10. ASSUME NEW w \in Writers, NEW n \in queue[w], NEW how \in Tears, AppendInterrupted(w, n, how)
       PROVE  FragmentsKept'
  <2>1. /\ tail = "newline" /\ salvaged' = salvaged /\ phase[w] = "pass"
        /\ Fresh(w, n) /\ Env(n) \notin Lax
        /\ \A v \in Writers : v # w => phase[v] = "closed"
    BY <1>10 DEF AppendInterrupted, Fresh, Deciding, Consistent, Owned
  <2>2. \A v \in Writers : phase'[v] # "rewrite"
    BY <1>0, <1>10, <2>1 DEF AppendInterrupted, Forget
  <2>3. Readable(journal) => \A k \in 1..torn : k \in salvaged
    BY <2>1 DEF FragmentsKept, NoFragmentLost
  <2>4. CASE how = "bare"
    <3>1. Readable(journal') => Readable(journal)
      BY <1>10, <2>1, <2>4, FreshLine DEF AppendInterrupted
    <3>2. torn' = torn
      BY <1>10, <2>4 DEF AppendInterrupted
    <3> QED
      BY <2>1, <2>2, <2>3, <3>1, <3>2 DEF FragmentsKept, NoFragmentLost
  <2>5. CASE how # "bare"
    <3>1. journal' = journal /\ torn' = torn + 1 /\ tail' = "fragment"
      BY <1>10, <2>5 DEF AppendInterrupted
    <3>2. \A k \in 1..torn' : k \in 1..torn \/ k = torn'
      BY <1>0, <3>1
    <3> QED
      BY <2>1, <2>2, <2>3, <3>1, <3>2 DEF FragmentsKept, NoFragmentLost
  <2> QED
    BY <2>4, <2>5
<1> QED
  BY <1>2, <1>3, <1>4, <1>5, <1>6, <1>7, <1>9, <1>10 DEF Next, Open

(* No fragment of an interrupted append vanishes from a journal that can be   *)
(* read, though recovery itself may be interrupted any number of times.       *)
THEOREM FragmentsSafe == Spec => []NoFragmentLost
<1>1. Init => FragmentsKept
  BY DEF Init, FragmentsKept, NoFragmentLost
<1>2. FragmentsKept /\ FaultInv /\ [Next]_vars => FragmentsKept'
  BY FragmentStep
<1>3. FragmentsKept => NoFragmentLost
  BY DEF FragmentsKept
<1> QED
  BY <1>1, <1>2, <1>3, FaultInvariant, PTL DEF Spec
=============================================================================
