------------------------------ MODULE Journal -------------------------------
(***************************************************************************)
(* The run journal of graphori_core/journal.py: producers publish event    *)
(* files into inbox/ready, one writer process consumes them into the hash  *)
(* chained journal.jsonl.  Producers and writers are separate processes    *)
(* that share only the run directory, and any of them may die between two  *)
(* file-system operations.                                                 *)
(*                                                                         *)
(* A ready file is named by its position in `published' (the position      *)
(* stands for the uuid in the file name); `ready' and `quarantine' are the *)
(* files present in those directories.  A digest is the history it         *)
(* commits to, which is what a collision-free hash chain means.            *)
(***************************************************************************)
EXTENDS Integers, Sequences, FiniteSets

CONSTANTS
  Producers,    \* processes that call submit_event
  Writers,      \* processes that construct a JournalWriter
  Nobody,       \* the value of a lock that is free
  Envelope,     \* producer envelopes: records with pid, eid and body
  Malformed,    \* envelopes _validate_producer_envelope refuses
  Lax,          \* those it accepts and validate_event_envelope refuses
  Legacy,       \* files an older version left in ready, by (mtime, name)
  Clock,        \* what time.time_ns() may return
  Tears,        \* what an interrupted append may leave: see AppendInterrupted
  Direct,       \* TRUE: callers also consume a single file of their choice
  MaxPublished, \* bound on the number of ready files ever published
  MaxCrashes    \* bound on process deaths and failed appends

ASSUME ProcessAssumption ==
  /\ Nobody \notin Producers \cup Writers
  /\ Producers \cap Writers = {}

ASSUME EnvelopeAssumption ==
  /\ Malformed \subseteq Envelope
  /\ Lax \subseteq Envelope

ASSUME LegacyAssumption ==
  /\ Legacy \in Seq([ord : Nat, env : Envelope])
  /\ \A i, j \in DOMAIN Legacy : i <= j => Legacy[i].ord <= Legacy[j].ord

ASSUME BoundAssumption ==
  /\ Clock \subseteq Nat
  /\ Tears \subseteq {"torn", "bare", "raised"}
  /\ Direct \in BOOLEAN
  /\ MaxPublished \in Nat /\ MaxCrashes \in Nat

VARIABLES
  published,  \* every file ever renamed into ready: [ord, env]
  ready,      \* files now in inbox/ready
  quarantine, \* files now in quarantine/
  counter,    \* .submission.counter
  subLock,    \* holder of .submission.lock
  sub,        \* per producer: the progress of its submit_event call
  journal,    \* the lines of journal.jsonl
  tail,       \* how the file ends: see Ending
  torn,       \* number of fragments interrupted appends left (history)
  salvaged,   \* fragments copied to quarantine/truncated_tail*.bin
  owner,      \* holder of journal/.writer.lock
  phase,      \* per writer: where its current call stands
  mem,        \* per writer: _producer_seen/_event_ids_seen, _next_seq, _last_digest
  recovered,  \* per writer: the events _load_existing read
  queue,      \* per writer: snapshot files the current consume call has not processed
  crashes     \* process deaths and failed appends so far

inbox    == <<published, ready, counter>>
disk     == <<journal, tail, torn, salvaged>>
writer   == <<owner, phase, mem, recovered, queue>>
vars     == <<inbox, quarantine, subLock, sub, disk, writer, crashes>>
-----------------------------------------------------------------------------
(* Data *)

Env(n) == published[n].env

(* _producer_seen.get(pid, _event_ids_seen.get(eid)): accepted envelopes have *)
(* distinct identities, so the two maps are the set of accepted envelopes,    *)
(* and content_key equality is equality.                                      *)
ClashesByPid(seen, e) == \E s \in seen : s.pid = e.pid  \* mutation: event_id unchecked
Clashes(seen, e) == \E s \in seen : s.pid = e.pid \/ s.eid = e.eid

Genesis   == << >>
Digest(l) == Append(l.prev, <<l.seq, l.env>>)
Glue(n)   == [n |-> n, whole |-> FALSE]  \* two records on one physical line

(* The file ends with a newline; with an incomplete JSON fragment; or with a *)
(* complete record whose newline is missing (that record is the last line).  *)
Ending == {"newline", "fragment", "bare"}

(* read_journal_lines: a bad line that the file does not end on is refused;  *)
(* the fragment at the end is returned as the corrupt tail.                  *)
Readable(lines) ==
  \A i \in DOMAIN lines :
    /\ lines[i].whole
    /\ lines[i].prev = IF i = 1 THEN Genesis ELSE Digest(lines[i - 1])

EmptyMemory == [seen |-> {}, seq |-> 0, last |-> Genesis]

(* _absorb, over every event read *)
Absorbed(lines) ==
  IF lines = << >> THEN EmptyMemory
  ELSE [seen |-> {lines[i].env : i \in DOMAIN lines},
        seq  |-> lines[Len(lines)].seq + 1,
        last |-> Digest(lines[Len(lines)])]

(* _finalize: the writer-assigned fields come from the writer's memory *)
Finalized(w, n) ==
  [n |-> n, whole |-> TRUE, env |-> Env(n), seq |-> mem[w].seq, prev |-> mem[w].last]

(* What the file's lines are after line plus newline is written at its end. *)
Extended(line) ==
  CASE tail = "newline"  -> Append(journal, line)
    [] tail = "fragment" -> Append(journal, Glue(line.n))
    [] tail = "bare"     -> [journal EXCEPT ![Len(journal)] = Glue(line.n)]
-----------------------------------------------------------------------------
Idle == [at |-> "idle"]

Init ==
  /\ published = Legacy
  /\ ready = DOMAIN Legacy
  /\ quarantine = {}
  /\ counter = 0
  /\ subLock = Nobody
  /\ sub = [p \in Producers |-> Idle]
  /\ journal = << >>
  /\ tail = "newline"
  /\ torn = 0
  /\ salvaged = {}
  /\ owner = Nobody
  /\ phase = [w \in Writers |-> "closed"]
  /\ mem = [w \in Writers |-> EmptyMemory]
  /\ recovered = [w \in Writers |-> << >>]
  /\ queue = [w \in Writers |-> {}]
  /\ crashes = 0
-----------------------------------------------------------------------------
(* submit_event *)

(* Validate, then write and fsync the envelope in inbox/tmp. *)
WriteTmp(p, e) ==
  /\ sub[p] = Idle
  /\ e \notin Malformed
  /\ Len(published) + Cardinality({q \in Producers : sub[q].at # "idle"}) < MaxPublished
  /\ sub' = [sub EXCEPT ![p] = [at |-> "tmp", env |-> e]]
  /\ UNCHANGED <<inbox, quarantine, subLock, disk, writer, crashes>>

(* _acquire_submission_lock blocks until the lock is free. *)
LockInbox(p) ==
  /\ sub[p].at = "tmp"
  /\ subLock = Nobody
  /\ subLock' = p
  /\ sub' = [sub EXCEPT ![p].at = "locked"]
  /\ UNCHANGED <<inbox, quarantine, disk, writer, crashes>>

(* The ordinal is the largest of the clock, one above the persistent counter *)
(* and one above every file in ready (_ready_order_floor).                   *)
CandidatesFromClock(now)     == {now}               \* mutation: time alone
CandidatesIgnoringReady(now) == {now, counter + 1}  \* mutation: no ready floor
Candidates(now) == {now, counter + 1} \cup {published[n].ord + 1 : n \in ready}

(* _write_submission_counter makes it the persistent counter. *)
Stamp(p, now) ==
  /\ sub[p].at = "locked"
  /\ \E o \in Candidates(now) :
       /\ \A c \in Candidates(now) : c <= o
       /\ counter' = o
       /\ sub' = [sub EXCEPT ![p] = [at |-> "stamped", env |-> sub[p].env, ord |-> o]]
  /\ UNCHANGED <<published, ready, quarantine, subLock, disk, writer, crashes>>

(* os.replace(tmp, ready) *)
Publish(p) ==
  /\ sub[p].at = "stamped"
  /\ published' = Append(published, [ord |-> sub[p].ord, env |-> sub[p].env])
  /\ ready' = ready \cup {Len(published) + 1}
  /\ sub' = [sub EXCEPT ![p] = [at |-> "published"]]
  /\ UNCHANGED <<counter, quarantine, subLock, disk, writer, crashes>>

UnlockInbox(p) ==
  /\ sub[p].at = "published"
  /\ subLock' = Nobody
  /\ sub' = [sub EXCEPT ![p] = Idle]
  /\ UNCHANGED <<inbox, quarantine, disk, writer, crashes>>

(* The producer dies: the operating system drops its lock, its tmp file stays *)
(* where it is and nothing reads it again.                                    *)
ProducerDies(p) ==
  /\ sub[p] # Idle
  /\ crashes < MaxCrashes
  /\ crashes' = crashes + 1
  /\ subLock' = IF subLock = p THEN Nobody ELSE subLock
  /\ sub' = [sub EXCEPT ![p] = Idle]
  /\ UNCHANGED <<inbox, quarantine, disk, writer>>
-----------------------------------------------------------------------------
(* JournalWriter: opening and closing *)

CanLockAlways(w) == w \in Writers      \* mutation: the file lock does not exclude
CanLock(w) == w \in Writers /\ owner = Nobody

(* _acquire_ownership: a busy lock raises, which leaves the caller closed. *)
Acquire(w) ==
  /\ phase[w] = "closed"
  /\ CanLock(w)
  /\ owner' = w
  /\ phase' = [phase EXCEPT ![w] = "owned"]
  /\ UNCHANGED <<inbox, quarantine, subLock, sub, disk, mem, recovered, queue, crashes>>

(* A corrupt tail is quarantined, then the file is rewritten without it. *)
AfterLoadUnsalvaged == IF tail = "fragment" THEN "rewrite" ELSE "open" \* mutation
AfterLoad == IF tail = "fragment" THEN "salvage" ELSE "open"

(* _load_existing reads and absorbs the journal once the lock is held. *)
Load(w) ==
  /\ phase[w] = "owned"
  /\ Readable(journal)
  /\ mem' = [mem EXCEPT ![w] = Absorbed(journal)]
  /\ recovered' = [recovered EXCEPT ![w] = journal]
  /\ phase' = [phase EXCEPT ![w] = AfterLoad]
  /\ UNCHANGED <<inbox, quarantine, subLock, sub, disk, owner, queue, crashes>>

(* A journal that does not read is refused: __post_init__ closes and raises. *)
LoadRefused(w) ==
  /\ phase[w] = "owned"
  /\ ~Readable(journal)
  /\ owner' = Nobody
  /\ phase' = [phase EXCEPT ![w] = "closed"]
  /\ UNCHANGED <<inbox, quarantine, subLock, sub, disk, mem, recovered, queue, crashes>>

QuarantineTail(w) ==
  /\ phase[w] = "salvage"
  /\ salvaged' = salvaged \cup {torn}
  /\ phase' = [phase EXCEPT ![w] = "rewrite"]
  /\ UNCHANGED <<inbox, quarantine, subLock, sub, journal, tail, torn, owner, mem,
                 recovered, queue, crashes>>

(* _atomic_rewrite replaces the file by the events that were read. *)
Rewrite(w) ==
  /\ phase[w] = "rewrite"
  /\ journal' = recovered[w]
  /\ tail' = "newline"
  /\ phase' = [phase EXCEPT ![w] = "open"]
  /\ UNCHANGED <<inbox, quarantine, subLock, sub, torn, salvaged, owner, mem,
                 recovered, queue, crashes>>

Forget(w) ==  \* the process is gone: the locks it held and its memory with it
  /\ owner' = IF owner = w THEN Nobody ELSE owner
  /\ subLock' = IF subLock = w THEN Nobody ELSE subLock
  /\ phase' = [phase EXCEPT ![w] = "closed"]
  /\ mem' = [mem EXCEPT ![w] = EmptyMemory]
  /\ recovered' = [recovered EXCEPT ![w] = << >>]
  /\ queue' = [queue EXCEPT ![w] = {}]

Close(w) ==
  /\ phase[w] = "open"
  /\ Forget(w)
  /\ UNCHANGED <<inbox, quarantine, sub, disk, crashes>>

WriterDies(w) ==
  /\ phase[w] # "closed"
  /\ crashes < MaxCrashes
  /\ crashes' = crashes + 1
  /\ Forget(w)
  /\ UNCHANGED <<inbox, quarantine, sub, disk>>
-----------------------------------------------------------------------------
(* JournalWriter: consume_ready and consume_one *)

(* consume_ready takes the submission lock, so no publication is half done. *)
LockSnapshot(w) ==
  /\ phase[w] = "open"
  /\ subLock = Nobody
  /\ subLock' = w
  /\ phase' = [phase EXCEPT ![w] = "listing"]
  /\ UNCHANGED <<inbox, quarantine, sub, disk, owner, mem, recovered, queue, crashes>>

(* Every file of ready, legacy ones included, becomes work of this pass. *)
ListedStamped == {n \in ready : n > Len(Legacy)}  \* mutation: legacy files skipped
Listed == ready

Snapshot(w) ==
  /\ phase[w] = "listing"
  /\ queue' = [queue EXCEPT ![w] = Listed]
  /\ subLock' = Nobody
  /\ phase' = [phase EXCEPT ![w] = "pass"]
  /\ UNCHANGED <<inbox, quarantine, sub, disk, owner, mem, recovered, crashes>>

(* ExecutionEngine._append and cli._emit consume the file they just submitted. *)
ConsumeDirect(w, n) ==
  /\ Direct
  /\ phase[w] = "open"
  /\ queue' = [queue EXCEPT ![w] = {n}]
  /\ phase' = [phase EXCEPT ![w] = "pass"]
  /\ UNCHANGED <<inbox, quarantine, subLock, sub, disk, owner, mem, recovered, crashes>>

EndPass(w) ==
  /\ phase[w] = "pass"
  /\ queue[w] = {}
  /\ phase' = [phase EXCEPT ![w] = "open"]
  /\ UNCHANGED <<inbox, quarantine, subLock, sub, disk, owner, mem, recovered, queue, crashes>>

(* A pass takes its files in the order of (ordinal, name). *)
Before(m, n) ==
  \/ published[m].ord < published[n].ord
  \/ published[m].ord = published[n].ord /\ m < n

NextUp(w, n) == n \in queue[w] /\ \A m \in queue[w] \ {n} : Before(n, m)
Deciding(w, n) == phase[w] = "pass" /\ NextUp(w, n)
Processed(w, n) == queue' = [queue EXCEPT ![w] = @ \ {n}]

(* consume_one on file n.  Only the owner removes files from ready, so the    *)
(* file it is about to read is still there.                                   *)
RefusedOnIdentity(w, n) ==  \* mutation: exact redelivery taken for a conflict
  Env(n) \in Malformed \/ Clashes(mem[w].seen, Env(n))
Refused(w, n) ==
  \/ Env(n) \in Malformed
  \/ Env(n) \notin mem[w].seen /\ Clashes(mem[w].seen, Env(n))

(* _quarantine_file, for malformed_ready and for idempotency_conflict *)
Quarantine(w, n) ==
  /\ Deciding(w, n)
  /\ Refused(w, n)
  /\ quarantine' = quarantine \cup {n}
  /\ ready' = ready \ {n}
  /\ Processed(w, n)
  /\ UNCHANGED <<published, counter, subLock, sub, disk, owner, phase, mem, recovered, crashes>>

DuplicateByIdentity(w, n) ==  \* mutation: the content digest is not compared
  /\ Deciding(w, n)
  /\ Clashes(mem[w].seen, Env(n))
  /\ ready' = ready \ {n}
  /\ Processed(w, n)
  /\ UNCHANGED <<published, counter, quarantine, subLock, sub, disk, owner, phase, mem,
                 recovered, crashes>>

Duplicate(w, n) ==
  /\ Deciding(w, n)
  /\ Env(n) \notin Malformed
  /\ Env(n) \in mem[w].seen
  /\ ready' = ready \ {n}
  /\ Processed(w, n)
  /\ UNCHANGED <<published, counter, quarantine, subLock, sub, disk, owner, phase, mem,
                 recovered, crashes>>

FreshUnvalidated(w, n) ==  \* mutation: the producer envelope is not validated again
  Deciding(w, n) /\ ~Clashes(mem[w].seen, Env(n))

Fresh(w, n) ==
  /\ Deciding(w, n)
  /\ Env(n) \notin Malformed
  /\ ~Clashes(mem[w].seen, Env(n))

(* _finalize raises on an envelope that only the canonical validation refuses; *)
(* the exception leaves consume_one and consume_ready with the file in ready.  *)
Raise(w, n) ==
  /\ Fresh(w, n)
  /\ Env(n) \in Lax
  /\ queue' = [queue EXCEPT ![w] = {}]
  /\ phase' = [phase EXCEPT ![w] = "open"]
  /\ UNCHANGED <<inbox, quarantine, subLock, sub, disk, owner, mem, recovered, crashes>>

(* _append_journal_line, then the writer's memory follows *)
AppendLine(w, n) ==
  /\ Fresh(w, n)
  /\ Env(n) \notin Lax
  /\ LET line == Finalized(w, n) IN
       /\ journal' = Extended(line)
       /\ tail' = "newline"
       /\ mem' = [mem EXCEPT ![w] = [seen |-> @.seen \cup {line.env},
                                     seq  |-> @.seq + 1,
                                     last |-> Digest(line)]]
  /\ phase' = [phase EXCEPT ![w] = "appended"]
  /\ UNCHANGED <<inbox, quarantine, subLock, sub, torn, salvaged, owner, recovered, queue, crashes>>

(* ready_path.unlink() *)
Unlink(w, n) ==
  /\ phase[w] = "appended"
  /\ NextUp(w, n)
  /\ ready' = ready \ {n}
  /\ Processed(w, n)
  /\ phase' = [phase EXCEPT ![w] = "pass"]
  /\ UNCHANGED <<published, counter, quarantine, subLock, sub, disk, owner, mem, recovered, crashes>>

(* The append stops part way.  "torn": the process dies with a fragment on    *)
(* disk; "bare": it dies with everything but the newline on disk; "raised":   *)
(* write or fsync raises (a full disk) after a fragment, and the process goes *)
(* on with its memory unchanged.                                              *)
AppendInterrupted(w, n, how) ==
  /\ Fresh(w, n)
  /\ Env(n) \notin Lax
  /\ tail = "newline"
  /\ crashes < MaxCrashes
  /\ crashes' = crashes + 1
  /\ IF how = "bare"
       THEN /\ journal' = Append(journal, Finalized(w, n))
            /\ tail' = "bare"
            /\ UNCHANGED torn
       ELSE /\ torn' = torn + 1
            /\ tail' = "fragment"
            /\ UNCHANGED journal
  /\ IF how = "raised"
       THEN /\ queue' = [queue EXCEPT ![w] = {}]
            /\ phase' = [phase EXCEPT ![w] = "open"]
            /\ UNCHANGED <<subLock, owner, mem, recovered>>
       ELSE Forget(w)
  /\ UNCHANGED <<inbox, quarantine, sub, salvaged>>
-----------------------------------------------------------------------------
Submit(p) ==
  \/ \E e \in Envelope : WriteTmp(p, e)
  \/ LockInbox(p)
  \/ \E now \in Clock : Stamp(p, now)
  \/ Publish(p)
  \/ UnlockInbox(p)

Open(w)  == Acquire(w) \/ Load(w) \/ LoadRefused(w) \/ QuarantineTail(w) \/ Rewrite(w)

Decide(w, n) ==
  Quarantine(w, n) \/ Duplicate(w, n) \/ Raise(w, n) \/ AppendLine(w, n) \/ Unlink(w, n)

Consume(w) ==
  \/ LockSnapshot(w) \/ Snapshot(w)
  \/ \E n \in ready : ConsumeDirect(w, n)
  \/ \E n \in queue[w] : Decide(w, n)
  \/ EndPass(w)

Next ==
  \/ \E p \in Producers : Submit(p) \/ ProducerDies(p)
  \/ \E w \in Writers :
       \/ Open(w) \/ Consume(w) \/ Close(w) \/ WriterDies(w)
       \/ \E n \in queue[w], how \in Tears : AppendInterrupted(w, n, how)

Spec == Init /\ [][Next]_vars

(* The operating system schedules every process; a blocked flock is granted   *)
(* when it is free again and again; whoever drives the run reopens the writer *)
(* after a crash and keeps calling consume_ready while it is open.            *)
Fairness ==
  /\ \A p \in Producers : SF_vars(LockInbox(p)) /\ WF_vars(Submit(p))
  /\ \A w \in Writers :
       /\ WF_vars(Open(w))
       /\ SF_vars(LockSnapshot(w))
       /\ WF_vars(phase[w] # "open" /\ Consume(w))

FairSpec == Spec /\ Fairness
-----------------------------------------------------------------------------
(* Properties *)

Accepted == Envelope \ (Malformed \cup Lax)
History  == Seq(Nat \X Accepted)
Line     == [n : Nat, whole : {TRUE}, env : Accepted, seq : Nat, prev : History]
GlueLine == [n : Nat, whole : {FALSE}]

SubmitState ==
  [at : {"idle", "published"}] \cup [at : {"tmp", "locked"}, env : Envelope]
    \cup [at : {"stamped"}, env : Envelope, ord : Nat]

Memory == [seen : SUBSET Accepted, seq : Nat, last : History]

Phase == {"closed", "owned", "salvage", "rewrite", "open", "listing", "pass", "appended"}

(* Every variable has its type; above all, the journal and the writers' maps *)
(* hold only envelopes that both validations accept.                        *)
TypeOK ==
  /\ published \in Seq([ord : Nat, env : Envelope])
  /\ ready \subseteq DOMAIN published
  /\ quarantine \subseteq DOMAIN published
  /\ counter \in Nat
  /\ subLock \in Producers \cup Writers \cup {Nobody}
  /\ sub \in [Producers -> SubmitState]
  /\ journal \in Seq(Line \cup GlueLine)
  /\ tail \in Ending
  /\ torn \in Nat
  /\ salvaged \subseteq 1..torn
  /\ owner \in Writers \cup {Nobody}
  /\ phase \in [Writers -> Phase]
  /\ mem \in [Writers -> Memory]
  /\ recovered \in [Writers -> Seq(Line)]
  /\ queue \in [Writers -> SUBSET (DOMAIN published)]
  /\ crashes \in Nat

(* A reader (replay_journal, a reopening writer, the dashboard) always finds  *)
(* complete records that chain from the genesis digest: read_journal_lines    *)
(* refuses nothing but a fragment at the very end.                            *)
JournalReadable == Readable(journal)

(* JournalWriter numbers records without gap or repetition across writers,   *)
(* crashes and recoveries, so that the chain and the numbering agree.        *)
ChainIntact ==
  /\ JournalReadable
  /\ \A i \in DOMAIN journal : journal[i].seq = i - 1

Holding == {"open", "listing", "pass", "appended"}  \* phases of a writer in use

(* Decision 0013: a writer in use never works from a stale head.  As long as  *)
(* the journal can be read, its maps, its next seq and its last digest are    *)
(* what a writer that opened the journal at this moment would compute, even   *)
(* after an append of its own that failed.                                    *)
WriterInSync ==
  JournalReadable => \A w \in Writers : phase[w] \in Holding => mem[w] = Absorbed(journal)

(* EVENT_PROTOCOL 7.5: however often an envelope is submitted or redelivered  *)
(* after a crash between append and unlink, one record carries its identity. *)
ExactlyOnce ==
  \A i, j \in {k \in DOMAIN journal : journal[k].whole} :
    i # j => journal[i].env.pid # journal[j].env.pid /\ journal[i].env.eid # journal[j].env.eid

(* A published envelope is never lost: until its content is in the journal,   *)
(* its file is in ready or in quarantine, whoever dies whenever.              *)
NothingLost ==
  \A n \in DOMAIN published :
    n \in ready \cup quarantine \/ \E i \in DOMAIN journal : journal[i].env = Env(n)

(* Only a malformed file, or one whose identity the journal already holds with *)
(* other content, ends in quarantine (malformed_ready, idempotency_conflict).  *)
QuarantineJustified ==
  \A n \in quarantine :
    \/ Env(n) \in Malformed
    \/ \E i \in DOMAIN journal :
         journal[i].env # Env(n) /\ Clashes({journal[i].env}, Env(n))

(* consume_ready records events in the order in which they were published,   *)
(* across clock rollbacks, passes, crashes and successive writers; the       *)
(* reducer depends on it.  Legacy files come first, by mtime.                *)
OrderFollowsPublication ==
  \A i, j \in DOMAIN journal : i < j => journal[i].n < journal[j].n

(* _ready_order_floor and the counter: a new ordinal exceeds that of every    *)
(* earlier publication and of every legacy file still pending.               *)
OrdinalsIncrease ==
  \A m, n \in DOMAIN published :
    /\ m < n
    /\ n > Len(Legacy)
    /\ m > Len(Legacy) \/ m \in ready
    => published[m].ord < published[n].ord

(* Recovery copies the fragment to quarantine before it rewrites the file, so *)
(* no bytes that reached a journal that can be read vanish, even if recovery  *)
(* itself crashes.                                                           *)
NoFragmentLost ==
  Readable(journal) => \A k \in 1..torn : k \in salvaged \/ (k = torn /\ tail = "fragment")

IsPrefix(s, t) == Len(s) <= Len(t) /\ \A i \in DOMAIN s : t[i] = s[i]

(* No step of any process, recovery rewrites included, changes or removes a   *)
(* record that is in the journal.                                            *)
AppendOnly == [][IsPrefix(journal, journal')]_vars

(* The journal implements the idempotent log readers rely on. *)
Log == INSTANCE JournalLog WITH
         offered <- {Env(n) : n \in DOMAIN published},
         log     <- [i \in DOMAIN journal |-> journal[i].env]
ImplementsLog == Log!Spec

(* consume_ready processes every file of ready, so a published file does not  *)
(* stay there for ever: it is recorded, dropped as a duplicate or quarantined. *)
EveryFileSettles ==
  \A n \in 1..MaxPublished : (n \in ready) ~> (n \notin ready)
=============================================================================
