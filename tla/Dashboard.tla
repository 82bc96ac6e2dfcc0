------------------------------- MODULE Dashboard -------------------------------
(***************************************************************************)
(* A page of the dashboard that watches a run while its journal grows:     *)
(* DashboardStore and DashboardHandler (dashboard.py), and the page's      *)
(* DashboardStream (docs/dashboard/app/dashboard-stream.js).               *)
(*                                                                         *)
(* A snapshot is the projection of a prefix of the journal, so it is the   *)
(* length of that prefix.  The server reads without the writer's lock.     *)
(* Every message of the stream but the snapshot only makes the page fetch  *)
(* a snapshot over a connection of its own, and the answers come back in   *)
(* any order.  The wire holds one message of the stream, which is in order.*)
(***************************************************************************)
EXTENDS Integers

CONSTANTS
  ReplayLimit,   \* replay_limit: events the store keeps for a stream
  Fetches,       \* connections the page fetches snapshots over
  MaxLength,     \* bound: events of the journal
  MaxConnects,   \* bound: times the reader presses Connect
  MaxDrops       \* bound: times the network drops the stream

ASSUME DashboardAssumption ==
  /\ ReplayLimit \in Nat \ {0} /\ MaxLength \in Nat \ {0}
  /\ MaxConnects \in Nat /\ MaxDrops \in Nat

VARIABLES
  length,   \* whole events in the journal file
  partial,  \* a piece of the next one follows them
  stream,   \* the handler of the page's open EventSource
  wire,     \* the message on its way to the page
  fetch,    \* [connection -> what became of the fetch on it]
  timer,    \* reconnectTimer is set
  display,  \* the snapshot the office shows
  connects, drops

dvars == <<length, partial, stream, wire, fetch, timer, display, connects, drops>>
fileVars == <<length, partial>>

Closed == [at |-> "closed", last |-> 0, upto |-> 0, snapshot |-> 0]
Opened == [Closed EXCEPT !.at = "opened"]
Message(is, snapshot) == [is |-> is, snapshot |-> snapshot]
Silence == Message("nothing", 0)
Unused == [at |-> "unused", first |-> FALSE, snapshot |-> 0]
Spare(c) == fetch[c] = Unused

DInit ==
  /\ length = 1 /\ partial = FALSE
  /\ stream = Closed /\ wire = Silence
  /\ fetch = [c \in Fetches |-> Unused]
  /\ timer = FALSE
  /\ display = 0
  /\ connects = 0 /\ drops = 0

-----------------------------------------------------------------------------
(* The writer: what a reader without its lock sees of an append.           *)

AppendBegins ==
  /\ ~partial /\ length < MaxLength
  /\ partial' = TRUE
  /\ UNCHANGED <<length, stream, wire, fetch, timer, display, connects, drops>>

\* the line is whole, or a writer died and the next one takes the piece away
AppendEnds ==
  /\ partial
  /\ partial' = FALSE
  /\ length' \in {length, length + 1}
  /\ UNCHANGED <<stream, wire, fetch, timer, display, connects, drops>>

-----------------------------------------------------------------------------
(* The handler of a stream.  Reading the journal raises on a partial line. *)

Sent == stream.last = stream.upto
Gap(since, oldestKept) == since < oldestKept - 1

\* The cache holds the last events of what some request read last, and a slower
\* one puts back what it read before: its events end at `kept', counted from 1.
Kept == 1..length
Oldest(kept) == IF kept > ReplayLimit THEN kept - ReplayLimit + 1 ELSE 1

ReadSnapshot ==
  /\ stream.at = "opened" /\ ~partial
  /\ stream' = [stream EXCEPT !.at = "snapped", !.snapshot = length]
  /\ UNCHANGED <<fileVars, wire, fetch, timer, display, connects, drops>>

\* a page's EventSource is a new one each time and names no event it has
ReadReplay ==
  /\ stream.at = "snapped" /\ ~partial /\ wire = Silence
  /\ wire' = Message("snapshot", stream.snapshot)
  /\ \E kept \in Kept :
       stream' = [stream EXCEPT !.at = IF Gap(0, Oldest(kept)) THEN "gap" ELSE "replay",
                                !.upto = kept]
  /\ UNCHANGED <<fileVars, fetch, timer, display, connects, drops>>

SendGap ==
  /\ stream.at = "gap" /\ wire = Silence
  /\ wire' = Message("gap", 0)
  /\ stream' = Closed
  /\ UNCHANGED <<fileVars, fetch, timer, display, connects, drops>>

SendEvent ==
  /\ stream.at \in {"replay", "live"} /\ ~Sent /\ wire = Silence
  /\ wire' = Message("event", 0)
  /\ stream' = [stream EXCEPT !.last = stream.last + 1]
  /\ UNCHANGED <<fileVars, fetch, timer, display, connects, drops>>

\* the first heartbeat follows the replay; a later one is due after a while
Heartbeat ==
  /\ stream.at = "replay" \/ (stream.at = "live" /\ ~partial)
  /\ Sent /\ wire = Silence
  /\ wire' = Message("heartbeat", 0)
  /\ stream' = [stream EXCEPT !.at = "live"]
  /\ UNCHANGED <<fileVars, fetch, timer, display, connects, drops>>

PollJournal ==
  /\ stream.at = "live" /\ Sent /\ ~partial
  /\ \E kept \in Kept :
       /\ stream.last < kept
       /\ stream' = IF Gap(stream.last, Oldest(kept)) THEN [stream EXCEPT !.at = "gap"]
                    ELSE [stream EXCEPT !.upto = kept]
  /\ UNCHANGED <<fileVars, wire, fetch, timer, display, connects, drops>>

\* do_GET answers the exception with an error and the stream ends
ReadFails ==
  /\ partial /\ wire = Silence
  /\ stream.at \in {"opened", "snapped"} \/ (stream.at = "live" /\ Sent)
  /\ wire' = Message("error", 0)
  /\ stream' = Closed
  /\ UNCHANGED <<fileVars, fetch, timer, display, connects, drops>>

-----------------------------------------------------------------------------
(* The page.                                                               *)

Reconnect == timer' = TRUE /\ stream' = Closed /\ wire' = Silence

Asked(first) == [at |-> "asked", first |-> first, snapshot |-> 0]
Ask(c, first) == Spare(c) /\ fetch' = [fetch EXCEPT ![c] = Asked(first)]

\* answers to what an earlier connect asked are of an older generation
Connect(c) ==
  /\ connects < MaxConnects /\ connects' = connects + 1
  /\ stream' = Opened /\ wire' = Silence /\ timer' = FALSE
  /\ fetch' = [[b \in Fetches |-> Unused] EXCEPT ![c] = Asked(TRUE)]
  /\ UNCHANGED <<fileVars, display, drops>>

TimerFires(c) ==
  /\ timer /\ Ask(c, TRUE)
  /\ timer' = FALSE /\ stream' = Opened
  /\ UNCHANGED <<fileVars, wire, display, connects, drops>>

Served(c) ==
  /\ fetch[c].at = "asked" /\ ~partial
  /\ fetch' = [fetch EXCEPT ![c].at = "answered", ![c].snapshot = length]
  /\ UNCHANGED <<fileVars, stream, wire, timer, display, connects, drops>>

\* a 404: only the fetch that goes with a new stream is worth a reconnection
Refused(c) ==
  /\ fetch[c].at = "asked" /\ partial
  /\ fetch' = [fetch EXCEPT ![c] = Unused]
  /\ IF fetch[c].first THEN Reconnect ELSE UNCHANGED <<stream, wire, timer>>
  /\ UNCHANGED <<fileVars, display, connects, drops>>

Arrives(c) ==
  /\ fetch[c].at = "answered"
  /\ display' = fetch[c].snapshot
  /\ fetch' = [fetch EXCEPT ![c] = Unused]
  /\ UNCHANGED <<fileVars, stream, wire, timer, connects, drops>>

OnSnapshot ==
  /\ wire.is = "snapshot"
  /\ display' = wire.snapshot
  /\ wire' = Silence
  /\ UNCHANGED <<fileVars, stream, fetch, timer, connects, drops>>

OnNewsOfEvents(c) ==  \* mutation: a heartbeat is no reason to fetch
  /\ wire.is \in {"event", "heartbeat"} /\ wire' = Silence
  /\ IF wire.is = "event" THEN Ask(c, FALSE) ELSE UNCHANGED fetch
  /\ UNCHANGED <<fileVars, stream, timer, display, connects, drops>>

OnNews(c) ==
  /\ wire.is \in {"event", "heartbeat"} /\ wire' = Silence
  /\ Ask(c, FALSE)
  /\ UNCHANGED <<fileVars, stream, timer, display, connects, drops>>

OnEnd ==
  /\ wire.is \in {"gap", "error"}
  /\ Reconnect
  /\ UNCHANGED <<fileVars, fetch, display, connects, drops>>

Dropped ==
  /\ stream.at # "closed" /\ drops < MaxDrops /\ drops' = drops + 1
  /\ Reconnect
  /\ UNCHANGED <<fileVars, fetch, display, connects>>

-----------------------------------------------------------------------------
Handler ==
  ReadSnapshot \/ ReadReplay \/ SendGap \/ SendEvent \/ Heartbeat \/ PollJournal \/ ReadFails
Fetched(c) == Served(c) \/ Refused(c) \/ Arrives(c)
Page == OnSnapshot \/ OnEnd \/ \E c \in Fetches : OnNews(c) \/ TimerFires(c)

DNext ==
  \/ AppendBegins \/ AppendEnds
  \/ Handler \/ Page \/ Dropped
  \/ \E c \in Fetches : Fetched(c) \/ Connect(c)

\* the handler's thread runs and a heartbeat falls due, requests are answered,
\* and the page handles what arrives and its timer
DFairness == WF_dvars(Handler) /\ WF_dvars(Page) /\ \A c \in Fetches : WF_dvars(Fetched(c))

DSpec == DInit /\ [][DNext]_dvars /\ DFairness

-----------------------------------------------------------------------------
(* Properties.                                                             *)

DTypeOK ==
  /\ length \in 1..MaxLength /\ partial \in BOOLEAN
  /\ stream \in [at : {"closed", "opened", "snapped", "replay", "live", "gap"},
                 last : 0..MaxLength, upto : 0..MaxLength, snapshot : 0..MaxLength]
  /\ wire \in [is : {"nothing", "snapshot", "event", "heartbeat", "gap", "error"},
               snapshot : 0..MaxLength]
  /\ fetch \in [Fetches -> [at : {"unused", "asked", "answered"}, first : BOOLEAN,
                            snapshot : 0..MaxLength]]
  /\ timer \in BOOLEAN /\ display \in 0..MaxLength
  /\ connects \in 0..MaxConnects /\ drops \in 0..MaxDrops

\* Once the journal is left in peace, a connected page comes to show all of it
\* and nothing older again: an answer that an older one overtakes, a stream cut
\* by a partial line or a gap and a dropped connection are all made good.
DisplaySettles ==
  <>[](~partial /\ connects > 0) => <>[](display = length)
=============================================================================
