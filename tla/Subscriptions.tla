---------------------------- MODULE Subscriptions ----------------------------
(***************************************************************************)
(* Event streams of one job on one API instance (routers/jobs/events.rs).  *)
(* All subscribers share a watch channel and a poller that copies durable  *)
(* revisions into it; a registry maps the job to its channel.  A           *)
(* subscriber reads the row before it takes the registry's lock, and a     *)
(* poller leaves its loop before it takes the lock to remove its entry.    *)
(***************************************************************************)
EXTENDS Integers

CONSTANTS
  Clients,     \* connections; each subscribes once
  MaxVersion,  \* bound: revisions of the row; the last one is terminal
  MaxChannels  \* bound: channels created for the job

ASSUME SubscriptionsAssumption == MaxVersion \in Nat \ {0} /\ MaxChannels \in Nat \ {0}

VARIABLES
  row,       \* the durable version
  shutdown,  \* the server stops
  registry,  \* the registered channel, 0 if none
  value,     \* value[c]: the version in channel c, Failed for an error event
  stamp,     \* stamp[c]: how often channel c was modified
  poller,    \* poller[c]: none, waiting, polled, leaving, gone
  loaded,    \* loaded[c]: what the poller read and has not published yet
  stream,    \* stream[k]: idle, read, first, open, ended, dropped
  first,     \* first[k]: the version client k read before the lock
  chan,      \* chan[k]: the channel it listens to
  seen,      \* seen[k]: the modification it has seen
  shown,     \* shown[k]: the row's revision when it connected, then the last one it was sent
  gotError,  \* history: the error event was sent to k
  late,      \* history: k joined a channel whose poller had left its loop
  broken     \* history: channels in which an error event was stored

clientVars == <<stream, first, chan, seen, shown, gotError, late>>
channelVars == <<registry, value, stamp, poller, loaded, broken>>
streamVars == <<row, shutdown, channelVars, clientVars>>

Channels == 1..MaxChannels
Failed == -1
Versions == 0..MaxVersion
Terminal(v) == v \in {Failed, MaxVersion}

Listeners(c) == {k \in Clients : chan[k] = c /\ stream[k] \in {"first", "open"}}
\* Every sender of the channel is dropped: its poller's and the registry's.
Closed(c) == poller[c] \in {"none", "gone"} /\ registry # c

StreamInit ==
  /\ row = 0 /\ shutdown = FALSE /\ registry = 0
  /\ value = [c \in Channels |-> 0] /\ stamp = [c \in Channels |-> 0]
  /\ poller = [c \in Channels |-> "none"] /\ loaded = [c \in Channels |-> 0]
  /\ stream = [k \in Clients |-> "idle"] /\ first = [k \in Clients |-> 0]
  /\ chan = [k \in Clients |-> 0] /\ seen = [k \in Clients |-> 0]
  /\ shown = [k \in Clients |-> Failed] /\ gotError = {} /\ late = {} /\ broken = {}

\* Workers raise the version until the job is terminal.
Advance ==
  /\ row < MaxVersion
  /\ row' = row + 1
  /\ UNCHANGED <<shutdown, channelVars, clientVars>>

Shutdown ==
  /\ ~shutdown /\ shutdown' = TRUE
  /\ UNCHANGED <<row, channelVars, clientVars>>

-----------------------------------------------------------------------------
(* A connection. *)

\* find_by_id; a failure or a missing row is an HTTP error, no stream.
ReadRow(k) ==
  /\ stream[k] = "idle"
  /\ first' = [first EXCEPT ![k] = row]
  /\ shown' = [shown EXCEPT ![k] = row]
  /\ stream' = [stream EXCEPT ![k] = "read"]
  /\ UNCHANGED <<row, shutdown, channelVars, chan, seen, gotError, late>>

\* Mutant of Raise: whatever was read replaces the channel's value.
RaiseAlways(c, v) ==
  /\ value' = [value EXCEPT ![c] = v]
  /\ stamp' = [stamp EXCEPT ![c] = @ + 1]

\* watch::Sender::send_if_modified with the version guard both writers use.
Raise(c, v) ==
  /\ value' = [value EXCEPT ![c] = IF v > @ THEN v ELSE @]
  /\ stamp' = [stamp EXCEPT ![c] = IF v > value[c] THEN @ + 1 ELSE @]

Subscribe(k, c) ==
  /\ chan' = [chan EXCEPT ![k] = c]
  /\ seen' = [seen EXCEPT ![k] = stamp'[c]]
  /\ stream' = [stream EXCEPT ![k] = "first"]
  /\ UNCHANGED <<row, shutdown, first, shown, gotError>>

\* Under the lock: join the registered channel and bring it up to date.
JoinChannel(k) ==
  LET c == registry IN
  /\ stream[k] = "read" /\ c # 0
  /\ Raise(c, first[k])
  /\ Subscribe(k, c)
  /\ late' = IF poller[c] = "leaving" THEN late \cup {k} ELSE late
  /\ UNCHANGED <<registry, poller, loaded, broken>>

\* Under the lock: create the channel; only an unfinished job is polled and registered.
Create(k) ==
  /\ stream[k] = "read" /\ registry = 0
  /\ \E c \in Channels :
       /\ poller[c] = "none" /\ Listeners(c) = {} /\ \A d \in Channels : d < c => stamp[d] > 0
       /\ stamp[c] = 0
       /\ value' = [value EXCEPT ![c] = first[k]]
       /\ stamp' = [stamp EXCEPT ![c] = 1]
       /\ Subscribe(k, c)
       /\ IF Terminal(first[k]) THEN UNCHANGED <<registry, poller>>
          ELSE registry' = c /\ poller' = [poller EXCEPT ![c] = "waiting"]
  /\ UNCHANGED <<late, loaded, broken>>

\* The first event is whatever the channel holds by now; later ones wait for a change.
Deliver(k) ==
  LET c == chan[k] IN
  /\ stream[k] = "first" \/ (stream[k] = "open" /\ seen[k] < stamp[c])
  /\ seen' = [seen EXCEPT ![k] = stamp[c]]
  /\ shown' = [shown EXCEPT ![k] = IF value[c] = Failed THEN @ ELSE value[c]]
  /\ gotError' = IF value[c] = Failed THEN gotError \cup {k} ELSE gotError
  /\ stream' = [stream EXCEPT ![k] = IF Terminal(value[c]) THEN "ended" ELSE "open"]
  /\ UNCHANGED <<row, shutdown, channelVars, first, chan, late>>

\* Mutant of EndOfStream: a closed channel ends the stream with a change unseen.
EndUnseen(k) ==
  /\ stream[k] = "open" /\ Closed(chan[k])
  /\ stream' = [stream EXCEPT ![k] = "ended"]
  /\ UNCHANGED <<row, shutdown, channelVars, first, chan, seen, shown, gotError, late>>

\* changed() fails: all senders are gone and nothing is unseen.
EndOfStream(k) ==
  /\ stream[k] = "open" /\ seen[k] = stamp[chan[k]] /\ Closed(chan[k])
  /\ stream' = [stream EXCEPT ![k] = "ended"]
  /\ UNCHANGED <<row, shutdown, channelVars, first, chan, seen, shown, gotError, late>>

Disconnect(k) ==
  /\ stream[k] \in {"read", "first", "open"}
  /\ stream' = [stream EXCEPT ![k] = "dropped"]
  /\ UNCHANGED <<row, shutdown, channelVars, first, chan, seen, shown, gotError, late>>

-----------------------------------------------------------------------------
(* The poller of a channel. *)

MovePoller(c, where) == poller' = [poller EXCEPT ![c] = where]

\* The server stops or the last subscriber has left, while sleeping or querying.
StopPolling(c) ==
  /\ poller[c] = "waiting" /\ (shutdown \/ Listeners(c) = {})
  /\ MovePoller(c, "leaving")
  /\ UNCHANGED <<row, shutdown, registry, value, stamp, loaded, broken, clientVars>>

\* The query returns; it may fail, or miss a row deleted in the meantime.
Poll(c) ==
  /\ poller[c] = "waiting"
  /\ \E v \in {row, Failed} : loaded' = [loaded EXCEPT ![c] = v]
  /\ MovePoller(c, "polled")
  /\ UNCHANGED <<row, shutdown, registry, value, stamp, broken, clientVars>>

Publish(c) ==
  /\ poller[c] = "polled" /\ loaded[c] # Failed
  /\ Raise(c, loaded[c])
  /\ MovePoller(c, IF Terminal(loaded[c]) THEN "leaving" ELSE "waiting")
  /\ UNCHANGED <<row, shutdown, registry, loaded, broken, clientVars>>

\* The error event replaces whatever is in the channel, with version -1.
PublishError(c) ==
  /\ poller[c] = "polled" /\ loaded[c] = Failed
  /\ value' = [value EXCEPT ![c] = Failed]
  /\ stamp' = [stamp EXCEPT ![c] = @ + 1]
  /\ broken' = broken \cup {c}
  /\ MovePoller(c, "leaving")
  /\ UNCHANGED <<row, shutdown, registry, loaded, clientVars>>

\* Mutant of Remove: the entry stays, so the channel is never closed.
RemoveNothing(c) ==
  /\ poller[c] = "leaving"
  /\ MovePoller(c, "gone")
  /\ UNCHANGED <<row, shutdown, registry, value, stamp, loaded, broken, clientVars>>

\* Under the lock: remove the entry if it is still this channel's.
Remove(c) ==
  /\ poller[c] = "leaving"
  /\ registry' = IF registry = c THEN 0 ELSE registry
  /\ MovePoller(c, "gone")
  /\ UNCHANGED <<row, shutdown, value, stamp, loaded, broken, clientVars>>

-----------------------------------------------------------------------------
PollerStep(c) == StopPolling(c) \/ Poll(c) \/ Publish(c) \/ PublishError(c) \/ Remove(c)
StreamStep(k) == Deliver(k) \/ EndOfStream(k)

StreamNext ==
  \/ Advance \/ Shutdown
  \/ \E k \in Clients : ReadRow(k) \/ JoinChannel(k) \/ Create(k) \/ StreamStep(k) \/ Disconnect(k)
  \/ \E c \in Channels : PollerStep(c)

StreamSpec == StreamInit /\ [][StreamNext]_streamVars

\* Pollers sleep for poll_interval and run; a server writes what a stream yields.
\* select! takes a ready branch at random, so a poller that could leave again and
\* again leaves. The job, the clients and the shutdown owe nothing.
FairStreamSpec ==
  /\ StreamSpec
  /\ \A c \in Channels : WF_streamVars(PollerStep(c)) /\ SF_streamVars(StopPolling(c))
  /\ \A k \in Clients : WF_streamVars(StreamStep(k))

-----------------------------------------------------------------------------
\* Type correctness; at most one channel is registered and polled for its subscribers.
StreamTypeOK ==
  /\ row \in Versions /\ shutdown \in BOOLEAN /\ registry \in {0} \cup Channels
  /\ value \in [Channels -> Versions \cup {Failed}] /\ stamp \in [Channels -> Nat]
  /\ poller \in [Channels -> {"none", "waiting", "polled", "leaving", "gone"}]
  /\ loaded \in [Channels -> Versions \cup {Failed}]
  /\ stream \in [Clients -> {"idle", "read", "first", "open", "ended", "dropped"}]
  /\ first \in [Clients -> Versions] /\ chan \in [Clients -> {0} \cup Channels]
  /\ seen \in [Clients -> Nat] /\ shown \in [Clients -> Versions \cup {Failed}]
  /\ gotError \subseteq Clients /\ late \subseteq Clients /\ broken \subseteq Channels

\* A stream never goes back to an older revision: not behind the row it read before
\* it joined, and not behind what the poller or another subscriber put into the
\* channel, as long as no error event has been stored in that channel.
RevisionsAdvance ==
  [][\A k \in Clients : chan'[k] \notin broken => shown'[k] >= shown[k]]_streamVars

\* A stream the client did not drop ends with the terminal snapshot or an error
\* event, unless the server stops, the client joined when the poller was already
\* leaving, or its channel has failed.
StreamsEndWithOutcome ==
  /\ StreamTypeOK
  /\ \A k \in Clients : stream[k] = "ended" =>
       \/ shown[k] = MaxVersion \/ k \in gotError
       \/ shutdown \/ k \in late \/ chan[k] \in broken

\* Once the job is terminal, or the server is told to stop, every open stream comes to
\* its end, also one that was opened afterwards: the HTTP server's graceful shutdown
\* waits for its streams.
StreamsEnd ==
  \A k \in Clients :
    ((row = MaxVersion \/ shutdown) /\ stream[k] \in {"first", "open"})
      ~> (stream[k] \in {"ended", "dropped"})
=============================================================================
