---------------------------------- MODULE Hub ----------------------------------
(***************************************************************************)
(* The WebSocket side: the hub goroutine that owns the set of clients and  *)
(* broadcasts to them (websocket/hub.go), the two pumps of each connection *)
(* (websocket/client.go), the goroutine that sends a new client the state  *)
(* of the game, and the game engine that publishes events.                 *)
(*                                                                         *)
(* A step is one operation on a channel or on the hub's map.  A client's   *)
(* channel has three kinds of senders: the hub, the client's own reader,   *)
(* and the goroutine of its game_sync.  Only the hub closes it.            *)
(***************************************************************************)
EXTENDS Integers, Sequences, FiniteSets

CONSTANTS
    Conns,          \* connections that will be upgraded
    Quitters,       \* bound: those whose peer may go away
    Talkers,        \* bound: those that have senders beside the hub
    SendSize,       \* capacity of Client.send (256)
    QueueSize,      \* capacity of Hub.broadcast (256)
    MaxEvents,      \* bound: broadcast events, numbered as they are queued
    MaxRequests     \* bound: messages the players send

ASSUME HubAssumption == /\ Talkers \union Quitters \subseteq Conns /\ SendSize \in Nat \ {0} /\ QueueSize \in Nat \ {0}
                        /\ MaxEvents \in Nat /\ MaxRequests \in Nat

VARIABLES
    up,         \* FALSE once a goroutine has panicked: the process is gone
    clients,    \* Hub.clients
    queue,      \* Hub.broadcast
    hub,        \* what Hub.Run is doing
    send,       \* Client.send: what is in it and whether it is closed
    open,       \* the socket is not closed
    reader, writer, syncer,     \* goroutines of a connection
    out,        \* events and syncs written to the socket, in order
    joined,     \* how many events the hub had broadcast when a client joined
    events, requests            \* bounds used up

conn == <<open, reader, writer, syncer>>
vars == <<up, clients, queue, hub, send, conn, out, joined, events, requests>>

-----------------------------------------------------------------------------
(* Types *)

Events   == 1..MaxEvents
Messages == [kind : {"event", "reply", "sync"}, n : 0..MaxEvents]
Event(n) == [kind |-> "event", n |-> n]
Reply    == [kind |-> "reply", n |-> 0]     \* an answer to the player's own message
Sync(n)  == [kind |-> "sync", n |-> n]      \* game_sync, read after n events were queued

\* Select in Hub.Run, or in the middle of broadcasting `event`.
HubType  == [pc : {"select", "cast", "drop"}, event : 0..MaxEvents,
             todo : SUBSET Conns, slow : SUBSET Conns]
Select   == [pc |-> "select", event |-> 0, todo |-> {}, slow |-> {}]
SendType == [buf : Seq(Messages), closed : BOOLEAN]

SyncerType == [pc : {"off", "read", "send", "gone"}, n : 0..MaxEvents]
ReaderPc == {"upgraded", "reading", "reply", "cast", "leaving", "gone"}

(* TypeOK: types, and no channel ever holds more than its capacity.        *)
TypeOK ==
    /\ up \in BOOLEAN /\ clients \subseteq Conns
    /\ queue \in Seq(Events) /\ Len(queue) <= QueueSize
    /\ hub \in HubType
    /\ send \in [Conns -> SendType] /\ \A c \in Conns : Len(send[c].buf) <= SendSize
    /\ open \in [Conns -> BOOLEAN]
    /\ reader \in [Conns -> ReaderPc] /\ writer \in [Conns -> {"off", "on", "gone"}]
    /\ syncer \in [Conns -> SyncerType]
    /\ out \in [Conns -> Seq(Messages)] /\ joined \in [Conns -> 0..MaxEvents]
    /\ events \in 0..MaxEvents /\ requests \in 0..MaxRequests

-----------------------------------------------------------------------------
Init ==
    /\ up = TRUE /\ clients = {} /\ queue = <<>> /\ hub = Select
    /\ send = [c \in Conns |-> [buf |-> <<>>, closed |-> FALSE]]
    /\ open = [c \in Conns |-> TRUE]
    /\ reader = [c \in Conns |-> "upgraded"] /\ writer = [c \in Conns |-> "off"]
    /\ syncer = [c \in Conns |-> [pc |-> "off", n |-> 0]]
    /\ out = [c \in Conns |-> <<>>] /\ joined = [c \in Conns |-> 0]
    /\ events = 0 /\ requests = 0

Panic == up' = FALSE /\ UNCHANGED send

\* Mutant: one message more than the channel holds.
RoomAndOne(c) == Len(send[c].buf) <= SendSize

Room(c) == Len(send[c].buf) < SendSize
Put(c, m) == send' = [send EXCEPT ![c].buf = Append(@, m)]

\* select { case ch <- m: default: } outside the hub: the message is lost
\* when the channel is full, and a closed channel panics.
TrySend(c, m) ==
    \/ send[c].closed /\ Panic
    \/ ~send[c].closed /\ Room(c) /\ Put(c, m) /\ UNCHANGED up
    \/ ~send[c].closed /\ ~Room(c) /\ UNCHANGED <<send, up>>

\* close(client.send), which panics when it is closed already.
CloseAll(C) ==
    IF \E c \in C : send[c].closed THEN Panic
    ELSE send' = [c \in Conns |-> IF c \in C THEN [send[c] EXCEPT !.closed = TRUE] ELSE send[c]]
         /\ UNCHANGED up

Queue(e) == Len(queue) < QueueSize /\ events < MaxEvents /\ events' = events + 1
            /\ queue' = Append(queue, e)

Read(c, from, to) == reader[c] = from /\ reader' = [reader EXCEPT ![c] = to]

-----------------------------------------------------------------------------
(* Hub.Run *)

\* How many events the hub has taken from its queue.
Taken == events - Len(queue)

\* HandleConnection hands the client over.  Its game_sync goroutine and its
\* pumps start; how late they start is how late they take their first step.
Register(c) ==
    /\ hub.pc = "select" /\ Read(c, "upgraded", "reading")
    /\ clients' = clients \union {c}
    /\ syncer' = [syncer EXCEPT ![c].pc = "read"] /\ joined' = [joined EXCEPT ![c] = Taken]
    /\ writer' = [writer EXCEPT ![c] = "on"]
    /\ UNCHANGED <<up, queue, hub, send, open, out, events, requests>>

\* Mutant: the channel is closed although the client was dropped before.
UnregisterAlways(c) ==
    /\ hub.pc = "select" /\ Read(c, "leaving", "gone")
    /\ clients' = clients \ {c} /\ CloseAll({c})
    /\ open' = [open EXCEPT ![c] = FALSE]
    /\ UNCHANGED <<queue, hub, writer, syncer, out, joined, events, requests>>

\* The reader is done; it closes the socket when the hub has heard of it.
Unregister(c) ==
    /\ hub.pc = "select" /\ Read(c, "leaving", "gone")
    /\ clients' = clients \ {c} /\ CloseAll({c} \intersect clients)
    /\ open' = [open EXCEPT ![c] = FALSE]
    /\ UNCHANGED <<queue, hub, writer, syncer, out, joined, events, requests>>

Take ==
    /\ hub.pc = "select" /\ queue # <<>>
    /\ hub' = [pc |-> "cast", event |-> Head(queue), todo |-> clients, slow |-> {}]
    /\ queue' = Tail(queue)
    /\ UNCHANGED <<up, clients, send, conn, out, joined, events, requests>>

\* One client of the loop: what is left to do, and who is found too slow.
Loop(c, slow) ==
    /\ hub.pc = "cast" /\ c \in hub.todo
    /\ hub' = [hub EXCEPT !.todo = @ \ {c}, !.slow = @ \union slow,
                          !.pc = IF hub.todo = {c} THEN "drop" ELSE "cast"]
    /\ UNCHANGED <<clients, queue, conn, out, joined, events, requests>>

\* Mutant: a client whose channel is full misses the event and stays.
CastSkips(c) ==
    \/ Loop(c, {}) /\ Room(c) /\ Put(c, Event(hub.event)) /\ UNCHANGED up
    \/ Loop(c, {}) /\ ~Room(c) /\ UNCHANGED <<up, send>>

Cast(c) ==
    \/ Loop(c, {}) /\ Room(c) /\ Put(c, Event(hub.event)) /\ UNCHANGED up
    \/ Loop(c, {c}) /\ ~Room(c) /\ UNCHANGED <<up, send>>

\* Mutant: a slow client is forgotten, its channel left open.
DropSilently ==
    /\ hub.pc = "drop" \/ (hub.pc = "cast" /\ hub.todo = {})
    /\ hub' = Select /\ clients' = clients \ hub.slow
    /\ UNCHANGED <<up, send, queue, conn, out, joined, events, requests>>

\* The slow clients are removed; with no client there is nothing to do.
Drop ==
    /\ hub.pc = "drop" \/ (hub.pc = "cast" /\ hub.todo = {})
    /\ hub' = Select
    /\ clients' = clients \ hub.slow /\ CloseAll(hub.slow \intersect clients)
    /\ UNCHANGED <<queue, conn, out, joined, events, requests>>

-----------------------------------------------------------------------------
(* Goroutines of a connection *)

\* Mutant: the state is read once, at start-up.
SyncReadOnce(c) ==
    /\ c \in Talkers /\ syncer[c].pc = "read"
    /\ syncer' = [syncer EXCEPT ![c] = [pc |-> "send", n |-> 0]]
    /\ UNCHANGED <<up, clients, queue, hub, send, open, reader, writer, out, joined, events, requests>>

\* sendGameSync reads the state of the game; it ends here when there is no
\* current round, which is the same as never sending.
SyncRead(c) ==
    /\ c \in Talkers /\ syncer[c].pc = "read"
    /\ syncer' = [syncer EXCEPT ![c] = [pc |-> "send", n |-> events]]
    /\ UNCHANGED <<up, clients, queue, hub, send, open, reader, writer, out, joined, events, requests>>

SyncSend(c) ==
    /\ syncer[c].pc = "send" /\ TrySend(c, Sync(syncer[c].n))
    /\ syncer' = [syncer EXCEPT ![c].pc = "gone"]
    /\ UNCHANGED <<clients, queue, hub, open, reader, writer, out, joined, events, requests>>

\* ReadPump: a message of the player is handled, answered, and, when a bet or
\* a cash-out succeeded, broadcast.
ReadMessage(c) ==
    /\ c \in Talkers /\ open[c] /\ requests < MaxRequests /\ requests' = requests + 1
    /\ Read(c, "reading", "reply")
    /\ UNCHANGED <<up, clients, queue, hub, send, open, writer, syncer, out, joined, events>>

Answer(c) ==
    /\ TrySend(c, Reply)
    /\ Read(c, "reply", "reading") \/ (events < MaxEvents /\ Read(c, "reply", "cast"))
    /\ UNCHANGED <<clients, queue, hub, open, writer, syncer, out, joined, events, requests>>

\* Broadcast blocks while the hub's queue is full.  Beyond MaxEvents events
\* (a bound) the model no longer broadcasts and the reader goes on.
Announce(c) ==
    /\ Read(c, "cast", "reading") /\ (Queue(events + 1) \/ (events = MaxEvents /\ UNCHANGED <<queue, events>>))
    /\ UNCHANGED <<up, clients, hub, send, open, writer, syncer, out, joined, requests>>

ReadFails(c) ==
    /\ ~open[c] /\ Read(c, "reading", "leaving")
    /\ UNCHANGED <<up, clients, queue, hub, send, open, writer, syncer, out, joined, events, requests>>

\* The player's side goes away, or a read or a write runs into its deadline.
PeerCloses(c) ==
    /\ c \in Quitters /\ open[c] /\ open' = [open EXCEPT ![c] = FALSE]
    /\ UNCHANGED <<up, clients, queue, hub, send, reader, writer, syncer, out, joined, events, requests>>

\* WritePump: one message; the rest of the buffer follows in the same frame.
Write(c) ==
    /\ writer[c] = "on" /\ open[c] /\ send[c].buf # <<>>
    /\ out' = IF Head(send[c].buf) = Reply THEN out
              ELSE [out EXCEPT ![c] = Append(@, Head(send[c].buf))]
    /\ send' = [send EXCEPT ![c].buf = Tail(@)]
    /\ UNCHANGED <<up, clients, queue, hub, conn, joined, events, requests>>

WriterGone(c) == /\ writer[c] = "on" /\ writer' = [writer EXCEPT ![c] = "gone"]
                 /\ open' = [open EXCEPT ![c] = FALSE]
                 /\ UNCHANGED <<up, clients, queue, hub, send, reader, syncer, out, joined, events, requests>>

\* Mutant: WritePump does not look whether the channel is closed.
ChannelEndsUnseen(c) == send[c].buf = <<>> /\ send[c].closed /\ ~open[c] /\ WriterGone(c)

\* The channel is closed and drained.
ChannelEnds(c) == send[c].buf = <<>> /\ send[c].closed /\ WriterGone(c)

\* A write or a ping fails.
WriteFails(c) == ~open[c] /\ WriterGone(c)

-----------------------------------------------------------------------------
\* The engine publishes a phase change, a tick or a crash.
Publish == /\ Queue(events + 1)
           /\ UNCHANGED <<up, clients, hub, send, conn, out, joined, requests>>

HubStep   == \/ Take \/ Drop
             \/ \E c \in Conns : Register(c) \/ Unregister(c) \/ Cast(c)
Reader(c) == Answer(c) \/ Announce(c) \/ ReadFails(c)
Syncer(c) == SyncRead(c) \/ SyncSend(c)
Writer(c) == Write(c) \/ ChannelEnds(c) \/ WriteFails(c)

Next == /\ up
        /\ \/ HubStep \/ Publish
           \/ \E c \in Conns : Reader(c) \/ Syncer(c) \/ Writer(c) \/ ReadMessage(c) \/ PeerCloses(c)

Spec == Init /\ [][Next]_vars

\* Every goroutine is scheduled.  Events are bounded, so the hub's select is
\* free for each of its channels in the end; in Go it picks one at random.
\* Players need not send, peers need not close, the engine need not publish.
Fairness == /\ WF_vars(up /\ HubStep)
            /\ \A c \in Conns : WF_vars(up /\ Reader(c)) /\ WF_vars(up /\ Writer(c))

FairSpec == Spec /\ Fairness

-----------------------------------------------------------------------------
(* Properties *)

\* What was written to, or waits for, a client's socket, and the events in it.
Stream(c)   == out[c] \o send[c].buf
EventsAt(c) == {i \in DOMAIN Stream(c) : Stream(c)[i].kind = "event"}

\* The last event the hub has offered to c.
Offered(c) == IF hub.pc = "cast" /\ c \in hub.todo \union hub.slow THEN hub.event - 1
              ELSE IF hub.pc = "drop" /\ c \in hub.slow THEN hub.event - 1 ELSE Taken

(* NoEventSkipped: a client that is still registered has got every event   *)
(* broadcast since it joined, in order and once, however slow it reads and *)
(* whatever replies compete for its channel; one that was dropped got them *)
(* up to some point.                                                       *)
NoEventSkipped ==
    \A c \in Conns :
        /\ \A i, j \in EventsAt(c) : i < j => Stream(c)[i].n < Stream(c)[j].n
        /\ \E last \in joined[c]..Taken :
               /\ {Stream(c)[i].n : i \in EventsAt(c)} = (joined[c] + 1)..last
               /\ c \in clients => last = Offered(c)

(* SyncCoversTheGap: the state a new client is synchronised with is not    *)
(* older than the first event it gets as a broadcast, so that it misses no *)
(* change of the game.                                                     *)
SyncCoversTheGap ==
    \A c \in Conns : \A i \in DOMAIN out[c] :
        out[c][i].kind = "sync" => out[c][i].n >= joined[c]

(* HubClosesOnce: the channels of the registered clients, and of those an  *)
(* event is still to be sent to, are open, so the hub itself neither sends *)
(* on a closed channel nor closes one twice: only the other senders of a   *)
(* channel can panic.                                                      *)
HubClosesOnce ==
    [][/\ \A c \in clients \union hub.todo : ~send[c].closed
       /\ (up /\ ~up') => \E c \in Conns : \/ reader[c] = "reply" /\ reader'[c] # "reply"
                                           \/ syncer'[c] # syncer[c]]_vars

(* ConnectionEnds: when a socket is closed from either side, or its client *)
(* was dropped for being slow, both pumps end and the hub forgets the      *)
(* client, unless the process has panicked.                                *)
ConnectionEnds ==
    \A c \in Conns : (~open[c] \/ send[c].closed) ~>
        (~up \/ (reader[c] = "gone" /\ writer[c] = "gone" /\ c \notin clients))

Written(c) == Cardinality({i \in DOMAIN out[c] : out[c][i].kind = "event"})

(* EveryEventArrives: whatever is queued, a registered client has it       *)
(* written to its socket in the end, or loses the socket.                  *)
EveryEventArrives ==
    \A c \in Conns : (c \in clients) ~> (~up \/ ~open[c] \/ joined[c] + Written(c) = events)

(* What the code does not guarantee *)

(* NobodyPanics: removing a slow client is safe for the goroutines that    *)
(* still send to it.                                                       *)
NobodyPanics == up
=============================================================================
