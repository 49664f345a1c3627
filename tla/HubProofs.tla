------------------------------ MODULE HubProofs ------------------------------
(***************************************************************************)
(* The channels of the hub never overflow, the hub never touches a closed  *)
(* channel, and no client misses an event, for any number of connections,  *)
(* any capacity of the channels and any number of events.                  *)
(***************************************************************************)
EXTENDS Hub, TLAPS

\* Types, and what is queued has been counted.
Types == TypeOK /\ Len(queue) <= events

\* A channel is open until the hub drops its client: from the upgrade on, and
\* as long as the client is registered.  Clients come and go in the hub's
\* select only, so an event is sent to registered clients.
OpenInv ==
    /\ hub.todo \subseteq clients
    /\ hub.pc # "cast" => hub.todo = {}
    /\ \A c \in Conns : reader[c] = "upgraded" => c \notin clients /\ ~send[c].closed
    /\ \A c \in clients : ~send[c].closed

-----------------------------------------------------------------------------
(* The senders *)

\* Appending to a channel that has room keeps it a channel.
LEMMA PutTyped ==
  ASSUME TypeOK, NEW c \in Conns, NEW m \in Messages, Room(c), Put(c, m)
  PROVE  /\ send' \in [Conns -> SendType]
         /\ \A d \in Conns : Len(send'[d].buf) <= SendSize /\ send'[d].closed = send[d].closed
<1>1. send[c].buf \in Seq(Messages) /\ Len(send[c].buf) < SendSize
  BY DEF TypeOK, SendType, Room
<1>2. Append(send[c].buf, m) \in Seq(Messages) /\ Len(Append(send[c].buf, m)) = Len(send[c].buf) + 1
  BY <1>1
<1>3. Len(send[c].buf) \in Nat /\ SendSize \in Nat
  BY <1>1, HubAssumption
<1> DEFINE s == [send[c] EXCEPT !.buf = Append(send[c].buf, m)]
<1>4. s \in SendType /\ s.buf = Append(send[c].buf, m) /\ s.closed = send[c].closed
  BY <1>2 DEF TypeOK, SendType
<1>6. Len(s.buf) <= SendSize
  BY <1>1, <1>2, <1>3, <1>4
<1> HIDE DEF s
<1>5. send' = [send EXCEPT ![c] = s]
  BY DEF Put, s
<1> QED BY <1>4, <1>5, <1>6 DEF TypeOK

\* A sender outside the hub opens and closes no channel.
LEMMA TrySendTyped ==
  ASSUME TypeOK, NEW c \in Conns, NEW m \in Messages, TrySend(c, m)
  PROVE  /\ up' \in BOOLEAN /\ send' \in [Conns -> SendType]
         /\ \A d \in Conns : Len(send'[d].buf) <= SendSize /\ send'[d].closed = send[d].closed
<1>1. CASE Room(c) /\ Put(c, m) /\ UNCHANGED up
  BY <1>1, PutTyped DEF TypeOK
<1>2. CASE UNCHANGED send /\ (up' = FALSE \/ UNCHANGED up)
  BY <1>2 DEF TypeOK
<1> QED BY <1>1, <1>2 DEF TrySend, Panic

\* The hub closes channels, or panics.
LEMMA CloseAllTyped ==
  ASSUME TypeOK, NEW C \in SUBSET Conns, CloseAll(C)
  PROVE  /\ up' \in BOOLEAN /\ send' \in [Conns -> SendType]
         /\ \A d \in Conns : Len(send'[d].buf) <= SendSize
         /\ \A d \in Conns \ C : send'[d].closed = send[d].closed
<1>1. CASE Panic
  BY <1>1 DEF TypeOK, Panic
<1>2. CASE /\ send' = [c \in Conns |-> IF c \in C THEN [send[c] EXCEPT !.closed = TRUE] ELSE send[c]]
           /\ UNCHANGED up
  <2>1. \A d \in Conns : send[d] \in SendType /\ Len(send[d].buf) <= SendSize
    BY DEF TypeOK
  <2>2. \A d \in Conns : [send[d] EXCEPT !.closed = TRUE] \in SendType
                         /\ [send[d] EXCEPT !.closed = TRUE].buf = send[d].buf
    BY <2>1 DEF SendType
  <2> QED BY <1>2, <2>1, <2>2 DEF TypeOK
<1> QED BY <1>1, <1>2 DEF CloseAll

\* What is broadcast is numbered within the bound.
LEMMA QueueTyped ==
  ASSUME Types, Queue(events + 1)
  PROVE  /\ queue' \in Seq(Events) /\ Len(queue') <= QueueSize
         /\ events' \in 0..MaxEvents /\ Len(queue') <= events'
<1>1. queue \in Seq(Events) /\ events + 1 \in Events
  BY HubAssumption DEF Types, TypeOK, Queue, Events
<1>2. Append(queue, events + 1) \in Seq(Events) /\ Len(Append(queue, events + 1)) = Len(queue) + 1
  BY <1>1
<1>3. Len(queue) \in Nat
  BY <1>1
<1> QED BY <1>2, <1>3, HubAssumption DEF Types, TypeOK, Queue

-----------------------------------------------------------------------------
\* Whatever is sent to a client is a message.
LEMMA MessageKinds == \A n \in 0..MaxEvents : Event(n) \in Messages /\ Sync(n) \in Messages
  BY DEF Event, Sync, Messages

\* So is an answer.
LEMMA ReplyKind == Reply \in Messages
  BY HubAssumption DEF Reply, Messages

\* The initial state has the types.
LEMMA InitTypes == Init => Types /\ OpenInv
<1> SUFFICES ASSUME Init PROVE Types /\ OpenInv
  OBVIOUS
<1> USE HubAssumption
<1>1. Len(<<>>) = 0 /\ <<>> \in Seq(Messages) /\ <<>> \in Seq(Events)
  OBVIOUS
<1>2. hub \in HubType
  BY DEF Init, Select, HubType
<1>3. send \in [Conns -> SendType] /\ \A c \in Conns : Len(send[c].buf) <= SendSize
  BY <1>1 DEF Init, SendType
<1>4. syncer \in [Conns -> SyncerType]
  BY DEF Init, SyncerType
<1>5. Types
  BY <1>1, <1>2, <1>3, <1>4 DEF Types, TypeOK, Init, ReaderPc
<1>6. OpenInv
  BY DEF Init, OpenInv, Select
<1> QED BY <1>5, <1>6

\* One case for each action.
LEMMA StepTypes == Types /\ [Next]_vars => Types'
<1> SUFFICES ASSUME Types, [Next]_vars PROVE Types'
  OBVIOUS
<1> USE HubAssumption
<1>0. CASE UNCHANGED vars
  BY <1>0 DEF vars, conn, Types, TypeOK
<1>1. ASSUME NEW c \in Conns, Register(c) PROVE Types'
  <2>1. Len(queue) \in Nat /\ Taken \in 0..MaxEvents
    BY DEF Types, TypeOK, Taken
  <2>2. [syncer EXCEPT ![c].pc = "read"] \in [Conns -> SyncerType]
    BY DEF Types, TypeOK, SyncerType
  <2> QED BY <1>1, <2>1, <2>2 DEF Register, Read, Types, TypeOK, ReaderPc
<1>2. ASSUME NEW c \in Conns, Unregister(c) PROVE Types'
  <2>1. /\ up' \in BOOLEAN /\ send' \in [Conns -> SendType]
        /\ \A d \in Conns : Len(send'[d].buf) <= SendSize
    BY <1>2, CloseAllTyped DEF Unregister, Types
  <2> QED BY <1>2, <2>1 DEF Unregister, Read, Types, TypeOK, ReaderPc
<1>3. ASSUME Take PROVE Types'
  <2>1. queue \in Seq(Events) /\ queue # <<>>
    BY <1>3 DEF Take, Types, TypeOK
  <2>2. Head(queue) \in Events /\ Tail(queue) \in Seq(Events) /\ Len(Tail(queue)) = Len(queue) - 1
    BY <2>1
  <2>3. Len(queue) \in Nat
    BY <2>1
  <2>4. hub' \in HubType
    BY <1>3, <2>2 DEF Take, Types, TypeOK, HubType, Events
  <2> QED BY <1>3, <2>2, <2>3, <2>4 DEF Take, conn, Types, TypeOK
<1>4. ASSUME NEW c \in Conns, Cast(c) PROVE Types'
  <2>1. ASSUME NEW slow \in SUBSET Conns, Loop(c, slow) PROVE hub' \in HubType
    <3>1. hub.todo \ {c} \in SUBSET Conns /\ hub.slow \union slow \in SUBSET Conns
      BY DEF Types, TypeOK, HubType
    <3> QED BY <2>1, <3>1 DEF Loop, Types, TypeOK, HubType
  <2>2. hub' \in HubType
    BY <1>4, <2>1 DEF Cast
  <2>3. Event(hub.event) \in Messages
    BY MessageKinds DEF Types, TypeOK, HubType
  <2>4. /\ up' \in BOOLEAN /\ send' \in [Conns -> SendType]
        /\ \A d \in Conns : Len(send'[d].buf) <= SendSize
    BY <1>4, <2>3, PutTyped DEF Cast, Types, TypeOK
  <2> QED BY <1>4, <2>2, <2>4 DEF Cast, Loop, conn, Types, TypeOK
<1>5. ASSUME Drop PROVE Types'
  <2>1. hub' \in HubType
    BY <1>5 DEF Drop, Select, HubType
  <2>2. /\ up' \in BOOLEAN /\ send' \in [Conns -> SendType]
        /\ \A d \in Conns : Len(send'[d].buf) <= SendSize
    BY <1>5, CloseAllTyped DEF Drop, Types, TypeOK, HubType
  <2> QED BY <1>5, <2>1, <2>2 DEF Drop, conn, Types, TypeOK
<1>6. ASSUME NEW c \in Conns, SyncRead(c) PROVE Types'
  <2>1. syncer' \in [Conns -> SyncerType]
    BY <1>6 DEF SyncRead, Types, TypeOK, SyncerType
  <2> QED BY <1>6, <2>1 DEF SyncRead, Types, TypeOK
<1>7. ASSUME NEW c \in Conns, SyncSend(c) PROVE Types'
  <2>1. Sync(syncer[c].n) \in Messages
    BY MessageKinds DEF Types, TypeOK, SyncerType
  <2>2. /\ up' \in BOOLEAN /\ send' \in [Conns -> SendType]
        /\ \A d \in Conns : Len(send'[d].buf) <= SendSize
    BY <1>7, <2>1, TrySendTyped DEF SyncSend, Types
  <2>3. syncer' \in [Conns -> SyncerType]
    BY <1>7 DEF SyncSend, Types, TypeOK, SyncerType
  <2> QED BY <1>7, <2>2, <2>3 DEF SyncSend, Types, TypeOK
<1>8. ASSUME NEW c \in Conns, ReadMessage(c) PROVE Types'
  BY <1>8 DEF ReadMessage, Read, Types, TypeOK, ReaderPc
<1>9. ASSUME NEW c \in Conns, Answer(c) PROVE Types'
  <2>1. /\ up' \in BOOLEAN /\ send' \in [Conns -> SendType]
        /\ \A d \in Conns : Len(send'[d].buf) <= SendSize
    BY <1>9, ReplyKind, TrySendTyped DEF Answer, Types
  <2> QED BY <1>9, <2>1 DEF Answer, Read, Types, TypeOK, ReaderPc
<1>10. ASSUME NEW c \in Conns, Announce(c) PROVE Types'
  <2>1. /\ queue' \in Seq(Events) /\ Len(queue') <= QueueSize
        /\ events' \in 0..MaxEvents /\ Len(queue') <= events'
    BY <1>10, QueueTyped DEF Announce, Types, TypeOK
  <2> QED BY <1>10, <2>1 DEF Announce, Read, Types, TypeOK, ReaderPc
<1>11. ASSUME NEW c \in Conns, ReadFails(c) PROVE Types'
  BY <1>11 DEF ReadFails, Read, Types, TypeOK, ReaderPc
<1>12. ASSUME NEW c \in Conns, PeerCloses(c) PROVE Types'
  BY <1>12 DEF PeerCloses, Types, TypeOK
<1>13. ASSUME NEW c \in Conns, Write(c) PROVE Types'
  <2>1. send[c].buf \in Seq(Messages) /\ send[c].buf # <<>> /\ Len(send[c].buf) <= SendSize
    BY <1>13 DEF Write, Types, TypeOK, SendType
  <2>2. /\ Head(send[c].buf) \in Messages /\ Tail(send[c].buf) \in Seq(Messages)
        /\ Len(Tail(send[c].buf)) <= SendSize
    BY <2>1
  <2>3. send' \in [Conns -> SendType] /\ \A d \in Conns : Len(send'[d].buf) <= SendSize
    BY <1>13, <2>2 DEF Write, Types, TypeOK, SendType
  <2>4. Append(out[c], Head(send[c].buf)) \in Seq(Messages)
    BY <2>2 DEF Types, TypeOK
  <2>5. out' \in [Conns -> Seq(Messages)]
    BY <1>13, <2>4 DEF Write, Types, TypeOK
  <2> QED BY <1>13, <2>3, <2>5 DEF Write, conn, Types, TypeOK
<1>14. ASSUME NEW c \in Conns, WriterGone(c) PROVE Types'
  BY <1>14 DEF WriterGone, Types, TypeOK
<1>15. ASSUME Publish PROVE Types'
  <2>1. /\ queue' \in Seq(Events) /\ Len(queue') <= QueueSize
        /\ events' \in 0..MaxEvents /\ Len(queue') <= events'
    BY <1>15, QueueTyped DEF Publish
  <2> QED BY <1>15, <2>1 DEF Publish, conn, Types, TypeOK
<1> QED BY <1>0, <1>1, <1>2, <1>3, <1>4, <1>5, <1>6, <1>7, <1>8, <1>9, <1>10, <1>11, <1>12, <1>13, <1>14, <1>15
        DEF Next, HubStep, Reader, Syncer, Writer, ChannelEnds, WriteFails

\* HubTypes: at any size, every variable keeps its type, no channel holds
\* more than its capacity, and the hub's queue no more than its own.
THEOREM HubTypes == Spec => []TypeOK
<1>1. Init => Types
  BY InitTypes
<1>2. Types => TypeOK
  BY DEF Types
<1> QED BY <1>1, <1>2, StepTypes, PTL DEF Spec

-----------------------------------------------------------------------------
(* Channels and clients *)

IInv == Types /\ OpenInv

\* Taking the next client of the loop keeps what is left among the clients.
LEMMA LoopKeepsOpen ==
  ASSUME IInv, NEW c \in Conns, NEW slow \in SUBSET Conns, Loop(c, slow),
         \A d \in Conns : send'[d].closed = send[d].closed
  PROVE  OpenInv'
<1>1. hub'.todo = hub.todo \ {c} /\ (hub'.pc # "cast" => hub.todo = {c})
  BY DEF Loop, IInv, Types, TypeOK, HubType
<1> QED BY <1>1 DEF Loop, conn, IInv, OpenInv, Types, TypeOK

\* No step leaves a registered client with a closed channel.
LEMMA StepOpen == IInv /\ [Next]_vars => OpenInv'
<1> SUFFICES ASSUME IInv, [Next]_vars PROVE OpenInv'
  OBVIOUS
<1> USE HubAssumption
<1>0. CASE UNCHANGED vars
  BY <1>0 DEF vars, conn, IInv, OpenInv
<1>1. ASSUME NEW c \in Conns, Register(c) PROVE OpenInv'
  <2>1. \A d \in Conns : reader'[d] = "upgraded" <=> reader[d] = "upgraded" /\ d # c
    BY <1>1 DEF Register, Read, IInv, Types, TypeOK
  <2> QED BY <1>1, <2>1 DEF Register, Read, IInv, OpenInv
<1>2. ASSUME NEW c \in Conns, Unregister(c) PROVE OpenInv'
  <2>1. \A d \in Conns : reader'[d] = "upgraded" => reader[d] = "upgraded"
    BY <1>2 DEF Unregister, Read, IInv, Types, TypeOK
  <2>2. \A d \in Conns \ ({c} \intersect clients) : send'[d].closed = send[d].closed
    BY <1>2, CloseAllTyped DEF Unregister, IInv, Types
  <2> QED BY <1>2, <2>1, <2>2 DEF Unregister, IInv, OpenInv, Types, TypeOK
<1>3. ASSUME Take PROVE OpenInv'
  BY <1>3 DEF Take, conn, IInv, OpenInv
<1>4. ASSUME NEW c \in Conns, Cast(c) PROVE OpenInv'
  <2>1. Event(hub.event) \in Messages
    BY MessageKinds DEF IInv, Types, TypeOK, HubType
  <2>2. \A d \in Conns : send'[d].closed = send[d].closed
    BY <1>4, <2>1, PutTyped DEF Cast, IInv, Types
  <2> QED BY <1>4, <2>2, LoopKeepsOpen DEF Cast
<1>5. ASSUME Drop PROVE OpenInv'
  <2>1. \A d \in Conns \ (hub.slow \intersect clients) : send'[d].closed = send[d].closed
    BY <1>5, CloseAllTyped DEF Drop, IInv, Types, TypeOK, HubType
  <2>2. hub'.todo = {} /\ clients' = clients \ hub.slow /\ UNCHANGED reader
    BY <1>5 DEF Drop, Select, conn
  <2> QED BY <2>1, <2>2 DEF IInv, OpenInv, Types, TypeOK
<1>6. ASSUME NEW c \in Conns, SyncRead(c) \/ ReadMessage(c) \/ ReadFails(c) \/ PeerCloses(c) \/ WriterGone(c)
      PROVE  OpenInv'
  <2>1. \A d \in Conns : reader'[d] = "upgraded" => reader[d] = "upgraded"
    BY <1>6 DEF SyncRead, ReadMessage, ReadFails, PeerCloses, WriterGone, Read, IInv, Types, TypeOK
  <2> QED BY <1>6, <2>1 DEF SyncRead, ReadMessage, ReadFails, PeerCloses, WriterGone, IInv, OpenInv
<1>7. ASSUME NEW c \in Conns, SyncSend(c) \/ Answer(c) PROVE OpenInv'
  <2>1. \A d \in Conns : reader'[d] = "upgraded" => reader[d] = "upgraded"
    BY <1>7 DEF SyncSend, Answer, Read, IInv, Types, TypeOK
  <2>2. Sync(syncer[c].n) \in Messages
    BY MessageKinds DEF IInv, Types, TypeOK, SyncerType
  <2>3. \A d \in Conns : send'[d].closed = send[d].closed
    BY <1>7, <2>2, ReplyKind, TrySendTyped DEF SyncSend, Answer, IInv, Types
  <2> QED BY <1>7, <2>1, <2>3 DEF SyncSend, Answer, IInv, OpenInv, Types, TypeOK
<1>8. ASSUME NEW c \in Conns, Announce(c) PROVE OpenInv'
  <2>1. \A d \in Conns : reader'[d] = "upgraded" => reader[d] = "upgraded"
    BY <1>8 DEF Announce, Read, IInv, Types, TypeOK
  <2> QED BY <1>8, <2>1 DEF Announce, IInv, OpenInv
<1>9. ASSUME NEW c \in Conns, Write(c) PROVE OpenInv'
  <2>1. \A d \in Conns : send'[d].closed = send[d].closed
    BY <1>9 DEF Write, IInv, Types, TypeOK, SendType
  <2> QED BY <1>9, <2>1 DEF Write, conn, IInv, OpenInv, Types, TypeOK
<1>10. ASSUME Publish PROVE OpenInv'
  BY <1>10 DEF Publish, conn, IInv, OpenInv
<1> QED BY <1>0, <1>1, <1>2, <1>3, <1>4, <1>5, <1>6, <1>7, <1>8, <1>9, <1>10
        DEF Next, HubStep, Reader, Syncer, Writer, ChannelEnds, WriteFails

\* A process that is up goes down only in a step of another sender than the hub.
LEMMA HubDoesNotPanic ==
  ASSUME IInv, [Next]_vars, up, ~up'
  PROVE  \E c \in Conns : \/ reader[c] = "reply" /\ reader'[c] # "reply"
                          \/ syncer'[c] # syncer[c]
<1>1. ASSUME NEW C \in SUBSET clients, CloseAll(C) PROVE up'
  BY <1>1 DEF CloseAll, IInv, OpenInv
<1>2. ASSUME NEW c \in Conns, Register(c) \/ Unregister(c) \/ Cast(c) PROVE up'
  BY <1>1, <1>2 DEF Register, Unregister, Cast
<1>3. (Take => up') /\ (Drop => up') /\ (Publish => up')
  BY <1>1 DEF Take, Drop, Publish
<1>4. ASSUME NEW c \in Conns,
             \/ SyncRead(c) \/ ReadMessage(c) \/ Announce(c) \/ ReadFails(c)
             \/ PeerCloses(c) \/ Write(c) \/ WriterGone(c)
      PROVE  up'
  BY <1>4 DEF SyncRead, ReadMessage, Announce, ReadFails, PeerCloses, Write, WriterGone
<1>5. PICK c \in Conns : SyncSend(c) \/ Answer(c)
  BY <1>2, <1>3, <1>4 DEF Next, vars, HubStep, Reader, Syncer, Writer, ChannelEnds, WriteFails
<1>6. CASE SyncSend(c)
  <2>1. syncer[c].pc = "send" /\ syncer'[c].pc = "gone"
    BY <1>6 DEF SyncSend, IInv, Types, TypeOK, SyncerType
  <2> QED BY <2>1
<1>7. CASE Answer(c)
  BY <1>7 DEF Answer, Read, IInv, Types, TypeOK
<1> QED BY <1>5, <1>6, <1>7

\* HubIsSafe: at any size, no channel the hub may still send to or close has
\* been closed, and a step of the hub never panics.
THEOREM HubIsSafe == Spec => HubClosesOnce
<1>1. Init => IInv
  BY InitTypes DEF IInv
<1>2. IInv /\ [Next]_vars => IInv'
  BY StepTypes, StepOpen DEF IInv
<1>3. IInv /\ [Next]_vars =>
        [/\ \A c \in clients \union hub.todo : ~send[c].closed
         /\ (up /\ ~up') => \E c \in Conns : \/ reader[c] = "reply" /\ reader'[c] # "reply"
                                             \/ syncer'[c] # syncer[c]]_vars
  BY HubDoesNotPanic DEF IInv, OpenInv
<1> QED BY <1>1, <1>2, <1>3, PTL DEF Spec, HubClosesOnce

-----------------------------------------------------------------------------
(* The state a new client is sent *)

\* What was written to the socket of c or waits to be.
Sent(c) == {send[c].buf[i] : i \in DOMAIN send[c].buf} \union {out[c][i] : i \in DOMAIN out[c]}

\* A client joins once, before its state is read; a state that was read after
\* that is no older than the moment it joined.
SyncInv ==
    \A c \in Conns :
        /\ joined[c] <= events
        /\ reader[c] = "upgraded" => syncer[c].pc = "off"
        /\ syncer[c].pc = "send" => syncer[c].n >= joined[c]
        /\ \A m \in Sent(c) : m.kind = "sync" => m.n >= joined[c] /\ syncer[c].pc = "gone"

\* What is in a sequence after one more message.
LEMMA AppendAdds ==
  ASSUME NEW s \in Seq(Messages), NEW m \in Messages
  PROVE  \A i \in DOMAIN Append(s, m) :
             (i \in DOMAIN s /\ Append(s, m)[i] = s[i]) \/ Append(s, m)[i] = m
OBVIOUS

\* The first message and the others are all there is.
LEMMA HeadAndTail ==
  ASSUME NEW s \in Seq(Messages), s # <<>>
  PROVE  /\ 1 \in DOMAIN s /\ Head(s) = s[1]
         /\ \A i \in DOMAIN Tail(s) : i + 1 \in DOMAIN s /\ Tail(s)[i] = s[i + 1]
OBVIOUS

\* A sender adds its message or nothing.
LEMMA PutAdds ==
  ASSUME TypeOK, NEW c \in Conns, NEW m \in Messages, Put(c, m), UNCHANGED out
  PROVE  /\ \A d \in Conns \ {c} : Sent(d)' = Sent(d)
         /\ Sent(c)' \subseteq Sent(c) \union {m}
<1>1. send \in [Conns -> SendType] /\ send[c].buf \in Seq(Messages)
  BY DEF TypeOK, SendType
<1>2. \A d \in Conns \ {c} : send'[d] = send[d]
  BY <1>1 DEF Put
<1>3. send'[c].buf = Append(send[c].buf, m)
  BY <1>1 DEF Put, SendType
<1>4. \A i \in DOMAIN send'[c].buf :
          (i \in DOMAIN send[c].buf /\ send'[c].buf[i] = send[c].buf[i]) \/ send'[c].buf[i] = m
  BY <1>1, <1>3, AppendAdds
<1> QED BY <1>2, <1>4 DEF Sent

\* The same of the senders that give up when there is no room.
LEMMA TrySendAdds ==
  ASSUME TypeOK, NEW c \in Conns, NEW m \in Messages, TrySend(c, m), UNCHANGED out
  PROVE  /\ \A d \in Conns \ {c} : Sent(d)' = Sent(d)
         /\ Sent(c)' \subseteq Sent(c) \union {m}
<1>1. CASE Put(c, m)
  BY <1>1, PutAdds
<1>2. CASE UNCHANGED send
  BY <1>2 DEF Sent
<1> QED BY <1>1, <1>2 DEF TrySend, Panic

\* Closing channels sends nothing.
LEMMA CloseAllAdds ==
  ASSUME TypeOK, NEW C \in SUBSET Conns, CloseAll(C), UNCHANGED out
  PROVE  \A d \in Conns : Sent(d)' = Sent(d)
<1>1. CASE Panic
  BY <1>1 DEF Panic, Sent
<1>2. CASE send' = [c \in Conns |-> IF c \in C THEN [send[c] EXCEPT !.closed = TRUE] ELSE send[c]]
  <2>1. \A d \in Conns : [send[d] EXCEPT !.closed = TRUE].buf = send[d].buf
    BY DEF TypeOK, SendType
  <2>2. \A d \in Conns : send'[d].buf = send[d].buf
    BY <1>2, <2>1
  <2> QED BY <2>2 DEF Sent
<1> QED BY <1>1, <1>2 DEF CloseAll

\* Steps that read no state and send none.
LEMMA SyncFrame ==
  ASSUME TypeOK, SyncInv, UNCHANGED <<joined, syncer>>, events' \in {events, events + 1},
         \A d \in Conns : reader'[d] = "upgraded" => reader[d] = "upgraded",
         \A d \in Conns : \A m \in Sent(d)' : m \in Sent(d) \/ m.kind # "sync"
  PROVE  SyncInv'
<1>1. \A d \in Conns : joined[d] \in Int /\ events \in Int
  BY DEF TypeOK
<1>2. \A d \in Conns : joined[d] <= events'
  BY <1>1 DEF SyncInv
<1> QED BY <1>2 DEF SyncInv

\* No step sends a client a state from before it joined.
LEMMA StepSync == Types /\ SyncInv /\ [Next]_vars => SyncInv'
<1> SUFFICES ASSUME Types, SyncInv, [Next]_vars PROVE SyncInv'
  OBVIOUS
<1> USE HubAssumption
<1>t. TypeOK BY DEF Types
<1>1. ASSUME NEW c \in Conns, Register(c) PROVE SyncInv'
  <2>1. /\ reader[c] = "upgraded" /\ syncer[c].pc = "off"
        /\ \A d \in Conns : reader'[d] = "upgraded" => reader[d] = "upgraded" /\ d # c
    BY <1>1 DEF Register, Read, SyncInv, Types, TypeOK
  <2>2. \A d \in Conns : /\ syncer'[d].pc = IF d = c THEN "read" ELSE syncer[d].pc
                         /\ syncer'[d].n = syncer[d].n
    BY <1>1 DEF Register, Types, TypeOK, SyncerType
  <2>3. Len(queue) \in Nat /\ events \in Nat /\ Taken <= events
    <3>1. Len(queue) \in Nat /\ events \in Nat
      BY DEF Types, TypeOK
    <3> QED BY <3>1 DEF Taken
  <2>4. \A d \in Conns : joined'[d] = IF d = c THEN Taken ELSE joined[d]
    BY <1>1 DEF Register, Types, TypeOK
  <2>5. \A d \in Conns : Sent(d)' = Sent(d)
    BY <1>1 DEF Register, Sent
  <2>6. events' = events
    BY <1>1 DEF Register
  <2> QED BY <2>1, <2>2, <2>3, <2>4, <2>5, <2>6 DEF SyncInv
<1>2. ASSUME NEW c \in Conns, SyncRead(c) PROVE SyncInv'
  <2>1. \A d \in Conns : \/ d # c /\ syncer'[d] = syncer[d]
                         \/ d = c /\ syncer'[d].pc = "send" /\ syncer'[d].n = events
    BY <1>2 DEF SyncRead, Types, TypeOK
  <2>2. UNCHANGED <<joined, events, reader>> /\ syncer[c].pc = "read"
    BY <1>2 DEF SyncRead
  <2>3. \A d \in Conns : Sent(d)' = Sent(d)
    BY <1>2 DEF SyncRead, Sent
  <2> QED BY <2>1, <2>2, <2>3 DEF SyncInv
<1>3. ASSUME NEW c \in Conns, SyncSend(c) PROVE SyncInv'
  <2> DEFINE m == Sync(syncer[c].n)
  <2>1. \A d \in Conns : /\ syncer'[d].pc = IF d = c THEN "gone" ELSE syncer[d].pc
                         /\ syncer'[d].n = syncer[d].n
    BY <1>3 DEF SyncSend, Types, TypeOK, SyncerType
  <2>2. UNCHANGED <<joined, events, reader, out>> /\ syncer[c].pc = "send" /\ TrySend(c, m)
    BY <1>3 DEF SyncSend
  <2>3. m \in Messages /\ m.n = syncer[c].n
    BY MessageKinds DEF Types, TypeOK, SyncerType, Sync
  <2> HIDE DEF m
  <2>4. /\ \A d \in Conns \ {c} : Sent(d)' = Sent(d)
        /\ Sent(c)' \subseteq Sent(c) \union {m}
    BY <1>t, <2>2, <2>3, TrySendAdds
  <2> QED BY <2>1, <2>2, <2>3, <2>4 DEF SyncInv
<1>4. ASSUME NEW c \in Conns, Unregister(c) PROVE SyncInv'
  <2>1. \A d \in Conns : reader'[d] = "upgraded" => reader[d] = "upgraded"
    BY <1>4 DEF Unregister, Read, Types, TypeOK
  <2>2. UNCHANGED <<joined, syncer, events, out>> /\ CloseAll({c} \intersect clients)
    BY <1>4 DEF Unregister
  <2>3. \A d \in Conns : Sent(d)' = Sent(d)
    BY <1>t, <2>2, CloseAllAdds
  <2> QED BY <1>t, <2>1, <2>2, <2>3, SyncFrame
<1>5. CASE Drop
  <2>1. UNCHANGED <<joined, syncer, events, out, reader>> /\ CloseAll(hub.slow \intersect clients)
    BY <1>5 DEF Drop, conn
  <2>2. hub.slow \intersect clients \in SUBSET Conns
    BY DEF Types, TypeOK
  <2>3. \A d \in Conns : Sent(d)' = Sent(d)
    BY <1>t, <2>1, <2>2, CloseAllAdds
  <2> QED BY <1>t, <2>1, <2>3, SyncFrame
<1>6. ASSUME NEW c \in Conns, Cast(c) PROVE SyncInv'
  <2>1. UNCHANGED <<joined, syncer, events, out, reader>> /\ (Put(c, Event(hub.event)) \/ UNCHANGED send)
    BY <1>6 DEF Cast, Loop, conn
  <2>2. Event(hub.event) \in Messages /\ Event(hub.event).kind = "event"
    BY MessageKinds DEF Types, TypeOK, HubType, Event
  <2>3. \A d \in Conns : \A m \in Sent(d)' : m \in Sent(d) \/ m.kind # "sync"
    <3>1. CASE Put(c, Event(hub.event))
      BY <1>t, <2>1, <2>2, <3>1, PutAdds
    <3>2. CASE UNCHANGED send
      BY <2>1, <3>2 DEF Sent
    <3> QED BY <2>1, <3>1, <3>2
  <2> QED BY <1>t, <2>1, <2>3, SyncFrame
<1>7. ASSUME NEW c \in Conns, Answer(c) PROVE SyncInv'
  <2>1. \A d \in Conns : reader'[d] = "upgraded" => reader[d] = "upgraded"
    BY <1>7 DEF Answer, Read, Types, TypeOK
  <2>2. UNCHANGED <<joined, syncer, events, out>> /\ TrySend(c, Reply)
    BY <1>7 DEF Answer
  <2>3. Reply.kind = "reply"
    BY DEF Reply
  <2>4. \A d \in Conns : \A m \in Sent(d)' : m \in Sent(d) \/ m.kind # "sync"
    BY <1>t, <2>2, <2>3, ReplyKind, TrySendAdds
  <2> QED BY <1>t, <2>1, <2>2, <2>4, SyncFrame
<1>8. ASSUME NEW c \in Conns, Write(c) PROVE SyncInv'
  <2>1. UNCHANGED <<joined, syncer, events, reader>>
    BY <1>8 DEF Write, conn
  <2>2. send[c].buf \in Seq(Messages) /\ send[c].buf # <<>> /\ out[c] \in Seq(Messages)
    BY <1>8 DEF Write, Types, TypeOK, SendType
  <2>3. \A d \in Conns \ {c} : send'[d] = send[d] /\ out'[d] = out[d]
    BY <1>8 DEF Write, Types, TypeOK
  <2>4. send'[c].buf = Tail(send[c].buf)
    BY <1>8 DEF Write, Types, TypeOK, SendType
  <2>5. out'[c] = out[c] \/ out'[c] = Append(out[c], Head(send[c].buf))
    BY <1>8 DEF Write, Types, TypeOK
  <2>6. Head(send[c].buf) \in Messages /\ Head(send[c].buf) \in Sent(c)
    <3>1. Head(send[c].buf) \in Messages BY <2>2
    <3> QED BY <2>2, <3>1, HeadAndTail DEF Sent
  <2>7. \A i \in DOMAIN send'[c].buf : send'[c].buf[i] \in Sent(c)
    BY <2>2, <2>4, HeadAndTail DEF Sent
  <2>8. \A i \in DOMAIN out'[c] : out'[c][i] \in Sent(c)
    <3>1. CASE out'[c] = out[c]
      BY <3>1 DEF Sent
    <3>2. CASE out'[c] = Append(out[c], Head(send[c].buf))
      BY <2>2, <2>6, <3>2, AppendAdds DEF Sent
    <3> QED BY <2>5, <3>1, <3>2
  <2>9. \A d \in Conns : \A m \in Sent(d)' : m \in Sent(d)
    BY <2>3, <2>7, <2>8 DEF Sent
  <2> QED BY <1>t, <2>1, <2>9, SyncFrame
<1>9. ASSUME NEW c \in Conns,
             ReadMessage(c) \/ Announce(c) \/ ReadFails(c) \/ PeerCloses(c) \/ WriterGone(c)
      PROVE  SyncInv'
  <2>1. \A d \in Conns : reader'[d] = "upgraded" => reader[d] = "upgraded"
    BY <1>9 DEF ReadMessage, Announce, ReadFails, PeerCloses, WriterGone, Read, Types, TypeOK
  <2>2. UNCHANGED <<joined, syncer, send, out>> /\ events' \in {events, events + 1}
    BY <1>9 DEF ReadMessage, Announce, ReadFails, PeerCloses, WriterGone, Queue
  <2>3. \A d \in Conns : Sent(d)' = Sent(d)
    BY <2>2 DEF Sent
  <2> QED BY <1>t, <2>1, <2>2, <2>3, SyncFrame
<1>10. CASE Take \/ Publish \/ UNCHANGED vars
  <2>1. UNCHANGED <<joined, syncer, send, out, reader>> /\ events' \in {events, events + 1}
    BY <1>10 DEF Take, Publish, Queue, vars, conn
  <2>2. \A d \in Conns : Sent(d)' = Sent(d)
    BY <2>1 DEF Sent
  <2> QED BY <1>t, <2>1, <2>2, SyncFrame
<1> QED BY <1>1, <1>2, <1>3, <1>4, <1>5, <1>6, <1>7, <1>8, <1>9, <1>10
        DEF Next, HubStep, Reader, Syncer, Writer, ChannelEnds, WriteFails

\* Nothing was sent at the start.
LEMMA InitSync == Init => SyncInv
<1> SUFFICES ASSUME Init, NEW c \in Conns
    PROVE /\ joined[c] <= events
          /\ reader[c] = "upgraded" => syncer[c].pc = "off"
          /\ syncer[c].pc = "send" => syncer[c].n >= joined[c]
          /\ \A m \in Sent(c) : m.kind = "sync" => m.n >= joined[c] /\ syncer[c].pc = "gone"
  BY DEF SyncInv
<1>1. Sent(c) = {} BY DEF Init, Sent
<1> QED BY <1>1 DEF Init

\* SyncsAreFresh: at any size, the game_sync a client gets was read after it
\* joined, so what it shows is no older than its first broadcast (hub.go's
\* register branch and sendGameSync).
THEOREM SyncsAreFresh == Spec => []SyncCoversTheGap
<1>1. Init => SyncInv
  BY InitSync
<1>2. SyncInv => SyncCoversTheGap
  BY DEF SyncInv, SyncCoversTheGap, Sent
<1>3. Init => Types
  BY InitTypes
<1> QED BY <1>1, <1>2, <1>3, StepTypes, StepSync, PTL DEF Spec

-----------------------------------------------------------------------------
(* The events a client is sent *)

\* The numbers of the events that were sent to c, and the order they are in.
Got(c)     == {m.n : m \in {x \in Sent(c) : x.kind = "event"}}
Rising(s)  == \A i, j \in DOMAIN s :
                  i < j /\ s[i].kind = "event" /\ s[j].kind = "event" => s[i].n < s[j].n
InOrder(c) ==
    /\ Rising(out[c]) /\ Rising(send[c].buf)
    /\ \A i \in DOMAIN out[c], j \in DOMAIN send[c].buf :
          out[c][i].kind = "event" /\ send[c].buf[j].kind = "event" => out[c][i].n < send[c].buf[j].n

\* The queue holds the events after those that were taken, and the hub has the
\* last of these in hand; a client is found too slow once it had its turn.
HubInv ==
    /\ \A i \in DOMAIN queue : queue[i] = Taken + i
    /\ hub.pc # "select" => hub.event = Taken
    /\ hub.todo \intersect hub.slow = {} /\ hub.slow \subseteq clients
    /\ hub.pc = "select" => hub.slow = {}

\* A client has got the events since it joined, up to the last that was
\* offered to it while it was registered.
Flow(c) ==
    /\ reader[c] = "upgraded" => Sent(c) = {}
    /\ InOrder(c)
    /\ \E last \in joined[c]..Taken :
           /\ Got(c) = (joined[c] + 1)..last
           /\ c \in clients => last = Offered(c)

FlowInv == Types /\ OpenInv /\ SyncInv /\ HubInv /\ \A c \in Conns : Flow(c)

\* A message that is appended comes last.
LEMMA AppendLast ==
  ASSUME NEW s \in Seq(Messages), NEW m \in Messages
  PROVE  /\ DOMAIN Append(s, m) = DOMAIN s \union {Len(s) + 1}
         /\ \A i \in DOMAIN s : Append(s, m)[i] = s[i] /\ i < Len(s) + 1
         /\ Append(s, m)[Len(s) + 1] = m
OBVIOUS

\* One more event, later than all before, or one message that is no event.
LEMMA AppendRises ==
  ASSUME NEW s \in Seq(Messages), NEW m \in Messages, Rising(s),
         m.kind = "event" => \A i \in DOMAIN s : s[i].kind = "event" => s[i].n < m.n
  PROVE  Rising(Append(s, m))
<1> DEFINE t == Append(s, m)
           l == Len(s) + 1
<1>1. /\ DOMAIN t = DOMAIN s \union {l} /\ t[l] = m
      /\ \A i \in DOMAIN s : t[i] = s[i] /\ i < l /\ i \in Int
      /\ l \in Int
  BY AppendLast
<1> HIDE DEF t, l
<1> SUFFICES ASSUME NEW i \in DOMAIN t, NEW j \in DOMAIN t, i < j, t[i].kind = "event", t[j].kind = "event"
    PROVE t[i].n < t[j].n
  BY DEF Rising, t
<1>2. i \in DOMAIN s
  BY <1>1
<1>3. CASE j = l
  BY <1>1, <1>2, <1>3
<1>4. CASE j \in DOMAIN s
  BY <1>1, <1>2, <1>4 DEF Rising
<1> QED BY <1>1, <1>3, <1>4

\* What a step sends to one client changes nothing for the others.
Undisturbed(d) == Sent(d)' = Sent(d) /\ Got(d)' = Got(d) /\ (InOrder(d) => InOrder(d)')

\* The same channel and the same socket.
LEMMA SameStream ==
  ASSUME NEW d \in Conns, send'[d].buf = send[d].buf, out'[d] = out[d]
  PROVE  Undisturbed(d)
<1>1. Sent(d)' = Sent(d)
  BY DEF Sent
<1>2. Got(d)' = Got(d)
  BY <1>1 DEF Got
<1> QED BY <1>1, <1>2 DEF Undisturbed, InOrder

\* Sending to c an event after all it got, or a message that is no event.
LEMMA PutFlow ==
  ASSUME TypeOK, NEW c \in Conns, NEW m \in Messages, Put(c, m), UNCHANGED out, InOrder(c),
         m.kind = "event" => \A k \in Got(c) : k < m.n
  PROVE  /\ \A d \in Conns \ {c} : Undisturbed(d)
         /\ InOrder(c)'
         /\ Got(c)' = IF m.kind = "event" THEN Got(c) \union {m.n} ELSE Got(c)
<1>1. send \in [Conns -> SendType] /\ send[c].buf \in Seq(Messages) /\ out[c] \in Seq(Messages)
  BY DEF TypeOK, SendType
<1>2. \A d \in Conns \ {c} : send'[d] = send[d]
  BY <1>1 DEF Put
<1>3. send'[c].buf = Append(send[c].buf, m) /\ out'[c] = out[c]
  BY <1>1 DEF Put, SendType
<1>4. \A d \in Conns \ {c} : Undisturbed(d)
  BY <1>2, SameStream
<1> DEFINE s == send[c].buf
           t == send'[c].buf
           l == Len(send[c].buf) + 1
<1>5. /\ DOMAIN t = DOMAIN s \union {l} /\ t[l] = m
      /\ \A i \in DOMAIN s : t[i] = s[i]
  BY <1>1, <1>3, AppendLast
<1>6. Sent(c)' = Sent(c) \union {m}
  BY <1>3, <1>5 DEF Sent
<1>7. Got(c)' = IF m.kind = "event" THEN Got(c) \union {m.n} ELSE Got(c)
  BY <1>6 DEF Got
<1>8. m.kind = "event" => /\ \A i \in DOMAIN s : s[i].kind = "event" => s[i].n < m.n
                          /\ \A i \in DOMAIN out[c] : out[c][i].kind = "event" => out[c][i].n < m.n
  BY DEF Got, Sent
<1>9. Rising(t)
  BY <1>1, <1>3, <1>8, AppendRises DEF InOrder
<1>10. \A i \in DOMAIN out[c], j \in DOMAIN t :
          out[c][i].kind = "event" /\ t[j].kind = "event" => out[c][i].n < t[j].n
  BY <1>5, <1>8 DEF InOrder
<1>11. InOrder(c)'
  BY <1>3, <1>9, <1>10 DEF InOrder
<1> QED BY <1>4, <1>7, <1>11

\* A message that is no event may be lost.
LEMMA TrySendFlow ==
  ASSUME TypeOK, NEW c \in Conns, NEW m \in Messages, TrySend(c, m), UNCHANGED out,
         m.kind # "event", InOrder(c)
  PROVE  /\ \A d \in Conns \ {c} : Undisturbed(d)
         /\ InOrder(c)' /\ Got(c)' = Got(c)
<1>1. CASE Put(c, m)
  BY <1>1, PutFlow
<1>2. CASE UNCHANGED send
  BY <1>2, SameStream DEF Undisturbed
<1> QED BY <1>1, <1>2 DEF TrySend, Panic

\* Closing channels sends nothing.
LEMMA CloseAllFlow ==
  ASSUME TypeOK, NEW C \in SUBSET Conns, CloseAll(C), UNCHANGED out
  PROVE  \A d \in Conns : Undisturbed(d)
<1>1. CASE Panic
  BY <1>1, SameStream DEF Panic
<1>2. CASE send' = [c \in Conns |-> IF c \in C THEN [send[c] EXCEPT !.closed = TRUE] ELSE send[c]]
  <2>1. \A d \in Conns : [send[d] EXCEPT !.closed = TRUE].buf = send[d].buf
    BY DEF TypeOK, SendType
  <2>2. \A d \in Conns : send'[d].buf = send[d].buf
    BY <1>2, <2>1
  <2> QED BY <2>2, SameStream
<1> QED BY <1>1, <1>2 DEF CloseAll

\* The pump takes the first message of the channel; an event or a state goes
\* to the end of what was written, an answer is not recorded.
LEMMA WriteFlow ==
  ASSUME TypeOK, NEW c \in Conns, Write(c), InOrder(c)
  PROVE  /\ \A d \in Conns \ {c} : Undisturbed(d)
         /\ InOrder(c)' /\ Got(c)' = Got(c) /\ Sent(c) # {}
<1> DEFINE s == send[c].buf
           t == send'[c].buf
           o == out[c]
           p == out'[c]
           m == Head(send[c].buf)
<1>1. s \in Seq(Messages) /\ s # <<>> /\ o \in Seq(Messages)
  BY DEF Write, TypeOK, SendType
<1>2. \A d \in Conns \ {c} : send'[d] = send[d] /\ out'[d] = out[d]
  BY DEF Write, TypeOK
<1>3. \A d \in Conns \ {c} : Undisturbed(d)
  BY <1>2, SameStream
<1>4. t = Tail(s)
  BY DEF Write, TypeOK, SendType
<1>5. (m.kind = "reply" /\ p = o) \/ p = Append(o, m)
  <2>1. CASE m = Reply
    BY <2>1 DEF Write, Reply
  <2>2. CASE m # Reply
    BY <2>2 DEF Write, TypeOK
  <2> QED BY <2>1, <2>2
<1>6. m \in Messages /\ 1 \in DOMAIN s /\ m = s[1]
  BY <1>1, HeadAndTail
<1>7. \A i \in DOMAIN t : i \in Int /\ i >= 1 /\ i + 1 \in DOMAIN s /\ t[i] = s[i + 1]
  BY <1>1, <1>4, HeadAndTail
<1>8. \A j \in DOMAIN s : j = 1 \/ (j - 1 \in DOMAIN t /\ t[j - 1] = s[j])
  BY <1>1, <1>4
<1> HIDE DEF t, p, m
<1>9. Rising(t)
  <2> SUFFICES ASSUME NEW i \in DOMAIN t, NEW j \in DOMAIN t, i < j, t[i].kind = "event", t[j].kind = "event"
      PROVE t[i].n < t[j].n
    BY DEF Rising
  <2>1. i + 1 < j + 1 /\ t[i] = s[i + 1] /\ t[j] = s[j + 1] /\ i + 1 \in DOMAIN s /\ j + 1 \in DOMAIN s
    BY <1>7
  <2>2. Rising(s)
    BY DEF InOrder
  <2> QED BY <2>1, <2>2 DEF Rising
<1>10. m.kind = "event" => \A j \in DOMAIN t : t[j].kind = "event" => m.n < t[j].n
  <2> SUFFICES ASSUME m.kind = "event", NEW j \in DOMAIN t, t[j].kind = "event" PROVE m.n < t[j].n
    OBVIOUS
  <2>1. 1 < j + 1 /\ j + 1 \in DOMAIN s /\ t[j] = s[j + 1] /\ 1 \in DOMAIN s /\ m = s[1]
    BY <1>6, <1>7
  <2>2. Rising(s)
    BY DEF InOrder
  <2> QED BY <2>1, <2>2 DEF Rising
<1>11. \A i \in DOMAIN o : o[i].kind = "event" /\ m.kind = "event" => o[i].n < m.n
  BY <1>6 DEF InOrder
<1>12. Rising(p)
  BY <1>1, <1>5, <1>6, <1>11, AppendRises DEF InOrder
<1>13. \A i \in DOMAIN p : (i \in DOMAIN o /\ p[i] = o[i]) \/ p[i] = m
  BY <1>1, <1>5, <1>6, AppendAdds
<1>14. \A i \in DOMAIN o, j \in DOMAIN t : o[i].kind = "event" /\ t[j].kind = "event" => o[i].n < t[j].n
  BY <1>7 DEF InOrder
<1>15. \A i \in DOMAIN p, j \in DOMAIN t : p[i].kind = "event" /\ t[j].kind = "event" => p[i].n < t[j].n
  BY <1>10, <1>13, <1>14
<1>16. InOrder(c)'
  BY <1>9, <1>12, <1>15 DEF InOrder, t, p
<1>17. \A x \in Messages : x.kind = "event" => (x \in Sent(c)' <=> x \in Sent(c))
  <2>1. p = Append(o, m) => m \in {p[i] : i \in DOMAIN p} /\ \A i \in DOMAIN o : i \in DOMAIN p /\ p[i] = o[i]
    BY <1>1, <1>6, AppendLast
  <2>2. Sent(c)' = {t[i] : i \in DOMAIN t} \union {p[i] : i \in DOMAIN p}
    BY DEF Sent, t, p
  <2>3. Sent(c)' \subseteq Sent(c)
    BY <1>6, <1>7, <1>13, <2>2 DEF Sent
  <2>4. ASSUME NEW x \in Sent(c), x.kind = "event" PROVE x \in Sent(c)'
    <3>1. CASE \E i \in DOMAIN o : x = o[i]
      BY <1>5, <2>1, <2>2, <3>1
    <3>2. CASE \E i \in DOMAIN s : x = s[i]
      <4>1. CASE x = m
        BY <1>5, <2>1, <2>2, <2>4, <4>1
      <4>2. CASE \E i \in DOMAIN t : x = t[i]
        BY <2>2, <4>2
      <4> QED BY <1>6, <1>8, <3>2, <4>1, <4>2
    <3> QED BY <3>1, <3>2 DEF Sent
  <2> QED BY <2>3, <2>4
<1>18. Sent(c) \subseteq Messages
  BY <1>1 DEF Sent
<1>19. Sent(c)' \subseteq Sent(c)
  BY <1>6, <1>7, <1>13 DEF Sent, t, p
<1>20. Got(c)' = Got(c)
  BY <1>17, <1>18, <1>19 DEF Got
<1>21. Sent(c) # {}
  BY <1>6 DEF Sent
<1> QED BY <1>3, <1>16, <1>20, <1>21

\* What is broadcast gets the number after the last in the queue.
LEMMA QueueNumbers ==
  ASSUME Types, HubInv, Queue(events + 1)
  PROVE  Taken' = Taken /\ \A i \in DOMAIN queue' : queue'[i] = Taken + i
<1>1. queue \in Seq(Events) /\ events \in Nat /\ Len(queue) \in Nat
  BY DEF Types, TypeOK
<1> DEFINE e == events + 1
<1>2. /\ Len(Append(queue, e)) = Len(queue) + 1
      /\ \A i \in DOMAIN Append(queue, e) :
           (i \in DOMAIN queue /\ Append(queue, e)[i] = queue[i]) \/ (i = Len(queue) + 1 /\ Append(queue, e)[i] = e)
  BY <1>1
<1>3. queue' = Append(queue, e) /\ events' = e
  BY DEF Queue
<1>4. e = Taken + (Len(queue) + 1) /\ e - (Len(queue) + 1) = Taken
  BY <1>1 DEF Taken
<1>5. Taken' = Taken
  BY <1>2, <1>3, <1>4 DEF Taken
<1>6. \A i \in DOMAIN queue : queue[i] = Taken + i
  BY DEF HubInv
<1> HIDE DEF e
<1> QED BY <1>2, <1>3, <1>4, <1>5, <1>6

\* What the hub takes is the number after those it took.
LEMMA TakeNumbers ==
  ASSUME Types, HubInv, Take
  PROVE  Taken' = Taken + 1 /\ hub'.event = Taken' /\ \A i \in DOMAIN queue' : queue'[i] = Taken' + i
<1>1. queue \in Seq(Events) /\ queue # <<>> /\ events \in Nat
  BY DEF Types, TypeOK, Take
<1>2. /\ Len(Tail(queue)) = Len(queue) - 1 /\ Len(queue) \in Nat
      /\ 1 \in DOMAIN queue /\ Head(queue) = queue[1]
      /\ \A i \in DOMAIN Tail(queue) : i \in Int /\ i + 1 \in DOMAIN queue /\ Tail(queue)[i] = queue[i + 1]
  BY <1>1
<1>3. queue' = Tail(queue) /\ events' = events /\ hub'.event = Head(queue)
  BY DEF Take
<1>4. Taken' = Taken + 1 /\ Taken \in Int
  BY <1>1, <1>2, <1>3 DEF Taken
<1>5. \A i \in DOMAIN queue : queue[i] = Taken + i
  BY DEF HubInv
<1>6. ASSUME NEW i \in DOMAIN queue' PROVE queue'[i] = Taken' + i
  <2>1. i \in Int /\ queue'[i] = Taken + (i + 1)
    BY <1>2, <1>3, <1>5
  <2> QED BY <1>4, <2>1
<1> QED BY <1>2, <1>3, <1>4, <1>5, <1>6

\* The queue stays numbered, and only Take takes from it.
LEMMA StepHub ==
  ASSUME Types, OpenInv, HubInv, [Next]_vars
  PROVE  HubInv' /\ (Taken' = Taken \/ Take)
<1> USE HubAssumption
<1>1. CASE Take
  <2>1. Taken' = Taken + 1 /\ hub'.event = Taken' /\ \A i \in DOMAIN queue' : queue'[i] = Taken' + i
    BY <1>1, TakeNumbers
  <2>2. hub'.slow = {} /\ hub'.pc = "cast"
    BY <1>1 DEF Take
  <2> QED BY <1>1, <2>1, <2>2 DEF HubInv
<1>2. ASSUME NEW c \in Conns, Announce(c) PROVE HubInv' /\ Taken' = Taken
  <2>1. UNCHANGED <<hub, clients>>
    BY <1>2 DEF Announce
  <2>2. CASE Queue(events + 1)
    BY <2>1, <2>2, QueueNumbers DEF HubInv
  <2>3. CASE UNCHANGED <<queue, events>>
    BY <2>1, <2>3 DEF HubInv, Taken
  <2> QED BY <1>2, <2>2, <2>3 DEF Announce
<1>3. ASSUME NEW c \in Conns, Cast(c) PROVE HubInv' /\ Taken' = Taken
  <2>1. UNCHANGED <<queue, events, clients>> /\ c \in hub.todo /\ hub.pc = "cast"
    BY <1>3 DEF Cast, Loop
  <2>2. /\ hub'.event = hub.event /\ hub'.todo = hub.todo \ {c} /\ hub'.pc # "select"
        /\ hub'.slow = hub.slow \/ hub'.slow = hub.slow \union {c}
    <3>1. PICK slow \in SUBSET Conns : Loop(c, slow) /\ (slow = {} \/ slow = {c})
      BY <1>3 DEF Cast
    <3> QED BY <3>1 DEF Loop, Types, TypeOK, HubType
  <2> QED BY <2>1, <2>2 DEF HubInv, Taken, OpenInv
<1>4. ASSUME NEW c \in Conns, Register(c) \/ Unregister(c) PROVE HubInv' /\ Taken' = Taken
  BY <1>4 DEF Register, Unregister, HubInv, Taken
<1>5. CASE Drop
  <2>1. UNCHANGED <<queue, events>> /\ hub' = Select
    BY <1>5 DEF Drop
  <2> QED BY <2>1 DEF HubInv, Taken, Select
<1>6. ASSUME NEW c \in Conns,
             \/ SyncRead(c) \/ SyncSend(c) \/ ReadMessage(c) \/ Answer(c) \/ ReadFails(c)
             \/ PeerCloses(c) \/ Write(c) \/ WriterGone(c)
      PROVE  HubInv' /\ Taken' = Taken
  <2>1. UNCHANGED <<hub, clients, queue, events>>
    BY <1>6 DEF SyncRead, SyncSend, ReadMessage, Answer, ReadFails, PeerCloses, Write, WriterGone
  <2> QED BY <2>1 DEF HubInv, Taken
<1>7. UNCHANGED vars => HubInv' /\ Taken' = Taken
  BY DEF vars, HubInv, Taken
<1>8. Publish => HubInv' /\ Taken' = Taken
  <2> SUFFICES ASSUME Publish PROVE HubInv' /\ Taken' = Taken
    OBVIOUS
  <2>1. UNCHANGED <<hub, clients>> /\ Queue(events + 1)
    BY DEF Publish
  <2> QED BY <2>1, QueueNumbers DEF HubInv
<1> QED BY <1>1, <1>2, <1>3, <1>4, <1>5, <1>6, <1>7, <1>8
        DEF Next, HubStep, Reader, Syncer, Writer, ChannelEnds, WriteFails

-----------------------------------------------------------------------------
(* One client *)

\* A client that is sent no event keeps its flow, unless it is offered more.
LEMMA FlowStays ==
  ASSUME NEW d \in Conns, Flow(d), joined'[d] = joined[d], Taken' \in Int, Taken \in Int, Taken <= Taken',
         joined[d] \in Int,
         reader'[d] = "upgraded" => reader[d] = "upgraded" /\ Sent(d)' = Sent(d),
         InOrder(d)', Got(d)' = Got(d),
         d \in clients' => d \in clients /\ Offered(d)' = Offered(d)
  PROVE  Flow(d)'
<1>1. PICK last \in joined[d]..Taken :
           /\ Got(d) = (joined[d] + 1)..last
           /\ d \in clients => last = Offered(d)
  BY DEF Flow
<1>2. last \in joined'[d]..Taken'
  BY <1>1
<1>3. /\ Got(d)' = (joined'[d] + 1)..last
      /\ d \in clients' => last = Offered(d)'
  BY <1>1
<1>4. \E k \in joined'[d]..Taken' : /\ Got(d)' = (joined'[d] + 1)..k
                                    /\ d \in clients' => k = Offered(d)'
  BY <1>2, <1>3
<1>5. (reader'[d] = "upgraded" => Sent(d)' = {})
  BY DEF Flow
<1> QED BY <1>4, <1>5 DEF Flow

\* A client that was offered event n and has it queued.
LEMMA FlowGrows ==
  ASSUME NEW d \in Conns, Flow(d), NEW n \in Int, joined'[d] = joined[d], Taken' = n, Taken = n,
         joined[d] \in Int, reader'[d] # "upgraded", d \in clients, Offered(d) = n - 1,
         InOrder(d)', Got(d)' = Got(d) \union {n}, Offered(d)' = n
  PROVE  Flow(d)'
<1>1. PICK last \in joined[d]..Taken :
           /\ Got(d) = (joined[d] + 1)..last
           /\ d \in clients => last = Offered(d)
  BY DEF Flow
<1>2. last = n - 1 /\ joined[d] <= n - 1
  BY <1>1
<1>3. ((joined[d] + 1)..(n - 1)) \union {n} = (joined[d] + 1)..n
  BY <1>2
<1>4. Got(d)' = (joined'[d] + 1)..n /\ n \in joined'[d]..Taken'
  BY <1>1, <1>2, <1>3
<1>5. \E k \in joined'[d]..Taken' : /\ Got(d)' = (joined'[d] + 1)..k
                                    /\ d \in clients' => k = Offered(d)'
  BY <1>4
<1> QED BY <1>5 DEF Flow

\* What a turn of the loop leaves.
LEMMA LoopTurns ==
  ASSUME TypeOK, NEW c \in Conns, NEW slow \in SUBSET Conns, Loop(c, slow)
  PROVE  /\ hub.pc = "cast" /\ c \in hub.todo
         /\ hub'.event = hub.event /\ hub'.todo = hub.todo \ {c} /\ hub'.slow = hub.slow \union slow
         /\ \/ hub'.pc = "cast"
            \/ hub'.pc = "drop" /\ hub'.todo = {}
BY DEF Loop, TypeOK, HubType

\* The turn of one client offers nothing to another.
LEMMA OthersOffered ==
  ASSUME TypeOK, NEW c \in Conns, NEW slow \in SUBSET {c}, Loop(c, slow), Taken' = Taken,
         NEW d \in Conns, d # c
  PROVE  Offered(d)' = Offered(d)
<1>1. slow \in SUBSET Conns /\ d \notin slow
  OBVIOUS
<1> QED BY <1>1, LoopTurns DEF Offered

\* The turn of a client that is not slow offers it the event.
LEMMA TurnOffers ==
  ASSUME TypeOK, OpenInv, HubInv, NEW c \in Conns, Loop(c, {}), Taken' = Taken
  PROVE  /\ c \in clients /\ c \in clients'
         /\ Offered(c) = Taken - 1 /\ Offered(c)' = Taken /\ hub.event = Taken
<1> DEFINE none == {}
<1>0. none \in SUBSET Conns /\ Loop(c, none)
  OBVIOUS
<1> HIDE DEF none
<1>1. /\ hub.pc = "cast" /\ c \in hub.todo /\ hub'.todo = hub.todo \ {c}
      /\ hub'.slow = hub.slow \union none /\ clients' = clients
  BY <1>0, LoopTurns DEF Loop
<1>2. c \notin hub.slow /\ hub.event = Taken /\ c \in clients
  BY <1>1 DEF HubInv, OpenInv
<1>3. c \notin hub'.todo \union hub'.slow
  BY <1>1, <1>2 DEF none
<1> QED BY <1>1, <1>2, <1>3 DEF Offered

\* The turn of a slow client offers it nothing.
LEMMA SlowNotOffered ==
  ASSUME TypeOK, NEW c \in Conns, Loop(c, {c})
  PROVE  Offered(c)' = Offered(c)
<1>1. /\ hub.pc = "cast" /\ c \in hub.todo /\ c \in hub'.slow /\ hub'.event = hub.event
      /\ hub'.pc = "cast" \/ hub'.pc = "drop"
  BY LoopTurns
<1> QED BY <1>1 DEF Offered

\* No step skips an event, repeats one, or puts one before an earlier one.
LEMMA StepFlow == FlowInv /\ [Next]_vars => \A d \in Conns : Flow(d)'
<1> SUFFICES ASSUME FlowInv, [Next]_vars PROVE \A d \in Conns : Flow(d)'
  OBVIOUS
<1> USE HubAssumption
<1>t. /\ TypeOK /\ Types /\ OpenInv /\ SyncInv /\ HubInv
      /\ \A d \in Conns : Flow(d) /\ InOrder(d)
  BY DEF FlowInv, Types, Flow
<1>i. Taken \in Int /\ \A d \in Conns : joined[d] \in Int
  BY DEF FlowInv, Types, TypeOK, Taken
<1>h. HubInv' /\ (Taken' = Taken \/ Take)
  BY <1>t, StepHub
<1>1. ASSUME NEW c \in Conns, Register(c) PROVE \A d \in Conns : Flow(d)'
  <2>1. /\ UNCHANGED <<send, out, hub, events, queue>> /\ hub.pc = "select" /\ reader[c] = "upgraded"
        /\ \A d \in Conns : reader'[d] = "upgraded" => reader[d] = "upgraded" /\ d # c
        /\ \A d \in Conns : joined'[d] = IF d = c THEN Taken ELSE joined[d]
        /\ clients' = clients \union {c}
    BY <1>1, <1>t DEF Register, Read, TypeOK
  <2>2. \A d \in Conns : Undisturbed(d) /\ Offered(d)' = Offered(d)
    BY <2>1, SameStream DEF Offered, Taken
  <2>3. Taken' = Taken
    BY <2>1 DEF Taken
  <2>4. ASSUME NEW d \in Conns, d # c PROVE Flow(d)'
    <3>1. joined'[d] = joined[d] /\ (d \in clients' => d \in clients)
      BY <2>1, <2>4
    <3> QED BY <1>t, <1>i, <2>1, <2>2, <2>3, <3>1, FlowStays DEF Undisturbed
  <2>5. Flow(c)'
    <3>1. Sent(c) = {}
      BY <1>t, <2>1 DEF Flow
    <3>2. Got(c)' = {} /\ joined'[c] = Taken /\ Offered(c)' = Taken
      BY <2>1, <2>2, <2>3, <3>1 DEF Got, Undisturbed, Offered
    <3>3. {} = (Taken + 1)..Taken /\ Taken \in Taken..Taken
      BY <1>i
    <3>4. \E last \in joined'[c]..Taken' : /\ Got(c)' = (joined'[c] + 1)..last
                                           /\ c \in clients' => last = Offered(c)'
      BY <2>3, <3>2, <3>3
    <3> QED BY <1>t, <2>1, <2>2, <3>4 DEF Flow, Undisturbed
  <2> QED BY <2>4, <2>5
<1>2. ASSUME NEW c \in Conns, Unregister(c) PROVE \A d \in Conns : Flow(d)'
  <2>1. /\ UNCHANGED <<out, hub, events, queue, joined>> /\ CloseAll({c} \intersect clients)
        /\ \A d \in Conns : reader'[d] = "upgraded" => reader[d] = "upgraded"
        /\ clients' \subseteq clients
    BY <1>2, <1>t DEF Unregister, Read, TypeOK
  <2>2. \A d \in Conns : Undisturbed(d) /\ Offered(d)' = Offered(d)
    BY <1>t, <2>1, CloseAllFlow DEF Offered, Taken
  <2>3. Taken' = Taken
    BY <2>1 DEF Taken
  <2> QED BY <1>t, <1>i, <2>1, <2>2, <2>3, FlowStays DEF Undisturbed
<1>3. CASE Drop
  <2>1. /\ UNCHANGED <<out, events, queue, joined, reader>> /\ CloseAll(hub.slow \intersect clients)
        /\ clients' = clients \ hub.slow /\ hub'.pc = "select"
        /\ hub.todo = {} \/ hub.pc # "cast"
    BY <1>3 DEF Drop, Select, conn
  <2>2. hub.slow \intersect clients \in SUBSET Conns
    BY <1>t DEF TypeOK
  <2>3. \A d \in Conns : Undisturbed(d)
    BY <1>t, <2>1, <2>2, CloseAllFlow
  <2>4. Taken' = Taken
    BY <2>1 DEF Taken
  <2>5. \A d \in clients' : d \in clients /\ Offered(d)' = Offered(d)
    BY <2>1, <2>4 DEF Offered
  <2> QED BY <1>t, <1>i, <2>1, <2>3, <2>4, <2>5, FlowStays DEF Undisturbed
<1>4. CASE Take
  <2>1. /\ UNCHANGED <<send, out, joined, reader, clients>> /\ hub.pc = "select"
        /\ hub'.pc = "cast" /\ hub'.todo = clients
    BY <1>4 DEF Take, conn
  <2>2. Taken' = Taken + 1 /\ hub'.event = Taken'
    BY <1>4, <1>t, TakeNumbers
  <2>3. \A d \in Conns : Undisturbed(d)
    BY <2>1, SameStream
  <2>4. \A d \in clients : Offered(d)' = Offered(d)
    BY <1>i, <2>1, <2>2 DEF Offered
  <2> QED BY <1>t, <1>i, <2>1, <2>2, <2>3, <2>4, FlowStays DEF Undisturbed
<1>5. ASSUME NEW c \in Conns, Cast(c) PROVE \A d \in Conns : Flow(d)'
  <2>1. UNCHANGED <<out, events, queue, joined, reader, clients>>
    BY <1>5 DEF Cast, Loop, conn
  <2>2. Taken' = Taken
    BY <2>1 DEF Taken
  <2>3. CASE Loop(c, {c}) /\ UNCHANGED send
    <3>1. \A d \in Conns : Undisturbed(d)
      BY <2>1, <2>3, SameStream
    <3>2. \A d \in Conns : Offered(d)' = Offered(d)
      BY <1>t, <2>2, <2>3, OthersOffered, SlowNotOffered
    <3> QED BY <1>t, <1>i, <2>1, <2>2, <3>1, <3>2, FlowStays DEF Undisturbed
  <2>4. CASE Loop(c, {}) /\ Put(c, Event(hub.event))
    <3>1. /\ c \in clients /\ hub.event = Taken
          /\ Offered(c) = Taken - 1 /\ Offered(c)' = Taken
      BY <1>t, <2>2, <2>4, TurnOffers
    <3> DEFINE m == Event(hub.event)
    <3>2. m \in Messages /\ m.kind = "event" /\ m.n = Taken
      BY <1>t, <3>1, MessageKinds DEF TypeOK, HubType, Event
    <3> HIDE DEF m
    <3>3. \A k \in Got(c) : k < m.n
      BY <1>t, <1>i, <3>1, <3>2 DEF Flow
    <3>4. /\ \A d \in Conns \ {c} : Undisturbed(d)
          /\ InOrder(c)' /\ Got(c)' = Got(c) \union {Taken}
      BY <1>t, <2>1, <2>4, <3>2, <3>3, PutFlow DEF m
    <3>5. \A d \in Conns \ {c} : Offered(d)' = Offered(d)
      BY <1>t, <2>2, <2>4, OthersOffered
    <3>6. \A d \in Conns \ {c} : Flow(d)'
      BY <1>t, <1>i, <2>1, <2>2, <3>4, <3>5, FlowStays DEF Undisturbed
    <3>7. reader'[c] # "upgraded"
      BY <1>t, <2>1, <3>1 DEF OpenInv
    <3>8. Flow(c)'
      BY <1>t, <1>i, <2>1, <2>2, <3>1, <3>4, <3>7, FlowGrows
    <3> QED BY <3>6, <3>8
  <2> QED BY <1>5, <2>3, <2>4 DEF Cast
<1>6. ASSUME NEW c \in Conns, NEW m \in Messages, TrySend(c, m), m.kind # "event",
             UNCHANGED <<clients, queue, hub, out, joined, events>>, reader[c] # "upgraded",
             \A d \in Conns : reader'[d] = "upgraded" => reader[d] = "upgraded"
      PROVE  \A d \in Conns : Flow(d)'
  <2>1. /\ \A d \in Conns \ {c} : Undisturbed(d)
        /\ InOrder(c)' /\ Got(c)' = Got(c)
    BY <1>t, <1>6, TrySendFlow
  <2>2. Taken' = Taken /\ \A d \in Conns : Offered(d)' = Offered(d)
    BY <1>6 DEF Taken, Offered
  <2> QED BY <1>t, <1>i, <1>6, <2>1, <2>2, FlowStays DEF Undisturbed
<1>7. ASSUME NEW c \in Conns, SyncSend(c) PROVE \A d \in Conns : Flow(d)'
  <2>1. Sync(syncer[c].n) \in Messages /\ Sync(syncer[c].n).kind # "event"
    BY <1>t, MessageKinds DEF TypeOK, SyncerType, Sync
  <2>2. reader[c] # "upgraded" /\ TrySend(c, Sync(syncer[c].n))
        /\ UNCHANGED <<clients, queue, hub, out, joined, events, reader>>
    BY <1>t, <1>7 DEF SyncSend, SyncInv
  <2> QED BY <1>6, <2>1, <2>2
<1>8. ASSUME NEW c \in Conns, Answer(c) PROVE \A d \in Conns : Flow(d)'
  <2>1. Reply \in Messages /\ Reply.kind # "event"
    BY ReplyKind DEF Reply
  <2>2. reader[c] # "upgraded" /\ TrySend(c, Reply)
        /\ UNCHANGED <<clients, queue, hub, out, joined, events>>
    BY <1>8 DEF Answer, Read
  <2>3. \A d \in Conns : reader'[d] = "upgraded" => reader[d] = "upgraded"
    BY <1>t, <1>8 DEF Answer, Read, TypeOK
  <2> QED BY <1>6, <2>1, <2>2, <2>3
<1>9. ASSUME NEW c \in Conns, Write(c) PROVE \A d \in Conns : Flow(d)'
  <2>1. /\ \A d \in Conns \ {c} : Undisturbed(d)
        /\ InOrder(c)' /\ Got(c)' = Got(c) /\ Sent(c) # {}
    BY <1>t, <1>9, WriteFlow
  <2>2. UNCHANGED <<clients, queue, hub, joined, events, reader>>
    BY <1>9 DEF Write, conn
  <2>3. reader[c] # "upgraded"
    BY <1>t, <2>1 DEF Flow
  <2>4. Taken' = Taken /\ \A d \in Conns : Offered(d)' = Offered(d)
    BY <2>2 DEF Taken, Offered
  <2> QED BY <1>t, <1>i, <2>1, <2>2, <2>3, <2>4, FlowStays DEF Undisturbed
<1>10. ASSUME UNCHANGED <<clients, hub, send, out, joined>>, Taken' = Taken,
              \A d \in Conns : reader'[d] = "upgraded" => reader[d] = "upgraded"
       PROVE  \A d \in Conns : Flow(d)'
  <2>1. \A d \in Conns : Undisturbed(d) /\ Offered(d)' = Offered(d)
    BY <1>10, SameStream DEF Offered
  <2> QED BY <1>t, <1>i, <1>10, <2>1, FlowStays DEF Undisturbed
<1>11. ASSUME NEW c \in Conns,
              \/ SyncRead(c) \/ ReadMessage(c) \/ Announce(c) \/ ReadFails(c)
              \/ PeerCloses(c) \/ WriterGone(c)
       PROVE  \A d \in Conns : Flow(d)'
  <2>1. \A d \in Conns : reader'[d] = "upgraded" => reader[d] = "upgraded"
    BY <1>t, <1>11 DEF SyncRead, ReadMessage, Announce, ReadFails, PeerCloses, WriterGone, Read, TypeOK
  <2>2. UNCHANGED <<clients, hub, send, out, joined>>
    BY <1>11 DEF SyncRead, ReadMessage, Announce, ReadFails, PeerCloses, WriterGone
  <2>3. ~Take
    BY <2>2 DEF Take
  <2> QED BY <1>h, <1>10, <2>1, <2>2, <2>3
<1>12. CASE Publish \/ UNCHANGED vars
  <2>1. UNCHANGED <<clients, hub, send, out, joined, reader>>
    BY <1>12 DEF Publish, vars, conn
  <2>2. Taken' = Taken
    BY <1>12, <1>t, QueueNumbers DEF Publish, vars, Taken
  <2> QED BY <1>10, <2>1, <2>2
<1> QED BY <1>1, <1>2, <1>3, <1>4, <1>5, <1>7, <1>8, <1>9, <1>11, <1>12
        DEF Next, HubStep, Reader, Syncer, Writer, ChannelEnds, WriteFails

\* The flow at the start.
LEMMA InitFlow == Init => FlowInv
<1> SUFFICES ASSUME Init PROVE FlowInv
  OBVIOUS
<1>1. Types /\ OpenInv
  BY InitTypes
<1>2. SyncInv
  BY InitSync
<1>3. Taken = 0
  <2>1. Len(<<>>) = 0
    OBVIOUS
  <2>2. events = 0 /\ Len(queue) = 0
    BY <2>1 DEF Init
  <2> QED BY <2>2 DEF Taken
<1>4. HubInv
  BY <1>3 DEF Init, HubInv, Select
<1>5. ASSUME NEW c \in Conns PROVE Flow(c)
  <2>1. send[c].buf = <<>> /\ out[c] = <<>> /\ joined[c] = 0 /\ c \notin clients
    BY <1>5 DEF Init
  <2>2. Sent(c) = {} /\ InOrder(c)
    BY <2>1 DEF Sent, InOrder, Rising
  <2>3. Got(c) = {} /\ {} = (joined[c] + 1)..0 /\ 0 \in joined[c]..Taken
    BY <1>3, <2>1, <2>2 DEF Got
  <2> QED BY <2>1, <2>2, <2>3 DEF Flow
<1> QED BY <1>1, <1>2, <1>4, <1>5 DEF FlowInv

\* One message of the stream is written already or still waits.
LEMMA StreamParts ==
  ASSUME NEW s \in Seq(Messages), NEW t \in Seq(Messages)
  PROVE  /\ \A i \in DOMAIN (s \o t) : i \in Int /\
               \/ i \in DOMAIN s /\ i <= Len(s) /\ (s \o t)[i] = s[i]
               \/ i > Len(s) /\ i - Len(s) \in DOMAIN t /\ (s \o t)[i] = t[i - Len(s)]
         /\ \A i \in DOMAIN s : i \in DOMAIN (s \o t) /\ (s \o t)[i] = s[i]
         /\ \A j \in DOMAIN t : Len(s) + j \in DOMAIN (s \o t) /\ (s \o t)[Len(s) + j] = t[j]
         /\ Len(s) \in Int
OBVIOUS

\* The flow of a client is what the property says of its stream.
LEMMA FlowShows == FlowInv => NoEventSkipped
<1> SUFFICES ASSUME FlowInv, NEW c \in Conns
    PROVE  /\ \A i, j \in EventsAt(c) : i < j => Stream(c)[i].n < Stream(c)[j].n
           /\ \E last \in joined[c]..Taken :
                  /\ {Stream(c)[i].n : i \in EventsAt(c)} = (joined[c] + 1)..last
                  /\ c \in clients => last = Offered(c)
  BY DEF NoEventSkipped
<1> DEFINE s == out[c]
           t == send[c].buf
           w == s \o t
           l == Len(s)
<1>1. s \in Seq(Messages) /\ t \in Seq(Messages)
  BY DEF FlowInv, Types, TypeOK, SendType
<1>2. /\ \A i \in DOMAIN w : i \in Int /\
               \/ i \in DOMAIN s /\ i <= l /\ w[i] = s[i]
               \/ i > l /\ i - l \in DOMAIN t /\ w[i] = t[i - l]
      /\ \A i \in DOMAIN s : i \in DOMAIN w /\ w[i] = s[i]
      /\ \A j \in DOMAIN t : l + j \in DOMAIN w /\ w[l + j] = t[j]
      /\ l \in Int
  BY <1>1, StreamParts
<1>3. Stream(c) = w /\ EventsAt(c) = {i \in DOMAIN w : w[i].kind = "event"}
  BY DEF Stream, EventsAt
<1>4. Flow(c) /\ InOrder(c)
  BY DEF FlowInv, Flow
<1>5. /\ Rising(s) /\ Rising(t)
      /\ \A i \in DOMAIN s, j \in DOMAIN t : s[i].kind = "event" /\ t[j].kind = "event" => s[i].n < t[j].n
  BY <1>4 DEF InOrder
<1>8. Got(c) = {x.n : x \in {y \in {t[i] : i \in DOMAIN t} \union {s[i] : i \in DOMAIN s} : y.kind = "event"}}
  BY DEF Got, Sent
<1> HIDE DEF s, t, w, l
<1>6. ASSUME NEW i \in EventsAt(c), NEW j \in EventsAt(c), i < j PROVE w[i].n < w[j].n
  <2>1. i \in DOMAIN w /\ j \in DOMAIN w /\ w[i].kind = "event" /\ w[j].kind = "event"
    BY <1>3
  <2>2. CASE i \in DOMAIN s /\ i <= l /\ w[i] = s[i] /\ j \in DOMAIN s /\ w[j] = s[j]
    BY <1>5, <1>6, <2>1, <2>2 DEF Rising
  <2>3. CASE i \in DOMAIN s /\ w[i] = s[i] /\ j - l \in DOMAIN t /\ w[j] = t[j - l]
    BY <1>5, <2>1, <2>3
  <2>4. CASE i > l /\ i - l \in DOMAIN t /\ w[i] = t[i - l] /\ j - l \in DOMAIN t /\ w[j] = t[j - l]
    <3>1. i - l < j - l
      BY <1>2, <1>6, <2>1
    <3> QED BY <1>5, <2>1, <2>4, <3>1 DEF Rising
  <2>5. i > l => j > l
    BY <1>2, <1>6, <2>1
  <2> QED BY <1>2, <2>1, <2>2, <2>3, <2>4, <2>5
<1>7. {w[i].n : i \in EventsAt(c)} = Got(c)
  <2>1. ASSUME NEW i \in EventsAt(c) PROVE w[i].n \in Got(c)
    <3>1. i \in DOMAIN w /\ w[i].kind = "event"
      BY <1>3
    <3>2. w[i] \in {t[k] : k \in DOMAIN t} \union {s[k] : k \in DOMAIN s}
      BY <1>2, <3>1
    <3> QED BY <1>8, <3>1, <3>2
  <2>2. ASSUME NEW k \in Got(c) PROVE \E i \in EventsAt(c) : k = w[i].n
    <3>1. PICK x \in {t[i] : i \in DOMAIN t} \union {s[i] : i \in DOMAIN s} : x.kind = "event" /\ k = x.n
      BY <1>8
    <3>2. \E i \in DOMAIN w : x = w[i]
      BY <1>2
    <3> QED BY <1>3, <3>1, <3>2
  <2> QED BY <2>1, <2>2
<1> QED BY <1>3, <1>4, <1>6, <1>7 DEF Flow

\* EventsInOrder: at any size, a registered client has got every event since
\* it joined, in order and once, whatever competes for its channel; a dropped
\* one got them up to some point (the loop of Hub.Run over its clients).
THEOREM EventsInOrder == Spec => []NoEventSkipped
<1>1. FlowInv /\ [Next]_vars => FlowInv'
  BY StepTypes, StepOpen, StepSync, StepHub, StepFlow DEF FlowInv, IInv
<1> QED BY <1>1, InitFlow, FlowShows, PTL DEF Spec
=============================================================================
