--------------------------- MODULE WireConnProofs ---------------------------
(***************************************************************************)
(* What the wire connection guarantees whatever the callers, the lanes, the *)
(* sizes of the channels and the bounds: a response reaches the caller of    *)
(* its request and nobody else, the end of a write loop loses nothing that  *)
(* was queued before the cancellation, close() returns after every task,    *)
(* and the read loops route to the receiver of the stream that is open.     *)
(***************************************************************************)
EXTENDS WireConn, Functions, TLAPS

-----------------------------------------------------------------------------
(* Types *)

\* A caller has an id from its request on.
IdsDrawn == \A c \in Callers : (caller[c] = "idle") <=> (request_id[c] = -1)

CallerTypes ==
    /\ request_id_counter \in 0 .. MaxId + 2
    /\ response_senders \subseteq Nat \X Callers
    /\ caller \in [Callers -> {"idle", "queue", "wait", "ok", "failed"}]
    /\ request_id \in [Callers -> Nat \cup {-1}]
    /\ answer \in [Callers -> Callers \cup {"none"}]
    /\ IdsDrawn

WriteTypes ==
    /\ tx_write \in [Lanes -> Seq(Messages)]
    /\ \A l \in Lanes : Len(tx_write[l]) <= ChannelSize
    /\ early \in [Lanes -> SUBSET Messages]
    /\ writer \in [Lanes -> {"run", "drain", "emptied", "ended"}]
    /\ write_failed \subseteq Lanes

NetTypes ==
    /\ net_out \in [Lanes -> Seq(Messages)]
    /\ srv_pos \in 0 .. Len(net_out["reliable"])
    /\ srv_pending \subseteq Messages
    /\ srv_sent \in 0 .. MaxServer

ReadTypes ==
    /\ reader \in [Lanes -> {"read", "pong", "to_ping", "route", "ended"}]
    /\ in_msg \in [Lanes -> Messages]
    /\ net_in \in [Lanes -> Seq(Messages)]

StreamTypes ==
    /\ commands \in [Lanes -> Seq(0 .. MaxAdds)]
    /\ registered \in [Lanes -> 0 .. MaxAdds]
    /\ stream_chan \in [1 .. MaxAdds -> 0 .. ChannelSize]
    /\ adds \in 0 .. MaxAdds /\ open \subseteq 1 .. adds

PingTypes ==
    /\ ping \in {"sleep", "send", "wait", "ended"} /\ ping_id \in Nat
    /\ rx_pong \in Seq(Nat) /\ Len(rx_pong) <= ChannelSize

OwnerTypes ==
    /\ closer \in {"wait", "closed"}
    /\ owner \in {"run", "close", "wait", "returned", "skipped"}
    /\ datagrams \in 0 .. MaxDatagrams

FlagTypes == ct \in BOOLEAN /\ silent \in BOOLEAN

\* The types of the functions too, and that a request is queued with its id.
TypeInv == /\ CallerTypes /\ WriteTypes /\ NetTypes /\ ReadTypes
           /\ StreamTypes /\ PingTypes /\ OwnerTypes /\ FlagTypes

\* Sequences stay sequences of the same elements.
LEMMA SeqOps ==
    ASSUME NEW S, NEW q \in Seq(S)
    PROVE  /\ \A x \in S : Append(q, x) \in Seq(S)
           /\ q # <<>> => Head(q) \in S /\ Tail(q) \in Seq(S)
  OBVIOUS

\* Only the empty sequence has length 0.
LEMMA EmptySequence ==
    ASSUME NEW S, NEW q \in Seq(S) PROVE q = <<>> <=> Len(q) = 0
  OBVIOUS

\* The last element of a sequence is the last of its tail, or its head.
LEMMA TailLast ==
    ASSUME NEW S, NEW q \in Seq(S), q # <<>>
    PROVE  IF Tail(q) = <<>> THEN Head(q) = q[Len(q)] ELSE Tail(q)[Len(Tail(q))] = q[Len(q)]
<1>1. Len(q) \in Nat /\ Len(q) >= 1 /\ Len(Tail(q)) = Len(q) - 1 /\ Tail(q) \in Seq(S)
  OBVIOUS
<1>2. CASE Tail(q) = <<>>
  <2>1. Len(Tail(q)) = 0
    BY <1>1, <1>2, EmptySequence, Zenon
  <2>2. \A n, k \in Nat : k = n - 1 /\ k = 0 => n = 1
    OBVIOUS
  <2>3. Len(Tail(q)) \in Nat
    BY <1>1
  <2>4. Len(q) = 1
    BY <1>1, <2>1, <2>2, <2>3, Zenon
  <2>5. Head(q) = q[1]
    OBVIOUS
  <2>6. QED
    BY <1>2, <2>4, <2>5, Zenon
<1>3. CASE Tail(q) # <<>>
  <2>1. Len(Tail(q)) >= 1
    BY <1>1, <1>3
  <2>2. Len(q) - 1 \in 1 .. Len(q) - 1 /\ (Len(q) - 1) + 1 = Len(q)
    BY <1>1, <2>1
  <2>3. Tail(q)[Len(q) - 1] = q[(Len(q) - 1) + 1]
    BY <2>2
  <2>4. Tail(q)[Len(Tail(q))] = q[Len(q)]
    BY <1>1, <2>2, <2>3
  <2>5. QED
    BY <1>3, <2>4
<1>4. QED
  BY <1>2, <1>3

\* Appending adds an element, taking the head leaves the others.
LEMMA SeqRange ==
    ASSUME NEW S, NEW q \in Seq(S)
    PROVE  /\ \A x : x \in Range(q) <=> \E i \in 1 .. Len(q) : q[i] = x
           /\ \A x \in S : Range(Append(q, x)) = Range(q) \cup {x}
           /\ q # <<>> => Head(q) \in Range(q) /\ Range(q) = {Head(q)} \cup Range(Tail(q))
           /\ Range(<<>>) = {}
<1>1. DOMAIN q = 1 .. Len(q) /\ Len(q) \in Nat
  OBVIOUS
<1>2. \A x : x \in Range(q) <=> \E i \in 1 .. Len(q) : q[i] = x
  BY <1>1 DEF Range
<1>3. ASSUME NEW x \in S PROVE Range(Append(q, x)) = Range(q) \cup {x}
  <2>1. /\ DOMAIN Append(q, x) = 1 .. Len(q) + 1
        /\ \A i \in 1 .. Len(q) : Append(q, x)[i] = q[i]
        /\ Append(q, x)[Len(q) + 1] = x
    OBVIOUS
  <2>2. 1 .. Len(q) + 1 = (1 .. Len(q)) \cup {Len(q) + 1}
    BY <1>1
  <2>3. QED
    BY <1>1, <2>1, <2>2 DEF Range
<1>4. ASSUME q # <<>>
      PROVE  Head(q) \in Range(q) /\ Range(q) = {Head(q)} \cup Range(Tail(q))
  <2>1. /\ Len(q) >= 1 /\ Head(q) = q[1]
        /\ DOMAIN Tail(q) = 1 .. Len(q) - 1
        /\ \A i \in 1 .. Len(q) - 1 : Tail(q)[i] = q[i + 1]
    BY <1>4
  <2>2. Head(q) \in Range(q)
    BY <1>1, <2>1 DEF Range
  <2>3. ASSUME NEW x \in Range(Tail(q)) PROVE x \in Range(q)
    <3>1. PICK i \in 1 .. Len(q) - 1 : x = Tail(q)[i]
      BY <2>1, <2>3 DEF Range
    <3>2. i + 1 \in 1 .. Len(q) /\ x = q[i + 1]
      BY <1>1, <2>1, <3>1
    <3>3. QED
      BY <1>1, <3>2 DEF Range
  <2>4. ASSUME NEW x \in Range(q), x # Head(q) PROVE x \in Range(Tail(q))
    <3>1. PICK i \in 1 .. Len(q) : x = q[i]
      BY <1>1 DEF Range
    <3>2. i # 1
      BY <2>1, <2>4, <3>1
    <3>3. i - 1 \in 1 .. Len(q) - 1 /\ (i - 1) + 1 = i
      BY <1>1, <3>2
    <3>4. Tail(q)[i - 1] = x
      BY <2>1, <3>1, <3>3
    <3>5. QED
      BY <2>1, <3>3, <3>4 DEF Range
  <2>5. QED
    BY <2>2, <2>3, <2>4
<1>5. Range(<<>>) = {}
  BY DEF Range
<1>6. QED
  BY <1>2, <1>3, <1>4, <1>5

\* The lane every connection has.
LEMMA ReliableLane == "reliable" \in Lanes /\ DatagramLane \in Lanes
  BY WireConnAssumption DEF DatagramLane

\* The messages without a caller are messages.
LEMMA MsgTypes ==
    /\ NoMsg \in Messages
    /\ \A n \in Nat, kind \in {"ping", "pong", "stream", "data", "disconnect"} :
         Msg(kind, n) \in Messages
  BY DEF Msg, NoMsg, Messages

\* A request is queued as a message with the id that was drawn for it.
LEMMA RequestType ==
    ASSUME CallerTypes, NEW c \in Callers, caller[c] = "queue"
    PROVE  /\ Request(c) \in Messages /\ Request(c).kind = "request"
           /\ Request(c).by = c /\ Request(c).id = request_id[c]
<1>1. request_id[c] \in Nat
  BY DEF CallerTypes, IdsDrawn
<1>2. QED
  BY <1>1 DEF Request, Messages

\* What the steps do to the callers.
LEMMA CallerSteps ==
    ASSUME [Next]_vars
    PROVE  \/ \E c \in Callers : CallerRequest(c)
           \/ \E c \in Callers : CallerQueued(c) \/ CallerFails(c)
           \/ \E l \in Lanes : ReaderResponse(l)
           \/ PingTick
           \/ UNCHANGED callerVars
<1> USE DEF callerVars
<1>1. CASE \E c \in Callers : Caller(c)
  BY <1>1 DEF Caller
<1>2. CASE \E l \in Lanes : Writer(l)
  BY <1>2 DEF Writer, WriterWrite, WriterError, WriterCancelled, WriterEmptied, WriterEnd
<1>3. CASE \E l \in Lanes : Reader(l) \/ ReaderError(l)
  BY <1>3 DEF Reader, ReaderCancelled, ReaderCommand, ReaderTake, ReaderPong, ReaderToPing,
              ReaderRoute, ReaderError
<1>4. CASE Ping \/ Owner
  BY <1>4 DEF Ping, PingSend, PingPong, PingEnd, Owner, OwnerDisconnect, OwnerCannotSend,
              OwnerClose, OwnerReturned
<1>5. CASE Stream \/ SendUnreliable \/ CloserClose
  BY <1>5 DEF Stream, StreamAdd, StreamRead, StreamDrop, SendUnreliable, CloserClose
<1>6. CASE Server
  BY <1>6 DEF Server, ServerRead, ServerAnswer, ServerSend, ServerSilent
<1>7. CASE UNCHANGED vars
  BY <1>7 DEF vars
<1>8. QED
  BY <1>1, <1>2, <1>3, <1>4, <1>5, <1>6, <1>7 DEF Next, Finished

\* A step that queues one message; a request is the one of its caller.
QueueStep ==
    \E l \in Lanes, m \in Messages :
        /\ Enqueue(l, m)
        /\ m.kind \in {"request", "response"} =>
             \E c \in Callers : caller[c] = "queue" /\ m = Request(c)
        /\ UNCHANGED <<ct, writer, write_failed, net_out>>

\* A step queues one message, is one of a write loop, or leaves the queues and
\* what is written alone.
LEMMA WriteSteps ==
    ASSUME TypeInv, [Next]_vars
    PROVE  \/ QueueStep
           \/ \E l \in Lanes : Writer(l)
           \/ UNCHANGED <<tx_write, early, writer, write_failed, net_out>>
<1> USE DEF callerVars, streamVars, pingVars, srvVars
<1>1. CASE \E c \in Callers : Caller(c)
  <2>1. PICK c \in Callers : Caller(c)
    BY <1>1
  <2>2. CASE CallerQueued(c)
    <3>1. Enqueue("reliable", Request(c)) /\ caller[c] = "queue"
      BY <2>2 DEF CallerQueued
    <3>2. UNCHANGED <<ct, writer, write_failed, net_out>>
      BY <2>2 DEF CallerQueued
    <3>3. QED
      BY <3>1, <3>2, RequestType, ReliableLane DEF QueueStep, TypeInv
  <2>3. CASE CallerRequest(c) \/ CallerFails(c)
    BY <2>3 DEF CallerRequest, CallerFails
  <2>4. QED
    BY <2>1, <2>2, <2>3 DEF Caller
<1>2. CASE \E l \in Lanes : Reader(l) \/ ReaderError(l)
  <2>1. PICK l \in Lanes : Reader(l) \/ ReaderError(l)
    BY <1>2
  <2>2. CASE ReaderPong(l)
    <3>1. Enqueue("reliable", Msg("pong", in_msg[l].id)) /\ in_msg[l].id \in Nat
      BY <2>2 DEF ReaderPong, TypeInv, ReadTypes, Messages
    <3>2. UNCHANGED <<ct, writer, write_failed, net_out>>
      BY <2>2 DEF ReaderPong
    <3>3. Msg("pong", in_msg[l].id) \in Messages /\ Msg("pong", in_msg[l].id).kind = "pong"
      BY <3>1, MsgTypes DEF Msg
    <3>4. QED
      BY <3>1, <3>2, <3>3, ReliableLane DEF QueueStep
  <2>3. CASE ~ReaderPong(l)
    BY <2>1, <2>3 DEF Reader, ReaderCancelled, ReaderCommand, ReaderTake, ReaderResponse,
                      ReaderToPing, ReaderRoute, ReaderError
  <2>4. QED
    BY <2>2, <2>3
<1>3. CASE Ping
  <2>1. CASE PingSend
    <3>1. Enqueue("reliable", Msg("ping", ping_id))
          /\ UNCHANGED <<ct, writer, write_failed, net_out>>
      BY <2>1 DEF PingSend
    <3>2. Msg("ping", ping_id) \in Messages /\ Msg("ping", ping_id).kind = "ping"
      BY MsgTypes DEF Msg, TypeInv, PingTypes
    <3>3. QED
      BY <3>1, <3>2, ReliableLane DEF QueueStep
  <2>2. CASE PingTick \/ PingPong \/ PingEnd
    BY <2>2 DEF PingTick, PingPong, PingEnd
  <2>3. QED
    BY <1>3, <2>1, <2>2 DEF Ping
<1>4. CASE Owner
  <2>1. CASE OwnerDisconnect
    <3>1. Enqueue("reliable", Msg("disconnect", 0))
          /\ UNCHANGED <<ct, writer, write_failed, net_out>>
      BY <2>1 DEF OwnerDisconnect
    <3>2. Msg("disconnect", 0) \in Messages /\ Msg("disconnect", 0).kind = "disconnect"
      BY MsgTypes DEF Msg
    <3>3. QED
      BY <3>1, <3>2, ReliableLane DEF QueueStep
  <2>2. CASE OwnerCannotSend \/ OwnerClose \/ OwnerReturned
    BY <2>2 DEF OwnerCannotSend, OwnerClose, OwnerReturned
  <2>3. QED
    BY <1>4, <2>1, <2>2 DEF Owner
<1>5. CASE SendUnreliable
  <2>1. Enqueue(DatagramLane, Msg("data", datagrams))
        /\ UNCHANGED <<ct, writer, write_failed, net_out>>
    BY <1>5 DEF SendUnreliable
  <2>2. datagrams \in Nat
    BY WireConnAssumption DEF TypeInv, OwnerTypes
  <2>3. Msg("data", datagrams) \in Messages /\ Msg("data", datagrams).kind = "data"
    BY <2>2, MsgTypes DEF Msg
  <2>4. QED
    BY <2>1, <2>3, ReliableLane DEF QueueStep
<1>6. CASE Stream \/ CloserClose
  BY <1>6 DEF Stream, StreamAdd, StreamRead, StreamDrop, CloserClose
<1>7. CASE Server
  BY <1>7 DEF Server, ServerRead, ServerAnswer, ServerSend, ServerSilent
<1>8. CASE UNCHANGED vars
  BY <1>8 DEF vars
<1>9. QED
  BY <1>1, <1>2, <1>3, <1>4, <1>5, <1>6, <1>7, <1>8 DEF Next, Finished


\* What the steps do to the read loops and to the messages on their way.
LEMMA ReadSteps ==
    ASSUME [Next]_vars
    PROVE  \/ \E l \in Lanes : Reader(l) \/ ReaderError(l)
           \/ ServerAnswer \/ ServerSend
           \/ UNCHANGED <<reader, in_msg, net_in, registered>>
<1> USE DEF streamVars
<1>1. CASE \E c \in Callers : Caller(c)
  BY <1>1 DEF Caller, CallerRequest, CallerQueued, CallerFails
<1>2. CASE \E l \in Lanes : Writer(l)
  BY <1>2 DEF Writer, WriterWrite, WriterError, WriterCancelled, WriterEmptied, WriterEnd
<1>3. CASE Ping \/ Owner
  BY <1>3 DEF Ping, PingTick, PingSend, PingPong, PingEnd, Owner, OwnerDisconnect,
              OwnerCannotSend, OwnerClose, OwnerReturned
<1>4. CASE Stream \/ SendUnreliable \/ CloserClose
  BY <1>4 DEF Stream, StreamAdd, StreamRead, StreamDrop, SendUnreliable, CloserClose
<1>5. CASE ServerRead \/ ServerSilent
  BY <1>5 DEF ServerRead, ServerSilent
<1>6. CASE UNCHANGED vars
  BY <1>6 DEF vars
<1>7. QED
  BY <1>1, <1>2, <1>3, <1>4, <1>5, <1>6 DEF Next, Finished, Server

\* What the steps do to the registrations of the streams.
LEMMA StreamSteps ==
    ASSUME [Next]_vars
    PROVE  \/ \E l \in Lanes : \/ ReaderCommand(l) \/ ReaderRoute(l)
                               \/ /\ EndReader(l)
                                  /\ UNCHANGED <<open, stream_chan, adds>>
           \/ StreamAdd \/ \E n \in open : StreamRead(n) \/ StreamDrop(n)
           \/ UNCHANGED streamVars
<1> USE DEF streamVars
<1>1. CASE \E c \in Callers : Caller(c)
  BY <1>1 DEF Caller, CallerRequest, CallerQueued, CallerFails
<1>2. CASE \E l \in Lanes : Writer(l)
  BY <1>2 DEF Writer, WriterWrite, WriterError, WriterCancelled, WriterEmptied, WriterEnd
<1>3. CASE \E l \in Lanes : Reader(l) \/ ReaderError(l)
  BY <1>3 DEF Reader, ReaderCancelled, ReaderTake, ReaderResponse, ReaderPong, ReaderToPing,
              ReaderError
<1>4. CASE Ping \/ Owner
  BY <1>4 DEF Ping, PingTick, PingSend, PingPong, PingEnd, Owner, OwnerDisconnect,
              OwnerCannotSend, OwnerClose, OwnerReturned
<1>5. CASE SendUnreliable \/ CloserClose
  BY <1>5 DEF SendUnreliable, CloserClose
<1>6. CASE Server
  BY <1>6 DEF Server, ServerRead, ServerAnswer, ServerSend, ServerSilent
<1>7. CASE UNCHANGED vars
  BY <1>7 DEF vars
<1>8. QED
  BY <1>1, <1>2, <1>3, <1>4, <1>5, <1>6, <1>7 DEF Next, Finished, Stream

\* What the steps do to the ping loop, the closer and the owner.
LEMMA TaskSteps ==
    ASSUME [Next]_vars
    PROVE  \/ Ping \/ Owner \/ CloserClose \/ SendUnreliable
           \/ \E l \in Lanes : ReaderToPing(l)
           \/ UNCHANGED <<pingVars, closer, owner, datagrams>>
<1> USE DEF pingVars
<1>1. CASE \E c \in Callers : Caller(c)
  BY <1>1 DEF Caller, CallerRequest, CallerQueued, CallerFails
<1>2. CASE \E l \in Lanes : Writer(l)
  BY <1>2 DEF Writer, WriterWrite, WriterError, WriterCancelled, WriterEmptied, WriterEnd
<1>3. CASE \E l \in Lanes : Reader(l) \/ ReaderError(l)
  BY <1>3 DEF Reader, ReaderCancelled, ReaderCommand, ReaderTake, ReaderResponse, ReaderPong,
              ReaderRoute, ReaderError
<1>4. CASE Stream
  BY <1>4 DEF Stream, StreamAdd, StreamRead, StreamDrop
<1>5. CASE Server
  BY <1>5 DEF Server, ServerRead, ServerAnswer, ServerSend, ServerSilent
<1>6. CASE UNCHANGED vars
  BY <1>6 DEF vars
<1>7. QED
  BY <1>1, <1>2, <1>3, <1>4, <1>5, <1>6 DEF Next, Finished

\* What the steps do to the server.
LEMMA ServerSteps ==
    ASSUME [Next]_vars
    PROVE  Server \/ UNCHANGED srvVars
<1> USE DEF srvVars
<1>1. CASE \E c \in Callers : Caller(c)
  BY <1>1 DEF Caller, CallerRequest, CallerQueued, CallerFails
<1>2. CASE \E l \in Lanes : Writer(l)
  BY <1>2 DEF Writer, WriterWrite, WriterError, WriterCancelled, WriterEmptied, WriterEnd
<1>3. CASE \E l \in Lanes : Reader(l) \/ ReaderError(l)
  BY <1>3 DEF Reader, ReaderCancelled, ReaderCommand, ReaderTake, ReaderResponse, ReaderPong,
              ReaderToPing, ReaderRoute, ReaderError
<1>4. CASE Ping \/ Owner
  BY <1>4 DEF Ping, PingTick, PingSend, PingPong, PingEnd, Owner, OwnerDisconnect,
              OwnerCannotSend, OwnerClose, OwnerReturned
<1>5. CASE Stream \/ SendUnreliable \/ CloserClose
  BY <1>5 DEF Stream, StreamAdd, StreamRead, StreamDrop, SendUnreliable, CloserClose
<1>6. CASE UNCHANGED vars
  BY <1>6 DEF vars
<1>7. QED
  BY <1>1, <1>2, <1>3, <1>4, <1>5, <1>6 DEF Next, Finished

\* Cancellation is for ever.
LEMMA FlagStep == TypeInv /\ [Next]_vars => FlagTypes' /\ (ct => ct')
<1> SUFFICES ASSUME TypeInv, [Next]_vars PROVE FlagTypes' /\ (ct => ct')
  OBVIOUS
<1> USE DEF streamVars, srvVars, callerVars, pingVars
<1>0. ct \in BOOLEAN /\ silent \in BOOLEAN
  BY DEF TypeInv, FlagTypes
<1>1. ct' = ct \/ ct' = TRUE
  <2>1. CASE \E c \in Callers : Caller(c)
    BY <2>1 DEF Caller, CallerRequest, CallerQueued, CallerFails
  <2>2. CASE \E l \in Lanes : Writer(l)
    BY <2>2 DEF Writer, WriterWrite, WriterError, WriterCancelled, WriterEmptied, WriterEnd
  <2>3. CASE \E l \in Lanes : Reader(l) \/ ReaderError(l)
    BY <2>3 DEF Reader, ReaderCancelled, ReaderCommand, ReaderTake, ReaderResponse, ReaderPong,
                ReaderToPing, ReaderRoute, ReaderError, EndReader
  <2>4. CASE Ping \/ Owner
    BY <2>4 DEF Ping, PingTick, PingSend, PingPong, PingEnd, Owner, OwnerDisconnect,
                OwnerCannotSend, OwnerClose, OwnerReturned
  <2>5. CASE Stream \/ SendUnreliable \/ CloserClose
    BY <2>5 DEF Stream, StreamAdd, StreamRead, StreamDrop, SendUnreliable, CloserClose
  <2>6. CASE Server
    BY <2>6 DEF Server, ServerRead, ServerAnswer, ServerSend, ServerSilent
  <2>7. CASE UNCHANGED vars
    BY <2>7 DEF vars
  <2>8. QED
    BY <2>1, <2>2, <2>3, <2>4, <2>5, <2>6, <2>7 DEF Next, Finished
<1>2. silent' = silent \/ silent' = TRUE
  BY ServerSteps DEF Server, ServerRead, ServerAnswer, ServerSend, ServerSilent
<1>3. ct' \in BOOLEAN /\ (ct => ct')
  BY <1>0, <1>1, Zenon
<1>4. silent' \in BOOLEAN
  BY <1>0, <1>2, Zenon
<1>5. QED
  BY <1>3, <1>4 DEF FlagTypes

\* The callers keep their types, and an id is drawn with the request.
LEMMA CallerTypesStep == TypeInv /\ [Next]_vars => CallerTypes'
<1> SUFFICES ASSUME TypeInv, [Next]_vars PROVE CallerTypes'
  OBVIOUS
<1>0. CallerTypes /\ MaxId \in Nat /\ request_id_counter \in Nat
  BY WireConnAssumption DEF TypeInv, CallerTypes
<1> USE DEF CallerTypes, IdsDrawn
<1>1. CASE \E c \in Callers : CallerRequest(c)
  <2>1. PICK c \in Callers : CallerRequest(c)
    BY <1>1
  <2>2. /\ request_id_counter' \in 0 .. MaxId + 2
        /\ response_senders' \subseteq Nat \X Callers
        /\ answer' = answer
    BY <1>0, <2>1 DEF CallerRequest, DrawId
  <2>3. /\ caller' = [caller EXCEPT ![c] = "queue"]
        /\ request_id' = [request_id EXCEPT ![c] = request_id_counter]
    BY <2>1 DEF CallerRequest
  <2>4. /\ caller' \in [Callers -> {"idle", "queue", "wait", "ok", "failed"}]
        /\ request_id' \in [Callers -> Nat \cup {-1}]
    BY <1>0, <2>3
  <2>5. IdsDrawn'
    BY <1>0, <2>3
  <2>6. QED
    BY <1>0, <2>2, <2>4, <2>5
<1>2. CASE \E c \in Callers : CallerQueued(c) \/ CallerFails(c)
  BY <1>0, <1>2 DEF CallerQueued, CallerFails
<1>3. CASE \E l \in Lanes : ReaderResponse(l)
  <2>1. PICK l \in Lanes : ReaderResponse(l)
    BY <1>3
  <2>2. PICK r \in {"ok", "failed"}, to \in SUBSET Callers :
          /\ \A c \in to : caller[c] = "wait"
          /\ caller' = [c \in Callers |-> IF c \in to THEN r ELSE caller[c]]
          /\ answer' = [c \in Callers |-> IF c \in to THEN Head(net_in[l]).by ELSE answer[c]]
    <3> DEFINE to == {c \in Callers : /\ <<Head(net_in[l]).id, c>> \in response_senders
                                      /\ caller[c] = "wait"}
    <3>1. to \in SUBSET Callers /\ \A c \in to : caller[c] = "wait"
      OBVIOUS
    <3>2. answer' = [c \in Callers |-> IF c \in to THEN Head(net_in[l]).by ELSE answer[c]]
      BY <2>1, Zenon DEF ReaderResponse
    <3>3. \E r \in {"ok", "failed"} :
            caller' = [c \in Callers |-> IF c \in to THEN r ELSE caller[c]]
      BY <2>1, Zenon DEF ReaderResponse
    <3>4. QED
      BY <3>1, <3>2, <3>3
  <2>3. Head(net_in[l]) \in Messages
    BY <2>1 DEF ReaderResponse, TypeInv, ReadTypes
  <2>4. Head(net_in[l]).by \in Callers \cup {"none"}
    BY <2>3 DEF Messages
  <2>5. /\ UNCHANGED <<request_id_counter, request_id>>
        /\ response_senders' \subseteq response_senders
    BY <2>1 DEF ReaderResponse
  <2>6. /\ caller' \in [Callers -> {"idle", "queue", "wait", "ok", "failed"}]
        /\ answer' \in [Callers -> Callers \cup {"none"}]
    BY <1>0, <2>2, <2>4
  <2>7. \A c \in Callers : (caller'[c] = "idle") <=> (caller[c] = "idle")
    BY <2>2
  <2>8. QED
    BY <1>0, <2>5, <2>6, <2>7
<1>4. CASE PingTick
  BY <1>0, <1>4 DEF PingTick, DrawId
<1>5. CASE UNCHANGED callerVars
  BY <1>0, <1>5 DEF callerVars
<1>6. QED
  BY <1>1, <1>2, <1>3, <1>4, <1>5, CallerSteps

\* The write queues keep their types and their bound.
LEMMA WriteTypesStep == TypeInv /\ [Next]_vars => WriteTypes'
<1> SUFFICES ASSUME TypeInv, [Next]_vars PROVE WriteTypes'
  OBVIOUS
<1>0. WriteTypes /\ ChannelSize \in Nat
  BY WireConnAssumption DEF TypeInv
<1> USE DEF WriteTypes
<1>1. CASE QueueStep
  <2>1. PICK l \in Lanes, m \in Messages :
          Enqueue(l, m) /\ UNCHANGED <<writer, write_failed>>
    BY <1>1 DEF QueueStep
  <2>2. /\ Len(tx_write[l]) < ChannelSize
        /\ tx_write' = [tx_write EXCEPT ![l] = Append(@, m)]
        /\ early' = early \/ early' = [early EXCEPT ![l] = @ \cup {m}]
    BY <2>1 DEF Enqueue
  <2>3. tx_write[l] \in Seq(Messages) /\ Append(tx_write[l], m) \in Seq(Messages)
        /\ Len(Append(tx_write[l], m)) = Len(tx_write[l]) + 1
    BY <1>0
  <2>4. /\ tx_write' \in [Lanes -> Seq(Messages)]
        /\ \A k \in Lanes : Len(tx_write'[k]) <= ChannelSize
    BY <1>0, <2>2, <2>3
  <2>5. early' \in [Lanes -> SUBSET Messages]
    BY <1>0, <2>2
  <2>6. QED
    BY <1>0, <2>1, <2>4, <2>5
<1>2. CASE \E l \in Lanes : Writer(l)
  <2>1. PICK l \in Lanes : Writer(l)
    BY <1>2
  <2>2. /\ early' = early
        /\ write_failed' \subseteq write_failed \cup {l}
        /\ \/ writer' = writer
           \/ \E w \in {"drain", "emptied", "ended"} : writer' = [writer EXCEPT ![l] = w]
        /\ \/ tx_write' = tx_write
           \/ tx_write' = [tx_write EXCEPT ![l] = <<>>]
           \/ tx_write[l] # <<>> /\ tx_write' = [tx_write EXCEPT ![l] = Tail(@)]
    BY <2>1 DEF Writer, WriterWrite, WriteHead, WriterError, WriterCancelled, WriterEmptied,
                WriterEnd
  <2>3. writer' \in [Lanes -> {"run", "drain", "emptied", "ended"}]
    BY <1>0, <2>2
  <2>4. tx_write[l] \in Seq(Messages) /\ Len(tx_write[l]) \in Nat
        /\ (tx_write[l] # <<>> => /\ Tail(tx_write[l]) \in Seq(Messages)
                                  /\ Len(Tail(tx_write[l])) <= Len(tx_write[l]))
    BY <1>0
  <2>5. /\ tx_write' \in [Lanes -> Seq(Messages)]
        /\ \A k \in Lanes : Len(tx_write'[k]) <= ChannelSize
    <3>1. CASE tx_write' = tx_write
      BY <1>0, <3>1
    <3>2. CASE tx_write' = [tx_write EXCEPT ![l] = <<>>]
      BY <1>0, <3>2
    <3>3. CASE tx_write[l] # <<>> /\ tx_write' = [tx_write EXCEPT ![l] = Tail(@)]
      <4>1. Tail(tx_write[l]) \in Seq(Messages) /\ Len(Tail(tx_write[l])) <= ChannelSize
        BY <1>0, <2>4, <3>3
      <4>2. QED
        BY <1>0, <3>3, <4>1
    <3>4. QED
      BY <2>2, <3>1, <3>2, <3>3
  <2>6. QED
    BY <1>0, <2>2, <2>3, <2>5
<1>3. CASE UNCHANGED <<tx_write, early, writer, write_failed, net_out>>
  BY <1>0, <1>3
<1>4. QED
  BY <1>1, <1>2, <1>3, WriteSteps

\* Only a write loop writes.
LEMMA OutSteps ==
    ASSUME TypeInv, [Next]_vars
    PROVE  \/ net_out' = net_out
           \/ \E l \in Lanes : /\ writer[l] \in {"run", "drain"} /\ tx_write[l] # <<>>
                               /\ net_out' = [net_out EXCEPT ![l] = Append(@, Head(tx_write[l]))]
<1>1. CASE \E l \in Lanes : Writer(l)
  BY <1>1 DEF Writer, WriterWrite, WriteHead, WriterError, WriterCancelled, WriterEmptied,
              WriterEnd
<1>2. QED
  BY <1>1, WriteSteps DEF QueueStep

\* What is written keeps its type; the server never reads past its end.
LEMMA NetTypesStep == TypeInv /\ [Next]_vars => NetTypes'
<1> SUFFICES ASSUME TypeInv, [Next]_vars PROVE NetTypes'
  OBVIOUS
<1>0. NetTypes /\ WriteTypes /\ "reliable" \in Lanes /\ MaxServer \in Nat
  BY WireConnAssumption DEF TypeInv
<1> USE DEF NetTypes
<1>1. /\ net_out' \in [Lanes -> Seq(Messages)]
      /\ Len(net_out["reliable"]) <= Len(net_out'["reliable"])
  <2>1. CASE net_out' = net_out
    BY <1>0, <2>1
  <2>2. CASE \E l \in Lanes : /\ tx_write[l] # <<>>
                              /\ net_out' = [net_out EXCEPT ![l] = Append(@, Head(tx_write[l]))]
    <3>1. PICK l \in Lanes : /\ tx_write[l] # <<>>
                             /\ net_out' = [net_out EXCEPT ![l] = Append(@, Head(tx_write[l]))]
      BY <2>2
    <3>2. Head(tx_write[l]) \in Messages
      BY <1>0, <3>1 DEF WriteTypes
    <3>3. /\ Append(net_out[l], Head(tx_write[l])) \in Seq(Messages)
          /\ Len(Append(net_out[l], Head(tx_write[l]))) = Len(net_out[l]) + 1
          /\ Len(net_out[l]) \in Nat
      BY <1>0, <3>2
    <3>4. QED
      BY <1>0, <3>1, <3>3
  <2>3. QED
    BY <2>1, <2>2, OutSteps
<1>2. Len(net_out["reliable"]) \in Nat /\ Len(net_out'["reliable"]) \in Nat
  BY <1>0, <1>1
<1>3. /\ srv_pos' \in 0 .. Len(net_out["reliable"])
      /\ srv_pending' \subseteq Messages /\ srv_sent' \in 0 .. MaxServer
  <2>1. CASE ServerRead
    <3>1. srv_pos + 1 \in 1 .. Len(net_out["reliable"])
      BY <1>0, <1>2, <2>1 DEF ServerRead
    <3>2. net_out["reliable"][srv_pos + 1] \in Messages
      BY <1>0, <3>1
    <3>3. QED
      BY <1>0, <2>1, <3>1, <3>2 DEF ServerRead
  <2>2. CASE ServerAnswer \/ ServerSilent
    BY <1>0, <2>2 DEF ServerAnswer, ServerSilent
  <2>3. CASE ServerSend
    BY <1>0, <2>3 DEF ServerSend
  <2>4. QED
    BY <1>0, <2>1, <2>2, <2>3, ServerSteps DEF Server, srvVars
<1>4. QED
  BY <1>1, <1>2, <1>3

\* The read loops keep their types.
LEMMA ReadTypesStep == TypeInv /\ [Next]_vars => ReadTypes'
<1> SUFFICES ASSUME TypeInv, [Next]_vars PROVE ReadTypes'
  OBVIOUS
<1>0. ReadTypes /\ "reliable" \in Lanes
  BY WireConnAssumption DEF TypeInv
<1> USE DEF ReadTypes
<1>1. CASE \E l \in Lanes : Reader(l) \/ ReaderError(l)
  <2>1. PICK l \in Lanes : Reader(l) \/ ReaderError(l)
    BY <1>1
  <2>2. /\ net_in[l] \in Seq(Messages)
        /\ net_in[l] # <<>> => Head(net_in[l]) \in Messages /\ Tail(net_in[l]) \in Seq(Messages)
        /\ NoMsg \in Messages
    BY <1>0, MsgTypes
  <2>3. CASE ReaderCancelled(l) \/ ReaderError(l)
    <3>1. /\ reader' = [reader EXCEPT ![l] = "ended"]
          /\ in_msg' = [in_msg EXCEPT ![l] = NoMsg]
          /\ net_in' = [net_in EXCEPT ![l] = <<>>]
      BY <2>3 DEF ReaderCancelled, ReaderError, EndReader
    <3>2. <<>> \in Seq(Messages)
      OBVIOUS
    <3>3. QED
      BY <1>0, <2>2, <3>1, <3>2
  <2>4. CASE ReaderTake(l)
    BY <1>0, <2>2, <2>4 DEF ReaderTake, BusyWith
  <2>5. CASE ReaderResponse(l)
    BY <1>0, <2>2, <2>5 DEF ReaderResponse
  <2>6. CASE ReaderCommand(l) \/ ReaderPong(l) \/ ReaderToPing(l) \/ ReaderRoute(l)
    BY <1>0, <2>2, <2>6 DEF ReaderCommand, ReaderPong, ReaderToPing, ReaderRoute, BusyWith
  <2>7. QED
    BY <2>1, <2>3, <2>4, <2>5, <2>6 DEF Reader
<1>2. CASE ServerAnswer
  <2>1. PICK m \in srv_pending :
          /\ m.kind \in {"request", "ping"}
          /\ net_in' = [net_in EXCEPT !["reliable"] =
               Append(@, [m EXCEPT !.kind = IF @ = "ping" THEN "pong" ELSE "response"])]
    BY <1>2 DEF ServerAnswer
  <2>2. m \in Messages
    BY DEF TypeInv, NetTypes
  <2>3. [m EXCEPT !.kind = IF @ = "ping" THEN "pong" ELSE "response"] \in Messages
    BY <2>2 DEF Messages
  <2>4. net_in' \in [Lanes -> Seq(Messages)]
    BY <1>0, <2>1, <2>3
  <2>5. QED
    BY <1>0, <1>2, <2>4 DEF ServerAnswer
<1>3. CASE ServerSend
  <2>1. PICK l \in Lanes, kind \in {"ping", "stream"} :
          net_in' = [net_in EXCEPT ![l] = Append(@, Msg(kind, 2 * srv_sent + 1))]
    BY <1>3 DEF ServerSend
  <2>2. 2 * srv_sent + 1 \in Nat
    BY WireConnAssumption DEF TypeInv, NetTypes
  <2>3. Msg(kind, 2 * srv_sent + 1) \in Messages
    BY <2>2, MsgTypes
  <2>4. net_in' \in [Lanes -> Seq(Messages)]
    BY <1>0, <2>1, <2>3
  <2>5. QED
    BY <1>0, <1>3, <2>4 DEF ServerSend
<1>4. CASE UNCHANGED <<reader, in_msg, net_in, registered>>
  BY <1>0, <1>4
<1>5. QED
  BY <1>1, <1>2, <1>3, <1>4, ReadSteps

\* A command goes to the loops that have not ended.
LEMMA CommandType ==
    ASSUME StreamTypes, NEW cmd \in 0 .. MaxAdds, Command(cmd)
    PROVE  commands' \in [Lanes -> Seq(0 .. MaxAdds)]
<1>1. \A l \in Lanes : /\ commands[l] \in Seq(0 .. MaxAdds)
                       /\ Append(commands[l], cmd) \in Seq(0 .. MaxAdds)
  BY SeqOps, Zenon DEF StreamTypes
<1>2. commands' = [l \in Lanes |-> IF reader[l] = "ended" THEN commands[l]
                                                        ELSE Append(commands[l], cmd)]
  BY DEF Command
<1>3. \A l \in Lanes : commands'[l] = commands[l] \/ commands'[l] = Append(commands[l], cmd)
  BY <1>2
<1>4. \A l \in Lanes : commands'[l] \in Seq(0 .. MaxAdds)
  BY <1>1, <1>3, Zenon
<1>5. QED
  BY <1>2, <1>4, Zenon

\* The registration keeps its types, and the stream's channel its bound.
LEMMA StreamTypesStep == TypeInv /\ [Next]_vars => StreamTypes'
<1> SUFFICES ASSUME TypeInv, [Next]_vars PROVE StreamTypes'
  OBVIOUS
<1>0. StreamTypes /\ MaxAdds \in Nat /\ ChannelSize \in Nat /\ 0 \in 0 .. MaxAdds
  BY WireConnAssumption DEF TypeInv
<1> USE DEF StreamTypes
<1>1. CASE \E l \in Lanes : ReaderCommand(l)
  <2>1. PICK l \in Lanes : ReaderCommand(l)
    BY <1>1
  <2>2. commands[l] \in Seq(0 .. MaxAdds) /\ commands[l] # <<>>
    BY <1>0, <2>1 DEF ReaderCommand
  <2>3. Head(commands[l]) \in 0 .. MaxAdds /\ Tail(commands[l]) \in Seq(0 .. MaxAdds)
    BY <2>2, SeqOps, Zenon
  <2>4. QED
    BY <1>0, <2>1, <2>3 DEF ReaderCommand
<1>2. CASE \E l \in Lanes : ReaderRoute(l)
  <2>1. PICK l \in Lanes : ReaderRoute(l)
    BY <1>2
  <2>2. stream_chan' \in [1 .. MaxAdds -> 0 .. ChannelSize]
    BY <1>0, <2>1 DEF ReaderRoute, Receives
  <2>3. QED
    BY <1>0, <2>1, <2>2 DEF ReaderRoute
<1>3. CASE \E l \in Lanes : EndReader(l) /\ UNCHANGED <<open, stream_chan, adds>>
  <2>1. PICK l \in Lanes : EndReader(l) /\ UNCHANGED <<open, stream_chan, adds>>
    BY <1>3
  <2>2. <<>> \in Seq(0 .. MaxAdds)
    OBVIOUS
  <2>3. QED
    BY <1>0, <2>1, <2>2 DEF EndReader
<1>4. CASE StreamAdd
  <2>1. adds + 1 \in 0 .. MaxAdds /\ open' \subseteq 1 .. adds'
    BY <1>0, <1>4 DEF StreamAdd
  <2>2. Command(adds + 1)
    BY <1>4 DEF StreamAdd
  <2>3. commands' \in [Lanes -> Seq(0 .. MaxAdds)]
    BY <1>0, <2>1, <2>2, CommandType
  <2>4. QED
    BY <1>0, <1>4, <2>1, <2>3 DEF StreamAdd
<1>5. CASE \E n \in open : StreamDrop(n)
  <2>1. PICK n \in open : StreamDrop(n)
    BY <1>5
  <2>2. Command(0)
    BY <2>1 DEF StreamDrop
  <2>3. commands' \in [Lanes -> Seq(0 .. MaxAdds)]
    BY <1>0, <2>2, CommandType
  <2>4. stream_chan' \in [1 .. MaxAdds -> 0 .. ChannelSize] /\ open' \subseteq 1 .. adds
    BY <1>0, <2>1 DEF StreamDrop
  <2>5. QED
    BY <1>0, <2>1, <2>3, <2>4 DEF StreamDrop
<1>6. CASE \E n \in open : StreamRead(n)
  <2>1. PICK n \in open : StreamRead(n)
    BY <1>6
  <2>2. stream_chan' \in [1 .. MaxAdds -> 0 .. ChannelSize]
    BY <1>0, <2>1 DEF StreamRead
  <2>3. QED
    BY <1>0, <2>1, <2>2 DEF StreamRead
<1>7. CASE UNCHANGED streamVars
  BY <1>0, <1>7 DEF streamVars
<1>8. QED
  BY <1>1, <1>2, <1>3, <1>4, <1>5, <1>6, <1>7, StreamSteps

\* The ping loop, the closer and the owner keep their types.
LEMMA TaskTypesStep == TypeInv /\ [Next]_vars => PingTypes' /\ OwnerTypes'
<1> SUFFICES ASSUME TypeInv, [Next]_vars PROVE PingTypes' /\ OwnerTypes'
  OBVIOUS
<1>0. /\ PingTypes /\ OwnerTypes /\ ChannelSize \in Nat /\ MaxDatagrams \in Nat
      /\ request_id_counter \in Nat
  BY WireConnAssumption DEF TypeInv, CallerTypes
<1> USE DEF PingTypes, OwnerTypes
<1>1. CASE Ping
  <2>1. CASE PingPong
    <3>1. Tail(rx_pong) \in Seq(Nat) /\ Len(Tail(rx_pong)) <= ChannelSize
      BY <1>0, <2>1 DEF PingPong
    <3>2. ping' \in {"sleep", "wait"}
      BY <2>1 DEF PingPong
    <3>3. QED
      BY <1>0, <2>1, <3>1, <3>2 DEF PingPong
  <2>2. CASE PingTick \/ PingSend
    BY <1>0, <2>2 DEF PingTick, PingSend
  <2>3. CASE PingEnd
    <3>1. rx_pong' = <<>> /\ rx_pong' \in Seq(Nat) /\ Len(rx_pong') <= ChannelSize
      BY <1>0, <2>3 DEF PingEnd
    <3>2. QED
      BY <1>0, <2>3, <3>1 DEF PingEnd
  <2>4. QED
    BY <1>1, <2>1, <2>2, <2>3 DEF Ping
<1>2. CASE Owner \/ CloserClose \/ SendUnreliable
  <2>1. UNCHANGED pingVars
    BY <1>2 DEF Owner, OwnerDisconnect, OwnerCannotSend, OwnerClose, OwnerReturned, CloserClose,
                SendUnreliable
  <2>2. owner' \in {"run", "close", "wait", "returned", "skipped"}
    BY <1>0, <1>2 DEF Owner, OwnerDisconnect, OwnerCannotSend, OwnerClose, OwnerReturned,
                      CloserClose, SendUnreliable
  <2>3. closer' \in {"wait", "closed"} /\ datagrams' \in 0 .. MaxDatagrams
    BY <1>0, <1>2 DEF Owner, OwnerDisconnect, OwnerCannotSend, OwnerClose, OwnerReturned,
                      CloserClose, SendUnreliable
  <2>4. QED
    BY <1>0, <2>1, <2>2, <2>3 DEF pingVars
<1>3. CASE \E l \in Lanes : ReaderToPing(l)
  <2>1. PICK l \in Lanes : ReaderToPing(l)
    BY <1>3
  <2>2. in_msg[l].id \in Nat
    BY DEF TypeInv, ReadTypes, Messages
  <2>3. QED
    BY <1>0, <2>1, <2>2 DEF ReaderToPing
<1>4. CASE UNCHANGED <<pingVars, closer, owner, datagrams>>
  BY <1>0, <1>4 DEF pingVars
<1>5. QED
  BY <1>1, <1>2, <1>3, <1>4, TaskSteps

\* The types hold at the start.
LEMMA TypeInvInit == Init => TypeInv
<1> SUFFICES ASSUME Init PROVE TypeInv
  OBVIOUS
<1> USE WireConnAssumption, MsgTypes, ReliableLane DEF Init
<1>1. CallerTypes
  BY DEF CallerTypes, IdsDrawn
<1>2. WriteTypes /\ NetTypes
  BY DEF WriteTypes, NetTypes
<1>3. ReadTypes /\ StreamTypes
  BY DEF ReadTypes, StreamTypes
<1>4. PingTypes /\ OwnerTypes
  BY DEF PingTypes, OwnerTypes
<1>5. FlagTypes
  BY Zenon DEF FlagTypes
<1>6. QED
  BY <1>1, <1>2, <1>3, <1>4, <1>5 DEF TypeInv

\* Every step keeps the types.
LEMMA TypeInvStep == TypeInv /\ [Next]_vars => TypeInv'
  BY CallerTypesStep, WriteTypesStep, NetTypesStep, ReadTypesStep, StreamTypesStep,
     TaskTypesStep, FlagStep DEF TypeInv

\* The types hold always.
LEMMA AlwaysTyped == Spec => []TypeInv
  BY TypeInvInit, TypeInvStep, PTL DEF Spec

\* Every variable keeps its type; the bounded channels (the write queues, the
\* pongs, the stream's own) never hold more than their size.
THEOREM TypeCorrect == Spec => []TypeOK
<1>1. TypeInv => TypeOK
  <2> SUFFICES ASSUME TypeInv PROVE TypeOK
    OBVIOUS
  <2>1. {ct, silent} \subseteq BOOLEAN
    BY DEF TypeInv, FlagTypes
  <2>2. \A l \in Lanes :
          /\ tx_write[l] \in Seq(Messages) /\ Len(tx_write[l]) <= ChannelSize
          /\ net_in[l] \in Seq(Messages) /\ net_out[l] \in Seq(Messages)
          /\ commands[l] \in Seq(0 .. MaxAdds)
          /\ early[l] \subseteq Messages
    BY DEF TypeInv, WriteTypes, ReadTypes, NetTypes, StreamTypes
  <2>3. QED
    BY <2>1, <2>2, Zenon DEF TypeOK, TypeInv, CallerTypes, WriteTypes, NetTypes, ReadTypes,
                             StreamTypes, PingTypes, OwnerTypes
<1>2. QED
  BY <1>1, AlwaysTyped, PTL

-----------------------------------------------------------------------------
(* A response reaches the caller of its request *)

\* A sender is registered under the id of its caller's request.
SendersOwn == \A p \in response_senders : request_id[p[2]] = p[1]

\* No id is drawn twice.
IdsDistinct ==
    /\ \A c \in Callers : request_id[c] < request_id_counter
    /\ \A c, d \in Callers : c # d /\ request_id[c] = request_id[d] => request_id[c] = -1

\* A request, and the response to it, carries the id of the caller's request.
Own(m) == m.kind \in {"request", "response"} =>
              m.by \in Callers /\ m.id = request_id[m.by]

\* So do all of them, wherever they are on the way to the server and back.
MessagesOwn ==
    /\ \A l \in Lanes :
        \A m \in Range(tx_write[l]) \cup Range(net_out[l]) \cup Range(net_in[l]) : Own(m)
    /\ \A m \in srv_pending : Own(m)

OwnInv == SendersOwn /\ IdsDistinct /\ MessagesOwn /\ OwnResponse

-----------------------------------------------------------------------------
(* What is queued is written *)

\* A message that was queued before the cancellation is written, or waits in the
\* queue of a loop that will look into it again.
EarlyKept ==
    \A l \in Lanes \ write_failed : \A m \in early[l] :
        \/ m \in Range(net_out[l])
        \/ writer[l] \in {"run", "drain"} /\ m \in Range(tx_write[l])

\* A write loop leaves its loop when the connection is cancelled, not before.
WriterStopsCancelled == \A l \in Lanes : writer[l] # "run" => ct

WrittenInv == EarlyKept /\ WriterStopsCancelled

\* The transport is closed when the loops that hold waiter_rw have ended, and
\* close() returns when the closer and the others have.
EndInv == /\ closer = "closed" => ReadWriteEnded
          /\ owner = "returned" => AllEnded

-----------------------------------------------------------------------------
(* The read loops route to the stream that has the alias *)

\* Where a read loop will route when it has processed its commands.
Target(l) == IF commands[l] = <<>> THEN registered[l] ELSE commands[l][Len(commands[l])]

Current == IF adds \in open THEN adds ELSE 0

RouteInv == /\ open \subseteq {adds}
            /\ \A l \in Lanes : reader[l] # "ended" => Target(l) = Current

-----------------------------------------------------------------------------
(* The proofs *)

\* The write queues and what is written hold nothing but messages that are
\* queued or were in them before.
LEMMA OutRange ==
    ASSUME TypeInv, [Next]_vars
    PROVE  \A l \in Lanes :
             /\ Range(net_out'[l]) \subseteq Range(net_out[l]) \cup Range(tx_write[l])
             /\ Range(net_out[l]) \subseteq Range(net_out'[l])
<1>1. WriteTypes /\ NetTypes
  BY DEF TypeInv
<1>2. CASE net_out' = net_out
  BY <1>2
<1>3. CASE \E l \in Lanes : /\ tx_write[l] # <<>>
                            /\ net_out' = [net_out EXCEPT ![l] = Append(@, Head(tx_write[l]))]
  <2>1. PICK l \in Lanes : /\ tx_write[l] # <<>>
                           /\ net_out' = [net_out EXCEPT ![l] = Append(@, Head(tx_write[l]))]
    BY <1>3
  <2>2. tx_write[l] \in Seq(Messages) /\ net_out[l] \in Seq(Messages)
    BY <1>1 DEF WriteTypes, NetTypes
  <2>3. Head(tx_write[l]) \in Messages
    BY <2>1, <2>2, SeqOps
  <2>4. /\ Range(Append(net_out[l], Head(tx_write[l]))) = Range(net_out[l]) \cup {Head(tx_write[l])}
        /\ Head(tx_write[l]) \in Range(tx_write[l])
    BY <2>1, <2>2, <2>3, SeqRange
  <2>5. /\ net_out'[l] = Append(net_out[l], Head(tx_write[l]))
        /\ \A k \in Lanes : k # l => net_out'[k] = net_out[k]
    BY <1>1, <2>1 DEF NetTypes
  <2>6. QED
    BY <2>4, <2>5
<1>4. QED
  BY <1>2, <1>3, OutSteps

\* A message that is new in a write queue is no response, and a request only if
\* a caller queues it.
LEMMA QueueRange ==
    ASSUME TypeInv, [Next]_vars
    PROVE  \A l \in Lanes : \A m \in Range(tx_write'[l]) :
             \/ m \in Range(tx_write[l])
             \/ m \in Messages /\ (m.kind \in {"request", "response"} =>
                    \E c \in Callers : caller[c] = "queue" /\ m = Request(c))
<1>1. WriteTypes
  BY DEF TypeInv
<1>2. CASE QueueStep
  <2>1. PICK l \in Lanes, m \in Messages :
          /\ Enqueue(l, m)
          /\ m.kind \in {"request", "response"} =>
               \E c \in Callers : caller[c] = "queue" /\ m = Request(c)
    BY <1>2 DEF QueueStep
  <2>2. /\ tx_write'[l] = Append(tx_write[l], m)
        /\ \A k \in Lanes : k # l => tx_write'[k] = tx_write[k]
    BY <1>1, <2>1 DEF Enqueue, WriteTypes
  <2>3. Range(Append(tx_write[l], m)) = Range(tx_write[l]) \cup {m}
    BY <1>1, SeqRange DEF WriteTypes
  <2>4. QED
    BY <2>1, <2>2, <2>3
<1>3. CASE \E l \in Lanes : Writer(l)
  <2>1. PICK l \in Lanes : Writer(l)
    BY <1>3
  <2>2. \/ tx_write' = tx_write
        \/ tx_write' = [tx_write EXCEPT ![l] = <<>>]
        \/ tx_write[l] # <<>> /\ tx_write' = [tx_write EXCEPT ![l] = Tail(@)]
    BY <2>1 DEF Writer, WriterWrite, WriteHead, WriterError, WriterCancelled, WriterEmptied,
                WriterEnd
  <2>3. /\ \/ tx_write'[l] \in {tx_write[l], <<>>}
           \/ tx_write[l] # <<>> /\ tx_write'[l] = Tail(tx_write[l])
        /\ \A k \in Lanes : k # l => tx_write'[k] = tx_write[k]
    BY <1>1, <2>2 DEF WriteTypes
  <2>4. /\ Range(<<>>) = {}
        /\ tx_write[l] # <<>> => Range(Tail(tx_write[l])) \subseteq Range(tx_write[l])
    BY <1>1, SeqRange DEF WriteTypes
  <2>5. QED
    BY <2>3, <2>4
<1>4. QED
  BY <1>2, <1>3, WriteSteps

\* A message that is new on its way to a read loop answers a request that the
\* server has, if it is a response.
LEMMA InRange ==
    ASSUME TypeInv, [Next]_vars
    PROVE  \A l \in Lanes : \A m \in Range(net_in'[l]) :
             \/ m \in Range(net_in[l])
             \/ m.kind \notin {"request", "response"}
             \/ \E r \in srv_pending : r.kind = "request" /\ m.id = r.id /\ m.by = r.by
<1>1. ReadTypes /\ "reliable" \in Lanes
  BY ReliableLane DEF TypeInv
<1>2. CASE \E l \in Lanes : Reader(l) \/ ReaderError(l)
  <2>1. PICK l \in Lanes : Reader(l) \/ ReaderError(l)
    BY <1>2
  <2>2. \/ net_in' = net_in
        \/ net_in' = [net_in EXCEPT ![l] = <<>>]
        \/ net_in[l] # <<>> /\ net_in' = [net_in EXCEPT ![l] = Tail(@)]
    BY <2>1 DEF Reader, ReaderCancelled, ReaderCommand, ReaderTake, ReaderResponse, ReaderPong,
                ReaderToPing, ReaderRoute, ReaderError, EndReader
  <2>3. /\ net_in'[l] \in {net_in[l], <<>>} \/ (net_in[l] # <<>> /\ net_in'[l] = Tail(net_in[l]))
        /\ \A k \in Lanes : k # l => net_in'[k] = net_in[k]
    BY <1>1, <2>2 DEF ReadTypes
  <2>4. Range(<<>>) = {} /\ (net_in[l] # <<>> => Range(Tail(net_in[l])) \subseteq Range(net_in[l]))
    BY <1>1, SeqRange DEF ReadTypes
  <2>5. QED
    BY <2>3, <2>4
<1>3. CASE ServerAnswer
  <2>1. PICK r \in srv_pending :
          /\ r.kind \in {"request", "ping"}
          /\ net_in' = [net_in EXCEPT !["reliable"] =
               Append(@, [r EXCEPT !.kind = IF @ = "ping" THEN "pong" ELSE "response"])]
    BY <1>3 DEF ServerAnswer
  <2> DEFINE m == [r EXCEPT !.kind = IF @ = "ping" THEN "pong" ELSE "response"]
  <2>2. r \in Messages
    BY DEF TypeInv, NetTypes
  <2>3. /\ m \in Messages /\ m.id = r.id /\ m.by = r.by
        /\ r.kind = "ping" => m.kind = "pong"
    BY <2>2 DEF Messages
  <2>4. net_in' = [net_in EXCEPT !["reliable"] = Append(@, m)]
    BY <2>1
  <2> HIDE DEF m
  <2>5. Range(Append(net_in["reliable"], m)) = Range(net_in["reliable"]) \cup {m}
    BY <1>1, <2>3, SeqRange DEF ReadTypes
  <2>6. /\ net_in'["reliable"] = Append(net_in["reliable"], m)
        /\ \A k \in Lanes : k # "reliable" => net_in'[k] = net_in[k]
    BY <1>1, <2>4 DEF ReadTypes
  <2>7. QED
    BY <2>1, <2>3, <2>5, <2>6
<1>4. CASE ServerSend
  <2>1. PICK l \in Lanes, kind \in {"ping", "stream"} :
          net_in' = [net_in EXCEPT ![l] = Append(@, Msg(kind, 2 * srv_sent + 1))]
    BY <1>4 DEF ServerSend
  <2> DEFINE m == Msg(kind, 2 * srv_sent + 1)
  <2>2. 2 * srv_sent + 1 \in Nat
    BY WireConnAssumption DEF TypeInv, NetTypes
  <2>3. m \in Messages /\ m.kind = kind
    BY <2>2, MsgTypes DEF Msg
  <2>4. Range(Append(net_in[l], m)) = Range(net_in[l]) \cup {m}
    BY <1>1, <2>3, SeqRange DEF ReadTypes
  <2>5. net_in' = [net_in EXCEPT ![l] = Append(@, m)]
    BY <2>1
  <2> HIDE DEF m
  <2>6. /\ net_in'[l] = Append(net_in[l], m)
        /\ \A k \in Lanes : k # l => net_in'[k] = net_in[k]
    BY <1>1, <2>5 DEF ReadTypes
  <2>7. QED
    <3> SUFFICES ASSUME NEW k \in Lanes, NEW x \in Range(net_in'[k])
                 PROVE  x \in Range(net_in[k]) \/ x.kind \notin {"request", "response"}
      OBVIOUS
    <3>1. x \in Range(net_in[k]) \/ x = m
      BY <2>4, <2>6
    <3>2. QED
      BY <2>3, <3>1
<1>5. CASE UNCHANGED <<reader, in_msg, net_in, registered>>
  BY <1>5
<1>6. QED
  BY <1>2, <1>3, <1>4, <1>5, ReadSteps

\* The ids and the senders: a new request takes an id that no caller has and no
\* message carries; a response takes the sender of its id away.
LEMMA IdsStep ==
    ASSUME TypeInv, OwnInv, [Next]_vars
    PROVE  /\ SendersOwn' /\ IdsDistinct'
           /\ \A c \in Callers : request_id[c] # -1 => request_id'[c] = request_id[c]
<1>0. /\ CallerTypes /\ request_id_counter \in Nat
      /\ \A c \in Callers : request_id[c] \in Nat \/ request_id[c] = -1
  BY WireConnAssumption DEF TypeInv, CallerTypes
<1> USE DEF SendersOwn, IdsDistinct, OwnInv
<1>1. CASE \E c \in Callers : CallerRequest(c)
  <2>1. PICK c \in Callers : CallerRequest(c)
    BY <1>1
  <2>2. /\ request_id[c] = -1
        /\ request_id_counter' = request_id_counter + 2
        /\ request_id' = [request_id EXCEPT ![c] = request_id_counter]
        /\ \A p \in response_senders' : p \in response_senders \/ p = <<request_id_counter, c>>
    BY <1>0, <2>1 DEF CallerRequest, DrawId, CallerTypes, IdsDrawn
  <2>3. /\ request_id'[c] = request_id_counter
        /\ \A d \in Callers : d # c => request_id'[d] = request_id[d]
    BY <1>0, <2>2 DEF CallerTypes
  <2>4. ASSUME NEW p \in response_senders PROVE request_id'[p[2]] = p[1]
    <3>1. p[1] \in Nat /\ p[2] \in Callers /\ request_id[p[2]] = p[1]
      BY <1>0 DEF CallerTypes
    <3>2. QED
      BY <2>2, <2>3, <3>1
  <2>5. SendersOwn'
    BY <2>2, <2>3, <2>4
  <2>6. \A d \in Callers : d # c => request_id'[d] < request_id_counter
    BY <2>3
  <2>7. IdsDistinct'
    <3>1. \A d \in Callers : request_id'[d] < request_id_counter'
      BY <1>0, <2>2, <2>3, <2>6
    <3>2. \A d \in Callers : d # c => request_id'[d] # request_id'[c]
      BY <1>0, <2>3, <2>6
    <3>3. QED
      BY <2>3, <3>1, <3>2
  <2>8. QED
    BY <2>2, <2>3, <2>5, <2>7
<1>2. CASE /\ request_id' = request_id /\ response_senders' \subseteq response_senders
           /\ request_id_counter' \in {request_id_counter, request_id_counter + 2}
  BY <1>0, <1>2
<1>3. CASE \E l \in Lanes : ReaderResponse(l)
  BY <1>2, <1>3 DEF ReaderResponse
<1>4. CASE PingTick \/ \E c \in Callers : CallerQueued(c) \/ CallerFails(c)
  BY <1>2, <1>4 DEF PingTick, DrawId, CallerQueued, CallerFails
<1>5. CASE UNCHANGED callerVars
  BY <1>2, <1>5 DEF callerVars
<1>6. QED
  BY <1>1, <1>3, <1>4, <1>5, CallerSteps

\* A message that carries an id keeps its owner.
LEMMA OwnKept ==
    ASSUME TypeInv, OwnInv, [Next]_vars, NEW m \in Messages, Own(m)
    PROVE  Own(m)'
<1>1. \A c \in Callers : request_id[c] # -1 => request_id'[c] = request_id[c]
  BY IdsStep
<1>2. m.id \in Nat /\ m.id # -1
  BY DEF Messages
<1>3. QED
  BY <1>1, <1>2 DEF Own

\* Every request and response carries the id of its caller after a step too.
LEMMA MessagesStep ==
    ASSUME TypeInv, OwnInv, [Next]_vars
    PROVE  MessagesOwn'
<1>0. TypeInv'
  BY TypeInvStep
<1>1. ASSUME NEW l \in Lanes, NEW m \in Range(tx_write'[l]) PROVE Own(m)'
  <2>1. CASE m \in Range(tx_write[l])
    <3>1. m \in Messages
      BY <2>1, SeqRange DEF TypeInv, WriteTypes
    <3>2. QED
      BY <2>1, <3>1, OwnKept DEF OwnInv, MessagesOwn
  <2>2. CASE m \in Messages /\ (m.kind \in {"request", "response"} =>
                   \E c \in Callers : caller[c] = "queue" /\ m = Request(c))
    <3>1. Own(m)
      BY <2>2, RequestType DEF Own, TypeInv
    <3>2. QED
      BY <2>2, <3>1, OwnKept
  <2>3. QED
    BY <2>1, <2>2, QueueRange
<1>2. ASSUME NEW l \in Lanes, NEW m \in Range(net_out'[l]) PROVE Own(m)'
  <2>1. m \in Range(net_out[l]) \cup Range(tx_write[l])
    BY OutRange
  <2>2. m \in Messages
    <3>1. net_out[l] \in Seq(Messages) /\ tx_write[l] \in Seq(Messages)
      BY DEF TypeInv, WriteTypes, NetTypes
    <3>2. QED
      BY <2>1, <3>1, SeqRange
  <2>3. QED
    BY <2>1, <2>2, OwnKept DEF OwnInv, MessagesOwn
<1>3. ASSUME NEW l \in Lanes, NEW m \in Range(net_in'[l]) PROVE Own(m)'
  <2>1. m \in Messages
    <3>1. net_in'[l] \in Seq(Messages)
      BY <1>0 DEF TypeInv, ReadTypes
    <3>2. QED
      BY <3>1, SeqRange
  <2>2. CASE m \in Range(net_in[l])
    BY <2>1, <2>2, OwnKept DEF OwnInv, MessagesOwn
  <2>3. CASE m.kind \notin {"request", "response"}
    BY <2>3 DEF Own
  <2>4. CASE \E r \in srv_pending : r.kind = "request" /\ m.id = r.id /\ m.by = r.by
    <3>1. Own(m)
      BY <2>4 DEF OwnInv, MessagesOwn, Own
    <3>2. QED
      BY <2>1, <3>1, OwnKept
  <2>5. QED
    BY <2>2, <2>3, <2>4, InRange
<1>4. ASSUME NEW m \in srv_pending' PROVE Own(m)'
  <2>1. CASE m \in srv_pending
    BY <2>1, OwnKept DEF OwnInv, MessagesOwn, TypeInv, NetTypes
  <2>2. CASE m \notin srv_pending
    <3>1. ServerRead
      BY <2>2, ServerSteps DEF Server, ServerAnswer, ServerSend, ServerSilent, srvVars
    <3>2. /\ m = net_out["reliable"][srv_pos + 1] /\ "reliable" \in Lanes
          /\ srv_pos + 1 \in 1 .. Len(net_out["reliable"])
          /\ net_out["reliable"] \in Seq(Messages)
      BY <2>2, <3>1, ReliableLane DEF ServerRead, TypeInv, NetTypes
    <3>3. m \in Range(net_out["reliable"]) /\ m \in Messages
      BY <3>2, SeqRange
    <3>4. QED
      BY <3>2, <3>3, OwnKept DEF OwnInv, MessagesOwn
  <2>3. QED
    BY <2>1, <2>2
<1>5. QED
  BY <1>1, <1>2, <1>3, <1>4 DEF MessagesOwn

\* Only a response lets a caller succeed, and it is the caller of its request.
LEMMA ResponseStep ==
    ASSUME TypeInv, OwnInv, [Next]_vars
    PROVE  OwnResponse'
<1> USE DEF OwnInv, OwnResponse
<1>0. CallerTypes
  BY DEF TypeInv
<1>1. CASE \E l \in Lanes : ReaderResponse(l)
  <2>1. PICK l \in Lanes : ReaderResponse(l)
    BY <1>1
  <2> DEFINE m == Head(net_in[l])
             to == {c \in Callers : <<m.id, c>> \in response_senders /\ caller[c] = "wait"}
  <2>2. m \in Messages /\ m.kind = "response" /\ m \in Range(net_in[l])
    <3>1. net_in[l] \in Seq(Messages) /\ net_in[l] # <<>>
      BY <2>1 DEF ReaderResponse, TypeInv, ReadTypes
    <3>2. m \in Messages /\ m \in Range(net_in[l])
      BY <3>1, SeqOps, SeqRange
    <3>3. QED
      BY <2>1, <3>2 DEF ReaderResponse
  <2>3. m.by \in Callers /\ m.id = request_id[m.by] /\ m.id \in Nat
    BY <2>2 DEF MessagesOwn, Own, Messages
  <2>4. \A c \in to : c = m.by
    <3> SUFFICES ASSUME NEW c \in to PROVE c = m.by
      OBVIOUS
    <3>1. request_id[c] = m.id
      BY DEF SendersOwn
    <3>2. m.id # -1
      BY <2>3
    <3>3. QED
      BY <2>3, <3>1, <3>2 DEF IdsDistinct
  <2>5. answer' = [c \in Callers |-> IF c \in to THEN m.by ELSE answer[c]]
    BY <2>1, Zenon DEF ReaderResponse
  <2>6. \E r \in {"ok", "failed"} :
            caller' = [c \in Callers |-> IF c \in to THEN r ELSE caller[c]]
    BY <2>1, Zenon DEF ReaderResponse
  <2> HIDE DEF to, m
  <2>7. QED
    BY <2>4, <2>5, <2>6
<1>2. CASE \E c \in Callers : CallerRequest(c) \/ CallerQueued(c) \/ CallerFails(c)
  <2>1. PICK c \in Callers, s \in {"queue", "wait", "failed"} :
          caller' = [caller EXCEPT ![c] = s] /\ answer' = answer
    BY <1>2 DEF CallerRequest, CallerQueued, CallerFails
  <2>2. QED
    BY <1>0, <2>1 DEF CallerTypes
<1>3. CASE PingTick \/ UNCHANGED callerVars
  BY <1>3 DEF PingTick, callerVars
<1>4. QED
  BY <1>1, <1>2, <1>3, CallerSteps

\* A request succeeds with the response to that request: not to an earlier one
\* whose caller gave up, and not to the request of another caller.
THEOREM ResponseIsOwn == Spec => []OwnResponse
<1>1. Init => OwnInv
  BY SeqRange, WireConnAssumption DEF Init, OwnInv, SendersOwn, IdsDistinct, MessagesOwn,
     OwnResponse, Range
<1>2. TypeInv /\ OwnInv /\ [Next]_vars => OwnInv'
  BY IdsStep, MessagesStep, ResponseStep DEF OwnInv
<1>3. OwnInv => OwnResponse
  BY DEF OwnInv
<1>4. QED
  BY <1>1, <1>2, <1>3, AlwaysTyped, PTL DEF Spec

\* The write loops keep what was queued before the cancellation.
LEMMA WrittenStep ==
    ASSUME TypeInv, WrittenInv, [Next]_vars
    PROVE  WrittenInv'
<1>0. WriteTypes /\ NetTypes
  BY DEF TypeInv
<1>1. ct => ct'
  BY FlagStep
<1>2. WriterStopsCancelled'
  <2>1. CASE \E l \in Lanes : Writer(l)
    <3>1. PICK l \in Lanes : Writer(l)
      BY <2>1
    <3>2. CASE WriterError(l)
      BY <3>2 DEF WriterError, WriterStopsCancelled
    <3>3. CASE WriterWrite(l) \/ WriterCancelled(l) \/ WriterEmptied(l) \/ WriterEnd(l)
      <4>1. writer[l] # "run" => ct
        BY DEF WrittenInv, WriterStopsCancelled
      <4>2. ct' = ct /\ (writer' = writer \/ ct)
        BY <3>3, <4>1 DEF WriterWrite, WriterCancelled, WriterEmptied, WriterEnd
      <4>3. QED
        BY <4>2 DEF WrittenInv, WriterStopsCancelled
    <3>4. QED
      BY <3>1, <3>2, <3>3 DEF Writer
  <2>2. CASE writer' = writer
    BY <1>1, <2>2 DEF WrittenInv, WriterStopsCancelled
  <2>3. QED
    BY <2>1, <2>2, WriteSteps DEF QueueStep
<1>3. EarlyKept'
  <2> SUFFICES ASSUME NEW k \in Lanes, k \notin write_failed', NEW n \in early'[k]
               PROVE  \/ n \in Range(net_out'[k])
                      \/ writer'[k] \in {"run", "drain"} /\ n \in Range(tx_write'[k])
    BY DEF EarlyKept
  <2>0. Range(net_out[k]) \subseteq Range(net_out'[k])
    BY OutRange
  <2>1. CASE QueueStep
    <3>1. PICK l \in Lanes, m \in Messages :
            Enqueue(l, m) /\ UNCHANGED <<ct, writer, write_failed>>
      BY <2>1 DEF QueueStep
    <3>2. CASE l = k
      <4>1. /\ tx_write'[k] = Append(tx_write[k], m)
            /\ early'[k] = early[k] \/ (~ct /\ early'[k] = early[k] \cup {m})
        BY <1>0, <3>1, <3>2 DEF Enqueue, WriteTypes
      <4>2. Range(tx_write'[k]) = Range(tx_write[k]) \cup {m}
        BY <1>0, <4>1, SeqRange DEF WriteTypes
      <4>3. CASE n \in early[k]
        BY <2>0, <3>1, <4>2, <4>3 DEF WrittenInv, EarlyKept
      <4>4. CASE n = m /\ ~ct
        <5>1. writer[k] = "run"
          BY <4>4 DEF WrittenInv, WriterStopsCancelled
        <5>2. QED
          BY <3>1, <4>2, <4>4, <5>1
      <4>5. QED
        BY <4>1, <4>3, <4>4
    <3>3. CASE l # k
      <4>1. tx_write'[k] = tx_write[k] /\ early'[k] = early[k]
        BY <1>0, <3>1, <3>3 DEF Enqueue, WriteTypes
      <4>2. QED
        BY <2>0, <3>1, <4>1 DEF WrittenInv, EarlyKept
    <3>4. QED
      BY <3>2, <3>3
  <2>2. CASE \E l \in Lanes : Writer(l)
    <3>1. PICK l \in Lanes : Writer(l)
      BY <2>2
    <3>2. /\ early' = early /\ write_failed \subseteq write_failed'
      BY <3>1 DEF Writer, WriterWrite, WriterError, WriterCancelled, WriterEmptied, WriterEnd
    <3>3. \/ n \in Range(net_out[k])
          \/ writer[k] \in {"run", "drain"} /\ n \in Range(tx_write[k])
      BY <3>2 DEF WrittenInv, EarlyKept
    <3>4. CASE n \in Range(net_out[k])
      BY <2>0, <3>4
    <3>5. CASE l # k /\ writer[k] \in {"run", "drain"} /\ n \in Range(tx_write[k])
      <4>1. writer'[k] = writer[k] /\ tx_write'[k] = tx_write[k]
        BY <1>0, <3>1, <3>5 DEF WriteTypes, Writer, WriterWrite, WriteHead, WriterError,
                                WriterCancelled, WriterEmptied, WriterEnd
      <4>2. QED
        BY <3>5, <4>1
    <3>6. CASE l = k /\ writer[k] \in {"run", "drain"} /\ n \in Range(tx_write[k])
      <4>1. tx_write[k] \in Seq(Messages) /\ net_out[k] \in Seq(Messages)
            /\ tx_write[k] # <<>>
        BY <1>0, <3>6, SeqRange DEF WriteTypes, NetTypes
      <4>2. CASE WriterWrite(k)
        <5>1. /\ tx_write'[k] = Tail(tx_write[k]) /\ writer' = writer
              /\ net_out'[k] = Append(net_out[k], Head(tx_write[k]))
          BY <1>0, <4>2 DEF WriterWrite, WriteHead, WriteTypes, NetTypes
        <5>2. Head(tx_write[k]) \in Messages
          BY <4>1, SeqOps
        <5>3. Head(tx_write[k]) \in Range(net_out'[k])
          BY <4>1, <5>1, <5>2, SeqRange
        <5>4. n = Head(tx_write[k]) \/ n \in Range(tx_write'[k])
          BY <3>6, <4>1, <5>1, SeqRange
        <5>5. QED
          BY <3>6, <5>1, <5>3, <5>4
      <4>3. CASE WriterCancelled(k)
        BY <1>0, <3>6, <4>3 DEF WriterCancelled, WriteTypes
      <4>4. CASE WriterError(k) \/ WriterEmptied(k) \/ WriterEnd(k)
        BY <3>6, <4>1, <4>4 DEF WriterError, WriterEmptied, WriterEnd
      <4>5. QED
        BY <3>1, <3>6, <4>2, <4>3, <4>4 DEF Writer
    <3>7. QED
      BY <3>3, <3>4, <3>5, <3>6
  <2>3. CASE UNCHANGED <<tx_write, early, writer, write_failed, net_out>>
    BY <2>3 DEF WrittenInv, EarlyKept
  <2>4. QED
    BY <2>1, <2>2, <2>3, WriteSteps
<1>4. QED
  BY <1>2, <1>3 DEF WrittenInv

\* Nothing is queued at the start.
LEMMA WrittenInit == Init => WrittenInv
  BY DEF Init, WrittenInv, EarlyKept, WriterStopsCancelled

\* What was queued early is always written or about to be.
LEMMA AlwaysWritten == Spec => []WrittenInv
  BY WrittenInit, WrittenStep, AlwaysTyped, PTL DEF Spec

\* A loop that has ended has written all of it.
LEMMA WrittenAtEnd == TypeInv /\ WrittenInv => QueuedIsWritten
<1> SUFFICES ASSUME TypeInv, WrittenInv, NEW l \in Lanes, l \notin write_failed,
                    writer[l] = "ended", NEW m \in early[l]
             PROVE  \E i \in 1 .. Len(net_out[l]) : net_out[l][i] = m
  BY DEF QueuedIsWritten
<1>1. m \in Range(net_out[l])
  BY DEF WrittenInv, EarlyKept
<1>2. net_out[l] \in Seq(Messages)
  BY DEF TypeInv, NetTypes
<1>3. QED
  BY <1>1, <1>2, SeqRange

\* The end of a write loop loses nothing that was queued before the connection
\* was cancelled, unless its transport failed.
THEOREM NothingQueuedIsLost == Spec => []QueuedIsWritten
  BY AlwaysTyped, AlwaysWritten, WrittenAtEnd, PTL

\* A task that has ended stays ended.
LEMMA EndedStays ==
    ASSUME TypeInv, [Next]_vars
    PROVE  /\ \A l \in Lanes : writer[l] = "ended" => writer'[l] = "ended"
           /\ \A l \in Lanes : reader[l] = "ended" => reader'[l] = "ended"
           /\ ping = "ended" => ping' = "ended"
           /\ closer = "closed" => closer' = "closed"
<1>0. WriteTypes /\ ReadTypes /\ PingTypes
  BY DEF TypeInv
<1>1. \A l \in Lanes : writer[l] = "ended" => writer'[l] = "ended"
  <2>1. CASE \E l \in Lanes : Writer(l)
    BY <1>0, <2>1 DEF WriteTypes, Writer, WriterWrite, WriterError, WriterCancelled,
                      WriterEmptied, WriterEnd
  <2>2. QED
    BY <2>1, WriteSteps DEF QueueStep
<1>2. \A l \in Lanes : reader[l] = "ended" => reader'[l] = "ended"
  <2>1. CASE \E l \in Lanes : Reader(l) \/ ReaderError(l)
    <3>1. PICK l \in Lanes : Reader(l) \/ ReaderError(l)
      BY <2>1
    <3>2. \/ reader' = reader
          \/ reader[l] # "ended" /\ \E s \in {"read", "pong", "to_ping", "route", "ended"} :
                                        reader' = [reader EXCEPT ![l] = s]
      <4>1. CASE ReaderCancelled(l) \/ ReaderError(l)
        BY <4>1 DEF ReaderCancelled, ReaderError, EndReader
      <4>2. CASE ReaderTake(l)
        BY <4>2 DEF ReaderTake, BusyWith
      <4>3. CASE ReaderPong(l) \/ ReaderToPing(l) \/ ReaderRoute(l)
        BY <4>3 DEF ReaderPong, ReaderToPing, ReaderRoute, BusyWith
      <4>4. CASE ReaderCommand(l) \/ ReaderResponse(l)
        BY <4>4 DEF ReaderCommand, ReaderResponse
      <4>5. QED
        BY <3>1, <4>1, <4>2, <4>3, <4>4 DEF Reader
    <3>3. QED
      BY <1>0, <3>2 DEF ReadTypes
  <2>2. QED
    BY <2>1, ReadSteps DEF ServerAnswer, ServerSend
<1>3. ping = "ended" => ping' = "ended"
  BY TaskSteps DEF Ping, PingTick, PingSend, PingPong, PingEnd, Owner, OwnerDisconnect,
                   OwnerCannotSend, OwnerClose, OwnerReturned, CloserClose, SendUnreliable,
                   ReaderToPing, pingVars
<1>4. closer = "closed" => closer' = "closed"
  BY TaskSteps DEF Ping, PingTick, PingSend, PingPong, PingEnd, Owner, OwnerDisconnect,
                   OwnerCannotSend, OwnerClose, OwnerReturned, CloserClose, SendUnreliable,
                   ReaderToPing, pingVars
<1>5. QED
  BY <1>1, <1>2, <1>3, <1>4

\* A task that has ended stays ended, so what close() waited for holds after it.
LEMMA EndStep ==
    ASSUME TypeInv, EndInv, [Next]_vars
    PROVE  EndInv'
<1>0. "reliable" \in Lanes
  BY ReliableLane
<1>1. ReadWriteEnded => ReadWriteEnded'
  BY <1>0, EndedStays DEF ReadWriteEnded
<1>2. TasksEnded => TasksEnded'
  BY EndedStays DEF TasksEnded
<1>3. closer' = "closed" => closer = "closed" \/ ReadWriteEnded
  BY TaskSteps DEF Ping, PingTick, PingSend, PingPong, PingEnd, Owner, OwnerDisconnect,
                   OwnerCannotSend, OwnerClose, OwnerReturned, CloserClose, SendUnreliable,
                   ReaderToPing, pingVars
<1>4. owner' = "returned" => owner = "returned" \/ TasksEnded
  BY TaskSteps DEF Ping, PingTick, PingSend, PingPong, PingEnd, Owner, OwnerDisconnect,
                   OwnerCannotSend, OwnerClose, OwnerReturned, CloserClose, SendUnreliable,
                   ReaderToPing, pingVars
<1>5. TasksEnded => ReadWriteEnded
  BY DEF TasksEnded, EndInv
<1>6. QED
  BY <1>1, <1>2, <1>3, <1>4, <1>5 DEF EndInv, AllEnded

\* close() that cancelled the connection returns when every task has ended and
\* the Disconnect message, if it was queued, is written or its transport failed.
THEOREM OrderlyClose == Spec => []CloseIsOrderly
<1>1. Init => EndInv
  BY DEF Init, EndInv
<1>2. TypeInv /\ EndInv /\ [Next]_vars => EndInv'
  BY EndStep
<1>3. EndInv /\ QueuedIsWritten => CloseIsOrderly
  BY ReliableLane DEF EndInv, QueuedIsWritten, CloseIsOrderly, AllEnded, ReadWriteEnded
<1>4. QED
  BY <1>1, <1>2, <1>3, AlwaysTyped, NothingQueuedIsLost, PTL DEF Spec

\* The commands of the streams reach the loops in the order in which streams were
\* added and dropped: the last one names the receiver that is open, if one is.
LEMMA RouteStep ==
    ASSUME ~AliasReused, TypeInv, RouteInv, [Next]_vars
    PROVE  RouteInv'
<1>0. StreamTypes /\ ReadTypes
  BY DEF TypeInv
<1>a. open' \subseteq {adds'}
  BY StreamSteps DEF RouteInv, ReaderCommand, ReaderRoute, StreamAdd, StreamRead, StreamDrop,
                     streamVars
<1>1. SUFFICES ASSUME NEW l \in Lanes, reader'[l] # "ended" PROVE Target(l)' = Current'
  BY <1>a DEF RouteInv
<1>2. /\ reader[l] # "ended" /\ Target(l) = Current
      /\ commands[l] \in Seq(0 .. MaxAdds) /\ Len(commands[l]) \in Nat
  BY <1>0, <1>1, EndedStays DEF RouteInv, StreamTypes
<1>3. CASE \E k \in Lanes : ReaderCommand(k)
  <2>1. PICK k \in Lanes : ReaderCommand(k)
    BY <1>3
  <2>2. Current' = Current
    BY <2>1 DEF ReaderCommand, Current
  <2>3. CASE k = l
    <3>1. /\ commands[l] # <<>> /\ commands'[l] = Tail(commands[l])
          /\ registered'[l] = Head(commands[l])
      BY <1>0, <2>1, <2>3 DEF ReaderCommand, StreamTypes
    <3>2. Current = commands[l][Len(commands[l])]
      BY <1>2, <3>1 DEF Target
    <3>3. QED
      BY <1>2, <2>2, <3>1, <3>2, TailLast DEF Target
  <2>4. CASE k # l
    BY <1>0, <1>2, <2>1, <2>2, <2>4 DEF ReaderCommand, StreamTypes, Target
  <2>5. QED
    BY <2>3, <2>4
<1>4. CASE \E k \in Lanes : EndReader(k) /\ UNCHANGED <<open, stream_chan, adds>>
  <2>1. PICK k \in Lanes : EndReader(k) /\ UNCHANGED <<open, stream_chan, adds>>
    BY <1>4
  <2>2. k # l
    BY <1>0, <1>1, <2>1 DEF EndReader, ReadTypes
  <2>3. registered'[l] = registered[l] /\ commands'[l] = commands[l] /\ Current' = Current
    BY <1>0, <2>1, <2>2 DEF EndReader, StreamTypes, Current
  <2>4. QED
    BY <1>2, <2>3 DEF Target
<1>5. ASSUME NEW cmd \in 0 .. MaxAdds, Command(cmd), Current' = cmd PROVE Target(l)' = Current'
  <2>1. commands'[l] = Append(commands[l], cmd)
    BY <1>2, <1>5 DEF Command
  <2>2. /\ commands'[l] # <<>> /\ Len(commands'[l]) = Len(commands[l]) + 1
        /\ commands'[l][Len(commands[l]) + 1] = cmd
    BY <1>2, <2>1
  <2>3. QED
    BY <1>5, <2>2 DEF Target
<1>6. CASE StreamAdd
  <2>1. Command(adds + 1) /\ Current' = adds + 1 /\ adds + 1 \in 0 .. MaxAdds
    BY <1>0, <1>6, WireConnAssumption DEF StreamAdd, Current, StreamTypes
  <2>2. QED
    BY <1>5, <2>1
<1>7. CASE \E n \in open : StreamDrop(n)
  <2>1. PICK n \in open : StreamDrop(n)
    BY <1>7
  <2>2. n = adds
    BY DEF RouteInv
  <2>3. Command(0) /\ Current' = 0 /\ 0 \in 0 .. MaxAdds
    BY <2>1, <2>2, WireConnAssumption DEF StreamDrop, Current
  <2>4. QED
    BY <1>5, <2>3
<1>8. CASE UNCHANGED <<commands, registered, open, adds>>
  BY <1>2, <1>8 DEF Target, Current
<1>9. QED
  BY <1>3, <1>4, <1>6, <1>7, <1>8, StreamSteps DEF ReaderRoute, StreamRead, streamVars

\* When no two streams hold the alias at a time, a read loop with no command left
\* routes to the receiver of the stream that has it, and to none when that is
\* dropped, however often it was given away and whatever the lanes have processed.
THEOREM RoutesToCurrent ==
    ASSUME ~AliasReused
    PROVE  Spec => []RoutedToCurrent
<1>1. Init => RouteInv
  BY DEF Init, RouteInv, Target, Current
<1>2. TypeInv /\ RouteInv /\ [Next]_vars => RouteInv'
  BY RouteStep
<1>3. RouteInv => RoutedToCurrent
  BY DEF RouteInv, RoutedToCurrent, Target, Current
<1>4. QED
  BY <1>1, <1>2, <1>3, AlwaysTyped, PTL DEF Spec
=============================================================================
