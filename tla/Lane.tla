-------------------------------- MODULE Lane --------------------------------
(***************************************************************************)
(* One direction of a transport, from the message that a write loop has     *)
(* encoded to the message that the other side's read loop decodes:          *)
(* compression, then one of the crate's lanes, then extraction.             *)
(*                                                                         *)
(*   "stream"     QUIC or WebTransport streams: length and bytes, read by   *)
(*                one task per accepted stream, which feed one channel      *)
(*   "websocket"  a queue that one task writes to the socket                *)
(*   "datagram"   QUIC or WebTransport datagrams (module Datagram)          *)
(*                                                                         *)
(* The crate is a client: one of the two ends is a server, taken to do what *)
(* the crate's other end does, configured by the negotiation.  Every byte   *)
(* of a message differs from every other, so nothing can be mixed up        *)
(* unseen.  The network is external: it delays, loses the connection, and   *)
(* loses and reorders datagrams.                                            *)
(***************************************************************************)
EXTENDS Compression, Datagram, FiniteSets

CONSTANTS
    Streams,       \* streams the sender opens: one if it is this crate
    StreamLengths, SocketLengths, DatagramLengths,  \* lengths of encoded messages
    RecvChannel,   \* capacity of the channel behind the stream tasks: 1024
    WriteChannel,  \* capacity of the WebSocket write queue: 16
    MaxMessages,   \* bound: messages sent
    MaxDatagrams,  \* bound: messages sent as datagrams
    MaxPongs       \* bound: WebSocket pings the sender's end answers

ASSUME LaneAssumption ==
    /\ Streams # {} /\ StreamLengths \cup SocketLengths \cup DatagramLengths \subseteq Nat \ {0}
    /\ RecvChannel \in Nat \ {0} /\ WriteChannel \in Nat \ {0}
    /\ MaxMessages \in Nat /\ MaxDatagrams \in Nat /\ MaxPongs \in Nat

VARIABLES
    kind, compression, \* the transport's lane and the builder's setting
    conn,              \* "up", "closed" by the sender's end, or "lost"
    \* the sending end
    writer,            \* "open" or "closed"
    dictionary,        \* of the Compressor
    sent,              \* history: of every message written, its stream, its bytes
                       \* and the dictionary it was compressed with
    compressed,        \* history: the bytes of all of them
    \* "stream"
    stream_bytes,      \* by stream: bytes written and not yet read
    accept_loop,       \* "run" or "ended"
    task,              \* read_recv_stream, by stream: "none", "read", "send", "ended"
    task_buf,          \* the message it has read
    rx_recv_bytes,     \* the channel
    taken,             \* history: how many messages the tasks have read
    \* "websocket"
    tx_write_message,  \* the queue
    write_task,        \* "run" or "ended"
    socket,            \* frames on their way
    pongs,
    \* "datagram"
    sequence_number,
    datagrams,         \* on their way
    frame_buf,
    dropped,           \* history: messages a datagram of which was lost or expired
    \* the receiving end
    reader,            \* "read", "cancelled", or the error "ended", "close_frame"
    ext_dictionary,    \* of the Extractor
    delivered,         \* messages that reached the decoder
    extracted          \* history: the bytes of all of them

sendVars   == <<kind, compression, writer, dictionary, sent, compressed>>
streamVars == <<stream_bytes, accept_loop, task, task_buf, rx_recv_bytes, taken>>
wsVars     == <<tx_write_message, write_task, socket, pongs>>
dgVars     == <<sequence_number, datagrams, frame_buf, dropped>>
readVars   == <<reader, ext_dictionary, delivered, extracted>>
vars == <<sendVars, conn, streamVars, wsVars, dgVars, readVars>>

\* Mutant: every transport accepts a window.
CompatWithEveryTransport(k) == TRUE

\* _compat_with_context_takeover
CompatWithContextTakeover(k) == k = "websocket"

\* build() refuses a window for the other transports.
Buildable(k, c) == c.window_bits = 0 \/ CompatWithContextTakeover(k)

Init ==
    /\ kind \in {"stream", "websocket", "datagram"}
    /\ compression \in Compressions /\ Buildable(kind, compression)
    /\ conn = "up" /\ writer = "open" /\ dictionary = <<>>
    /\ sent = <<>> /\ compressed = <<>>
    /\ stream_bytes = [s \in Streams |-> <<>>]
    /\ accept_loop = IF kind = "stream" THEN "run" ELSE "ended"
    /\ task = [s \in Streams |-> "none"] /\ task_buf = [s \in Streams |-> <<>>]
    /\ rx_recv_bytes = <<>> /\ taken = 0
    /\ tx_write_message = <<>> /\ socket = <<>> /\ pongs = 0
    /\ write_task = IF kind = "websocket" THEN "run" ELSE "ended"
    /\ sequence_number = 0 /\ datagrams = {} /\ frame_buf = NoFrames /\ dropped = {}
    /\ reader = "read" /\ ext_dictionary = <<>> /\ delivered = <<>> /\ extracted = <<>>

SendConverter == Converter(compression)
RecvConverter == PeerConverter(NegotiationParams(compression))

-----------------------------------------------------------------------------
(* Writing *)

\* The encoded message number Len(sent) + 1.
NewData(len) == [i \in 1 .. len |-> [msg |-> Len(sent) + 1, at |-> i]]

\* What write_loop hands to the writer, and the Compressor after it.
Wire(len) == Compress(SendConverter, dictionary, NewData(len))

\* The other lanes do not tell streams apart.
OneStream == CHOOSE s \in Streams : TRUE

WriteLoopSends(s, len) ==
    /\ writer = "open" /\ Len(sent) < MaxMessages
    /\ dictionary' = Remember(SendConverter, dictionary, NewData(len))
    /\ sent' = Append(sent, [stream |-> s, data |-> NewData(len), with |-> dictionary])
    /\ compressed' = compressed \o NewData(len)
    /\ UNCHANGED <<kind, compression>>

\* QuicWriter::write: the length, then the message.
StreamWrite(s, len) ==
    /\ kind = "stream" /\ conn = "up"
    /\ WriteLoopSends(s, len)
    /\ stream_bytes' = [stream_bytes EXCEPT ![s] = @ \o <<Len(Wire(len))>> \o Wire(len)]
    /\ UNCHANGED <<conn, writer, accept_loop, task, task_buf, rx_recv_bytes, taken,
                   wsVars, dgVars, readVars>>

\* WebSocketWriter::write waits for room in the queue.
WebSocketWrite(len) ==
    /\ kind = "websocket" /\ write_task = "run"
    /\ Len(tx_write_message) < WriteChannel
    /\ WriteLoopSends(OneStream, len)
    /\ tx_write_message' = Append(tx_write_message, [type |-> "binary", data |-> Wire(len)])
    /\ UNCHANGED <<conn, writer, streamVars, write_task, socket, pongs, dgVars, readVars>>

\* QuicUnreliableWriter::write sends every segment; the network may lose any.
DatagramWrite(len) ==
    /\ kind = "datagram" /\ conn = "up" /\ ~TooLarge(Wire(len))
    /\ sequence_number < MaxDatagrams
    /\ WriteLoopSends(OneStream, len)
    /\ sequence_number' = sequence_number + 1
    /\ datagrams' = datagrams \cup Range(Split(sequence_number, Wire(len)))
    /\ UNCHANGED <<conn, writer, streamVars, wsVars, frame_buf, dropped, readVars>>

\* An error of write() ends the write loop: the message is too large for
\* datagrams, the connection is gone or the WebSocket task has ended.
WriteError(len) ==
    /\ writer = "open"
    /\ \/ kind = "datagram" /\ TooLarge(Wire(len))
       \/ kind # "websocket" /\ conn # "up"
       \/ kind = "websocket" /\ write_task = "ended"
    /\ writer' = "closed"
    /\ UNCHANGED <<kind, compression, dictionary, sent, compressed, conn, streamVars, wsVars,
                   dgVars, readVars>>

\* The write loop has written everything: writer.close(), which sends a frame
\* only on a WebSocket.
WriterClose ==
    /\ writer = "open"
    /\ writer' = "closed"
    /\ \/ kind # "websocket" /\ UNCHANGED tx_write_message
       \/ /\ kind = "websocket" /\ Len(tx_write_message) < WriteChannel
          /\ tx_write_message' = Append(tx_write_message, [type |-> "close", data |-> <<>>])
    /\ UNCHANGED <<kind, compression, dictionary, sent, compressed, conn, streamVars, write_task,
                   socket, pongs, dgVars, readVars>>

\* QuicCloser::close, after the writer of the streams; the task that writes
\* datagrams is not waited for.
CloserClose ==
    /\ \/ kind = "datagram"
       \/ kind = "stream" /\ writer = "closed"
    /\ conn = "up"
    /\ conn' = "closed"
    /\ UNCHANGED <<sendVars, streamVars, wsVars, dgVars, readVars>>

ConnLost ==
    /\ conn = "up"
    /\ conn' = "lost"
    /\ UNCHANGED <<sendVars, streamVars, wsVars, dgVars, readVars>>

-----------------------------------------------------------------------------
(* WebSocket *)

\* The reader of the sending end answers a Ping through the same queue.
AnswerPing ==
    /\ kind = "websocket" /\ write_task = "run" /\ pongs < MaxPongs
    /\ Len(tx_write_message) < WriteChannel
    /\ tx_write_message' = Append(tx_write_message, [type |-> "pong", data |-> <<>>])
    /\ pongs' = pongs + 1
    /\ UNCHANGED <<sendVars, conn, streamVars, write_task, socket, dgVars, readVars>>

\* Mutant: after an error the task goes on with the next message.
WriteTaskSendsOn ==
    /\ write_task = "run" /\ tx_write_message # <<>> /\ conn = "up"
    /\ socket' \in {socket, Append(socket, Head(tx_write_message))}
    /\ tx_write_message' = Tail(tx_write_message)
    /\ UNCHANGED <<sendVars, conn, streamVars, write_task, pongs, dgVars, readVars>>

WriteTaskSends ==
    /\ write_task = "run" /\ tx_write_message # <<>> /\ conn = "up"
    /\ socket' = Append(socket, Head(tx_write_message))
    /\ tx_write_message' = Tail(tx_write_message)
    /\ UNCHANGED <<sendVars, conn, streamVars, write_task, pongs, dgVars, readVars>>

\* sink.send fails, or every sender is gone: the socket goes with the task.
WriteTaskEnds ==
    /\ write_task = "run"
    /\ conn = "lost" \/ (writer = "closed" /\ tx_write_message = <<>>)
    /\ write_task' = "ended"
    /\ tx_write_message' = <<>>
    /\ conn' = IF conn = "up" THEN "closed" ELSE conn
    /\ UNCHANGED <<sendVars, streamVars, socket, pongs, dgVars, readVars>>

-----------------------------------------------------------------------------
(* Streams *)

\* accept_uni returns a stream that the sender has begun to use.
Accept(s) ==
    /\ accept_loop = "run" /\ task[s] = "none" /\ stream_bytes[s] # <<>>
    /\ task' = [task EXCEPT ![s] = "read"]
    /\ UNCHANGED <<sendVars, conn, stream_bytes, accept_loop, task_buf, rx_recv_bytes,
                   taken, wsVars, dgVars, readVars>>

\* Mutant: an error of accept_uni does not end the loop.
AcceptEndsCancelled ==
    /\ accept_loop = "run" /\ reader # "read"
    /\ accept_loop' = "ended"
    /\ UNCHANGED <<sendVars, conn, stream_bytes, task, task_buf, rx_recv_bytes, taken,
                   wsVars, dgVars, readVars>>

\* reader.close() has cancelled the token, or accept_uni fails.
AcceptEnds ==
    /\ accept_loop = "run" /\ (reader # "read" \/ conn # "up")
    /\ accept_loop' = "ended"
    /\ UNCHANGED <<sendVars, conn, stream_bytes, task, task_buf, rx_recv_bytes, taken,
                   wsVars, dgVars, readVars>>

\* read_exact of the length, then of as many bytes.  When the bytes arrive is the
\* network's choice: with the connection gone some may still be read, or none.
TaskRead(s) ==
    /\ task[s] = "read" /\ stream_bytes[s] # <<>>
    /\ LET len == Head(stream_bytes[s])
       IN  /\ Len(stream_bytes[s]) > len
           /\ task_buf' = [task_buf EXCEPT ![s] = SubSeq(stream_bytes[s], 2, len + 1)]
           /\ stream_bytes' = [stream_bytes EXCEPT ![s] = SubSeq(@, len + 2, Len(@))]
    /\ task' = [task EXCEPT ![s] = "send"]
    /\ taken' = taken + 1
    /\ UNCHANGED <<sendVars, conn, accept_loop, rx_recv_bytes, wsVars, dgVars, readVars>>

\* tx.send waits for room; the receiver lives as long as the reader.
TaskSend(s) ==
    /\ task[s] = "send" /\ reader = "read" /\ Len(rx_recv_bytes) < RecvChannel
    /\ rx_recv_bytes' = Append(rx_recv_bytes, task_buf[s])
    /\ task' = [task EXCEPT ![s] = "read"]
    /\ task_buf' = [task_buf EXCEPT ![s] = <<>>]
    /\ UNCHANGED <<sendVars, conn, stream_bytes, accept_loop, taken, wsVars, dgVars,
                   readVars>>

\* The token is cancelled, the connection is gone, or the receiver is dropped.
TaskEnds(s) ==
    /\ \/ task[s] = "read" /\ (reader # "read" \/ conn # "up")
       \/ task[s] = "send" /\ reader # "read"
    /\ task' = [task EXCEPT ![s] = "ended"]
    /\ UNCHANGED <<sendVars, conn, stream_bytes, accept_loop, task_buf, rx_recv_bytes,
                   taken, wsVars, dgVars, readVars>>

-----------------------------------------------------------------------------
(* Datagrams *)

DatagramLost(f) ==
    /\ datagrams' = datagrams \ {f}
    /\ dropped' = dropped \cup {f.seq}
    /\ UNCHANGED <<sendVars, conn, streamVars, wsVars, sequence_number, frame_buf, readVars>>

\* More than expire passes for a message of which segments are missing.
FramesExpire(s) ==
    /\ ~frame_buf[s].expired
    /\ frame_buf' = [frame_buf EXCEPT ![s].expired = TRUE]
    /\ UNCHANGED <<sendVars, conn, streamVars, wsVars, sequence_number, datagrams, dropped,
                   readVars>>

-----------------------------------------------------------------------------
(* Reading *)

\* read() has returned a message: read_loop extracts it.
ReadLoopTakes(wire) ==
    LET data == Extract(RecvConverter, ext_dictionary, wire)
    IN  /\ delivered' = Append(delivered, data)
        /\ extracted' = extracted \o data
        /\ ext_dictionary' = Remember(RecvConverter, ext_dictionary, data)
        /\ UNCHANGED reader

StreamRead ==
    /\ reader = "read" /\ rx_recv_bytes # <<>>
    /\ ReadLoopTakes(Head(rx_recv_bytes))
    /\ rx_recv_bytes' = Tail(rx_recv_bytes)
    /\ UNCHANGED <<sendVars, conn, stream_bytes, accept_loop, task, task_buf, taken,
                   wsVars, dgVars>>

WebSocketRead ==
    /\ reader = "read" /\ socket # <<>>
    /\ socket' = Tail(socket)
    /\ \/ Head(socket).type = "binary" /\ ReadLoopTakes(Head(socket).data)
       \/ Head(socket).type = "close" /\ reader' = "close_frame"
                /\ UNCHANGED <<ext_dictionary, delivered, extracted>>
       \/ Head(socket).type = "pong" /\ UNCHANGED readVars
    /\ UNCHANGED <<sendVars, conn, streamVars, tx_write_message, write_task, pongs, dgVars>>

\* FrameBuf::push of a frame; whether the last check for expired frames was
\* long ago is the clock's choice.  A frame without data is ignored.
DatagramRead(f, check) ==
    LET buf == IF check THEN DropExpired(frame_buf) ELSE frame_buf
    IN  /\ reader = "read"
        /\ datagrams' = datagrams \ {f}
        /\ IF f.data = <<>>
           THEN UNCHANGED <<frame_buf, dropped, readVars>>
           ELSE /\ frame_buf' = FramesAfter(buf, f)
                /\ dropped' = dropped \cup (DOMAIN frame_buf \ DOMAIN buf)
                /\ IF Completes(buf, f) THEN \E wire \in {Joined(buf, f)} : ReadLoopTakes(wire)
                   ELSE UNCHANGED readVars
        /\ UNCHANGED <<sendVars, conn, streamVars, wsVars, sequence_number>>

\* Mutant: read() looks at the connection, not at the channel's senders.
ReadErrorEarly ==
    /\ reader = "read" /\ conn # "up"
    /\ reader' = "ended"
    /\ UNCHANGED <<sendVars, conn, streamVars, wsVars, dgVars, ext_dictionary, delivered,
                   extracted>>

\* read() fails: on streams when the channel is empty and its senders, the
\* accept loop and the tasks, are gone.
ReadError ==
    /\ reader = "read"
    /\ \/ /\ kind = "stream" /\ rx_recv_bytes = <<>> /\ accept_loop = "ended"
          /\ \A s \in Streams : task[s] \in {"none", "ended"}
       \/ kind = "websocket" /\ (conn = "lost" \/ (conn = "closed" /\ socket = <<>>))
       \/ kind = "datagram" /\ conn # "up"
    /\ reader' = "ended"
    /\ UNCHANGED <<sendVars, conn, streamVars, wsVars, dgVars, ext_dictionary, delivered,
                   extracted>>

\* A command instead of a message: the read loop extracts the empty buffer.
ReadCommand ==
    /\ reader = "read"
    /\ ext_dictionary' = Remember(RecvConverter, ext_dictionary,
                                  Extract(RecvConverter, ext_dictionary, <<>>))
    /\ UNCHANGED <<sendVars, conn, streamVars, wsVars, dgVars, reader, delivered, extracted>>

\* The receiving end is cancelled: read_loop returns and closes the reader.
ReadCancelled ==
    /\ reader = "read"
    /\ reader' = "cancelled"
    /\ UNCHANGED <<sendVars, conn, streamVars, wsVars, dgVars, ext_dictionary, delivered,
                   extracted>>

Finished ==
    /\ reader # "read" /\ writer = "closed"
    /\ UNCHANGED vars

-----------------------------------------------------------------------------
Write == \/ \E s \in Streams, len \in StreamLengths : StreamWrite(s, len)
         \/ \E len \in SocketLengths : WebSocketWrite(len)
         \/ \E len \in DatagramLengths : DatagramWrite(len) \/ WriteError(len)
         \/ WriterClose \/ CloserClose
WebSocket == AnswerPing \/ WriteTaskSends \/ WriteTaskEnds
StreamTasks == AcceptEnds \/ \E s \in Streams :
    Accept(s) \/ TaskRead(s) \/ TaskSend(s) \/ TaskEnds(s)
Network == \/ ConnLost
           \/ \E f \in datagrams : DatagramLost(f)
           \/ \E s \in DOMAIN frame_buf : FramesExpire(s)
ReadMessage == \/ StreamRead \/ WebSocketRead
               \/ \E f \in datagrams, check \in BOOLEAN : DatagramRead(f, check)
Read == ReadMessage \/ ReadError \/ ReadCommand \/ ReadCancelled

Next == Write \/ WebSocket \/ StreamTasks \/ Network \/ Read \/ Finished

Spec == Init /\ [][Next]_vars

\* The tasks of the receiving end run.  Nothing is assumed of the network, nor
\* that anybody writes, closes or cancels.
FairSpec == /\ Spec /\ WF_vars(ReadMessage) /\ WF_vars(ReadError) /\ WF_vars(AcceptEnds)
            /\ \A s \in Streams : WF_vars(TaskSend(s)) /\ WF_vars(TaskEnds(s))

-----------------------------------------------------------------------------
(* Properties *)

\* What is decoded was encoded: every message that reaches the decoder is one
\* that was written, whole and unmixed, and none arrives twice, on every lane
\* and with every compression that build() accepts and the negotiation tells
\* the peer.
DeliveredIsSent ==
    /\ Range(delivered) \subseteq {sent[n].data : n \in DOMAIN sent}
    /\ IsInjective(delivered)

\* The number of the message that was delivered k-th.
NumberOf(k) == delivered[k][1].msg

\* A stream or a WebSocket delivers in order and without a gap, whatever the
\* tasks, the channel and the queue between the ends do: before a message come
\* all that were written to its stream before it.
InOrderWithoutGap ==
    kind # "datagram" /\ DeliveredIsSent =>
        \A j \in DOMAIN delivered : \A n \in 1 .. NumberOf(j) - 1 :
            sent[n].stream = sent[NumberOf(j)].stream => \E i \in 1 .. j - 1 : NumberOf(i) = n

\* A datagram message is lost only if one of its segments was lost or waited
\* too long: however it was cut and in whatever order the segments came, it is
\* delivered with the last of them.
LostOnlyWithSegment ==
    kind = "datagram" =>
        \A n \in DOMAIN sent :
            \/ n - 1 \in dropped
            \/ \E f \in datagrams : f.seq = n - 1
            \/ sent[n].data \in Range(delivered)

\* With context takeover each dictionary is the last DictionarySize bytes of
\* everything compressed, or extracted, so far, whichever way each message
\* made room for itself, and whatever the read loop extracts for a command.
DictionaryIsWindow ==
    Converter(compression) = "context-takeover" =>
        /\ dictionary = LastOf(compressed, DictionarySize)
        /\ ext_dictionary = LastOf(extracted, DictionarySize)

\* read() reports the end of the streams only after every message that a task
\* has read from one; and a WebSocket's close frame comes after everything
\* written.
EndIsLast ==
    /\ kind = "stream" /\ reader = "ended" => Len(delivered) = taken
    /\ reader = "close_frame" => Len(delivered) = Len(sent)

\* When the connection goes, or the read loop stops, the reader and every task
\* behind it end: the channel's senders do not keep each other alive.
ReceiversEnd ==
    (conn # "up" \/ reader # "read")
        ~> /\ reader # "read" /\ accept_loop = "ended"
           /\ \A s \in Streams : task[s] \in {"none", "ended"}

-----------------------------------------------------------------------------
(* A stronger reading of the code that TLC refutes (see the README).        *)

\* "Write all remaining messages": what was written before an orderly close
\* arrives.
WrittenIsDelivered ==
    kind = "stream" /\ conn = "closed" /\ reader = "ended" => Len(delivered) = Len(sent)
=============================================================================
