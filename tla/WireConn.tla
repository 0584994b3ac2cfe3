------------------------------ MODULE WireConn ------------------------------
(***************************************************************************)
(* One wire connection (wire/mod.rs, wire/read_loop.rs): the callers that   *)
(* wait for responses, the write loop and the read loop of each lane, the   *)
(* ping loop, the closer task, the streams that register with the read      *)
(* loops under one alias, and the owner that sends Disconnect and closes.    *)
(* The tasks share the cancellation token ct, which the end of any loop      *)
(* cancels.                                                                  *)
(*                                                                         *)
(* The transport and the server are external.  A message is its kind, its   *)
(* request id and the caller whose request it is or answers; the messages   *)
(* of one lane arrive in order.                                             *)
(***************************************************************************)
EXTENDS Integers, Sequences, FiniteSets

CONSTANTS
    Callers,        \* tasks that call request_message_need_response
    Lanes,          \* "reliable", and "unreliable" if the transport has datagrams
    ChannelSize,    \* capacity of the bounded channels
    MaxId,          \* bound: request ids below it
    MaxDatagrams,   \* bound: messages sent with send_message_unreliable
    MaxServer,      \* bound: messages the server sends unasked
    MaxAdds,        \* bound: registrations under the alias
    AliasReused     \* the server may give an alias that a stream still holds to another

ASSUME WireConnAssumption ==
    /\ {"reliable"} \subseteq Lanes /\ Lanes \subseteq {"reliable", "unreliable"}
    /\ ChannelSize \in Nat \ {0} /\ MaxId \in Nat
    /\ MaxDatagrams \in Nat /\ MaxServer \in Nat /\ MaxAdds \in Nat
    /\ AliasReused \in BOOLEAN

VARIABLES
    ct,                \* the cancellation token is cancelled
    request_id_counter,
    response_senders,  \* pairs <<request id, caller>>
    caller,            \* "idle", "queue", "wait", "ok" or "failed"
    request_id,        \* id of the caller's request, -1 for none
    answer,            \* history: whose request the response of a caller answers
    tx_write,          \* messages queued for the write loops
    writer,            \* "run", "drain", "emptied" or "ended"
    reader,            \* "read", "pong", "to_ping", "route" or "ended"
    in_msg,            \* the message a read loop is busy with
    commands,          \* commands for the read loops: n > 0 adds receiver n, 0 removes
    registered,        \* the receiver registered under the alias, or 0
    open,              \* the receivers whose streams hold them, and their guards
    stream_chan,       \* messages in the channel of a receiver
    adds,
    ping,              \* "sleep", "send", "wait" or "ended"
    ping_id, rx_pong,
    closer,            \* "wait" or "closed"
    owner,             \* "run", "close", "wait", "returned" or "skipped"
    datagrams,
    \* the transport and the server (external)
    net_in,            \* messages on their way to the read loops
    net_out,           \* every message written, by lane
    srv_pos,           \* how many of them the server has seen
    srv_pending,       \* messages it has not answered
    srv_sent,
    silent,            \* the server sends nothing any more
    \* history
    early,             \* messages queued before the cancellation
    write_failed       \* lanes whose write loop ended with an error

callerVars == <<request_id_counter, response_senders, caller, request_id, answer>>
streamVars == <<commands, registered, open, stream_chan, adds>>
pingVars   == <<ping, ping_id, rx_pong>>
srvVars    == <<srv_pos, srv_pending, srv_sent, silent>>
vars == <<ct, callerVars, tx_write, writer, reader, in_msg, streamVars, pingVars, closer,
          owner, datagrams, net_in, net_out, srvVars, early, write_failed>>

Msg(kind, id) == [kind |-> kind, id |-> id, by |-> "none"]
NoMsg == Msg("none", 0)
Request(c) == [kind |-> "request", id |-> request_id[c], by |-> c]

Init ==
    /\ ct = FALSE
    /\ request_id_counter = 0 /\ response_senders = {}
    /\ caller = [c \in Callers |-> "idle"]
    /\ request_id = [c \in Callers |-> -1] /\ answer = [c \in Callers |-> "none"]
    /\ tx_write = [l \in Lanes |-> <<>>] /\ writer = [l \in Lanes |-> "run"]
    /\ reader = [l \in Lanes |-> "read"] /\ in_msg = [l \in Lanes |-> NoMsg]
    /\ commands = [l \in Lanes |-> <<>>] /\ registered = [l \in Lanes |-> 0]
    /\ open = {} /\ stream_chan = [n \in 1 .. MaxAdds |-> 0] /\ adds = 0
    /\ ping = "sleep" /\ ping_id = 0 /\ rx_pong = <<>>
    /\ closer = "wait" /\ owner = "run" /\ datagrams = 0
    /\ net_in = [l \in Lanes |-> <<>>] /\ net_out = [l \in Lanes |-> <<>>]
    /\ srv_pos = 0 /\ srv_pending = {} /\ srv_sent = 0 /\ silent = FALSE
    /\ early = [l \in Lanes |-> {}] /\ write_failed = {}

-----------------------------------------------------------------------------
(* Sending *)

\* mpsc::Sender::send on the channel of a write loop: its receiver lives until
\* the loop has returned.
Enqueue(l, m) ==
    /\ writer[l] # "ended" /\ Len(tx_write[l]) < ChannelSize
    /\ tx_write' = [tx_write EXCEPT ![l] = Append(@, m)]
    /\ early' = IF ct THEN early ELSE [early EXCEPT ![l] = @ \cup {m}]

\* Mutant: the counter is read, not advanced.
DrawIdSame == request_id_counter' = request_id_counter

\* RequestIdCounter::get: the ping loop draws from the same counter.
DrawId == request_id_counter' = request_id_counter + 2

\* request_message_need_response: the sender is registered before the request
\* is queued.
CallerRequest(c) ==
    /\ caller[c] = "idle" /\ request_id_counter < MaxId
    /\ DrawId
    /\ request_id' = [request_id EXCEPT ![c] = request_id_counter]
    /\ response_senders' = {p \in response_senders : p[1] # request_id_counter}
                               \cup {<<request_id_counter, c>>}
    /\ caller' = [caller EXCEPT ![c] = "queue"]
    /\ UNCHANGED <<ct, answer, tx_write, writer, reader, in_msg, streamVars, pingVars, closer,
                   owner, datagrams, net_in, net_out, srvVars, early, write_failed>>

\* send_message: the select may find room although ct is cancelled.
CallerQueued(c) ==
    /\ caller[c] = "queue"
    /\ Enqueue("reliable", Request(c))
    /\ caller' = [caller EXCEPT ![c] = "wait"]
    /\ UNCHANGED <<ct, request_id_counter, response_senders, request_id, answer, writer, reader,
                   in_msg, streamVars, pingVars, closer, owner, datagrams, net_in, net_out,
                   srvVars, write_failed>>

\* response_message_timeout, the cancellation, or a write loop that has ended:
\* the sender stays in response_senders.
CallerFails(c) ==
    /\ caller[c] \in {"queue", "wait"}
    /\ caller' = [caller EXCEPT ![c] = "failed"]
    /\ UNCHANGED <<ct, request_id_counter, response_senders, request_id, answer, tx_write,
                   writer, reader, in_msg, streamVars, pingVars, closer, owner, datagrams,
                   net_in, net_out, srvVars, early, write_failed>>

\* send_message_unreliable falls back to the reliable lane.
DatagramLane == IF "unreliable" \in Lanes THEN "unreliable" ELSE "reliable"

SendUnreliable ==
    /\ datagrams < MaxDatagrams
    /\ Enqueue(DatagramLane, Msg("data", datagrams))
    /\ datagrams' = datagrams + 1
    /\ UNCHANGED <<ct, callerVars, writer, reader, in_msg, streamVars, pingVars, closer, owner,
                   net_in, net_out, srvVars, write_failed>>

-----------------------------------------------------------------------------
(* write_loop *)

WriteHead(l) ==
    /\ tx_write[l] # <<>>
    /\ net_out' = [net_out EXCEPT ![l] = Append(@, Head(tx_write[l]))]
    /\ tx_write' = [tx_write EXCEPT ![l] = Tail(@)]

WriterWrite(l) ==
    /\ writer[l] \in {"run", "drain"}
    /\ WriteHead(l)
    /\ UNCHANGED <<ct, callerVars, writer, reader, in_msg, streamVars, pingVars, closer, owner,
                   datagrams, net_in, srvVars, early, write_failed>>

\* A compression or transport error: return, the drop guard cancels ct.
WriterError(l) ==
    /\ writer[l] \in {"run", "drain"} /\ tx_write[l] # <<>>
    /\ writer' = [writer EXCEPT ![l] = "ended"]
    /\ tx_write' = [tx_write EXCEPT ![l] = <<>>]
    /\ write_failed' = write_failed \cup {l}
    /\ ct' = TRUE
    /\ UNCHANGED <<callerVars, reader, in_msg, streamVars, pingVars, closer, owner, datagrams,
                   net_in, net_out, srvVars, early>>

\* Mutant: the loop returns when it is cancelled.
WriterCancelledReturn(l) ==
    /\ writer[l] = "run" /\ ct
    /\ writer' = [writer EXCEPT ![l] = "ended"]
    /\ tx_write' = [tx_write EXCEPT ![l] = <<>>]
    /\ UNCHANGED <<ct, callerVars, reader, in_msg, streamVars, pingVars, closer, owner,
                   datagrams, net_in, net_out, srvVars, early, write_failed>>

\* Cancelled: write all remaining messages.
WriterCancelled(l) ==
    /\ writer[l] = "run" /\ ct
    /\ writer' = [writer EXCEPT ![l] = "drain"]
    /\ UNCHANGED <<ct, callerVars, tx_write, reader, in_msg, streamVars, pingVars, closer, owner,
                   datagrams, net_in, net_out, srvVars, early, write_failed>>

\* try_recv finds the channel empty ...
WriterEmptied(l) ==
    /\ writer[l] = "drain" /\ tx_write[l] = <<>>
    /\ writer' = [writer EXCEPT ![l] = "emptied"]
    /\ UNCHANGED <<ct, callerVars, tx_write, reader, in_msg, streamVars, pingVars, closer, owner,
                   datagrams, net_in, net_out, srvVars, early, write_failed>>

\* ... and the return drops the channel, with what was queued since.
WriterEnd(l) ==
    /\ writer[l] = "emptied"
    /\ writer' = [writer EXCEPT ![l] = "ended"]
    /\ tx_write' = [tx_write EXCEPT ![l] = <<>>]
    /\ UNCHANGED <<ct, callerVars, reader, in_msg, streamVars, pingVars, closer, owner,
                   datagrams, net_in, net_out, srvVars, early, write_failed>>

-----------------------------------------------------------------------------
(* read_loop *)

EndReader(l) ==
    /\ reader' = [reader EXCEPT ![l] = "ended"]
    /\ commands' = [commands EXCEPT ![l] = <<>>]
    /\ registered' = [registered EXCEPT ![l] = 0]
    /\ net_in' = [net_in EXCEPT ![l] = <<>>]
    /\ in_msg' = [in_msg EXCEPT ![l] = NoMsg]
    /\ ct' = TRUE

\* Mutant: the waits for the channels ignore ct.
ReaderCancelledIdle(l) ==
    /\ reader[l] = "read" /\ ct
    /\ EndReader(l)
    /\ UNCHANGED <<callerVars, tx_write, writer, open, stream_chan, adds, pingVars, closer,
                   owner, datagrams, net_out, srvVars, early, write_failed>>

\* ct is in the select of every wait of the loop.
ReaderCancelled(l) ==
    /\ reader[l] # "ended" /\ ct
    /\ EndReader(l)
    /\ UNCHANGED <<callerVars, tx_write, writer, open, stream_chan, adds, pingVars, closer,
                   owner, datagrams, net_out, srvVars, early, write_failed>>

\* A transport, extraction or decoding error, or Disconnect received.
ReaderError(l) ==
    /\ reader[l] = "read"
    /\ EndReader(l)
    /\ UNCHANGED <<callerVars, tx_write, writer, open, stream_chan, adds, pingVars, closer,
                   owner, datagrams, net_out, srvVars, early, write_failed>>

\* process_command; the empty buffer decodes to a message that is dropped.
ReaderCommand(l) ==
    /\ reader[l] = "read" /\ commands[l] # <<>>
    /\ registered' = [registered EXCEPT ![l] = Head(commands[l])]
    /\ commands' = [commands EXCEPT ![l] = Tail(@)]
    /\ UNCHANGED <<ct, callerVars, tx_write, writer, reader, in_msg, open, stream_chan,
                   adds, pingVars, closer, owner, datagrams, net_in, net_out, srvVars, early,
                   write_failed>>

BusyWith(l, state, m) ==
    /\ reader' = [reader EXCEPT ![l] = state]
    /\ in_msg' = [in_msg EXCEPT ![l] = m]

\* A message that some channel is to take; a stream's that is not registered is
\* dropped.
ReaderTake(l) ==
    /\ reader[l] = "read" /\ net_in[l] # <<>>
    /\ LET m == Head(net_in[l]) IN
        /\ \/ m.kind = "ping" /\ BusyWith(l, "pong", m)
           \/ m.kind = "pong" /\ BusyWith(l, "to_ping", m)
           \/ m.kind = "stream" /\ registered[l] # 0 /\ BusyWith(l, "route", m)
           \/ m.kind = "stream" /\ registered[l] = 0 /\ UNCHANGED <<reader, in_msg>>
    /\ net_in' = [net_in EXCEPT ![l] = Tail(@)]
    /\ UNCHANGED <<ct, callerVars, tx_write, writer, streamVars, pingVars, closer, owner,
                   datagrams, net_out, srvVars, early, write_failed>>

\* remove_response_sender, and the response for the caller that still waits; an
\* error code or a response of the wrong type is a failure.
ReaderResponse(l) ==
    /\ reader[l] = "read" /\ net_in[l] # <<>> /\ Head(net_in[l]).kind = "response"
    /\ LET id == Head(net_in[l]).id
           to == {c \in Callers : <<id, c>> \in response_senders /\ caller[c] = "wait"} IN
        /\ response_senders' = {p \in response_senders : p[1] # id}
        /\ answer' = [c \in Callers |-> IF c \in to THEN Head(net_in[l]).by ELSE answer[c]]
        /\ \E r \in {"ok", "failed"} :
             caller' = [c \in Callers |-> IF c \in to THEN r ELSE caller[c]]
    /\ net_in' = [net_in EXCEPT ![l] = Tail(@)]
    /\ UNCHANGED <<ct, request_id_counter, request_id, tx_write, writer, reader, in_msg,
                   streamVars, pingVars, closer, owner, datagrams, net_out, srvVars, early,
                   write_failed>>

\* The answer to a ping of the server waits for room in the write queue.
ReaderPong(l) ==
    /\ reader[l] = "pong"
    /\ Enqueue("reliable", Msg("pong", in_msg[l].id))
    /\ BusyWith(l, "read", NoMsg)
    /\ UNCHANGED <<ct, callerVars, writer, streamVars, pingVars, closer, owner,
                   datagrams, net_in, net_out, srvVars, write_failed>>

ReaderToPing(l) ==
    /\ reader[l] = "to_ping" /\ ping # "ended" /\ Len(rx_pong) < ChannelSize
    /\ rx_pong' = Append(rx_pong, in_msg[l].id)
    /\ BusyWith(l, "read", NoMsg)
    /\ UNCHANGED <<ct, callerVars, tx_write, writer, streamVars, ping, ping_id, closer,
                   owner, datagrams, net_in, net_out, srvVars, early, write_failed>>

\* process_message waits for room at the receiver, unless that is gone.
Receives(l) == registered[l] \in open

ReaderRoute(l) ==
    /\ reader[l] = "route"
    /\ Receives(l) => stream_chan[registered[l]] < ChannelSize
    /\ stream_chan' = IF Receives(l) THEN [stream_chan EXCEPT ![registered[l]] = @ + 1]
                                     ELSE stream_chan
    /\ BusyWith(l, "read", NoMsg)
    /\ UNCHANGED <<ct, callerVars, tx_write, writer, commands, registered, open,
                   adds, pingVars, closer, owner, datagrams, net_in, net_out, srvVars, early,
                   write_failed>>

-----------------------------------------------------------------------------
(* The streams: add_upstream or add_downstream, and the drop of their guards *)

Command(cmd) ==
    commands' = [l \in Lanes |-> IF reader[l] = "ended" THEN commands[l]
                                                        ELSE Append(commands[l], cmd)]

\* A stream registers again when the guard of its registration before is gone,
\* and downstreams have aliases of their own.  The alias of an upstream is the
\* server's choice: the stream that had it may still wait for the response to
\* its close request.
StreamAdd ==
    /\ AliasReused \/ open = {}
    /\ adds < MaxAdds
    /\ \A l \in Lanes : reader[l] # "ended"
    /\ Command(adds + 1)
    /\ open' = open \cup {adds + 1} /\ adds' = adds + 1
    /\ UNCHANGED <<ct, callerVars, tx_write, writer, reader, in_msg, registered, stream_chan,
                   pingVars, closer, owner, datagrams, net_in, net_out, srvVars, early,
                   write_failed>>

StreamRead(n) ==
    /\ stream_chan[n] > 0
    /\ stream_chan' = [stream_chan EXCEPT ![n] = @ - 1]
    /\ UNCHANGED <<ct, callerVars, tx_write, writer, reader, in_msg, commands, registered,
                   open, adds, pingVars, closer, owner, datagrams, net_in, net_out,
                   srvVars, early, write_failed>>

\* Mutant: no guard, so no command.
StreamDropUnguarded(n) ==
    /\ open' = open \ {n} /\ stream_chan' = [stream_chan EXCEPT ![n] = 0]
    /\ UNCHANGED <<ct, callerVars, tx_write, writer, reader, in_msg, commands, registered, adds,
                   pingVars, closer, owner, datagrams, net_in, net_out, srvVars, early,
                   write_failed>>

\* The guards go before the receiver.  They name the alias, not the receiver.
StreamDrop(n) ==
    /\ Command(0)
    /\ open' = open \ {n} /\ stream_chan' = [stream_chan EXCEPT ![n] = 0]
    /\ UNCHANGED <<ct, callerVars, tx_write, writer, reader, in_msg, registered, adds, pingVars,
                   closer, owner, datagrams, net_in, net_out, srvVars, early, write_failed>>

-----------------------------------------------------------------------------
(* ping_pong_loop *)

\* ping_interval elapses.  (The bound spares an id for the silent server.)
PingTick ==
    /\ ping = "sleep"
    /\ request_id_counter < MaxId \/ (silent /\ request_id_counter = MaxId)
    /\ DrawId
    /\ ping_id' = request_id_counter
    /\ ping' = "send"
    /\ UNCHANGED <<ct, response_senders, caller, request_id, answer, tx_write, writer, reader,
                   in_msg, streamVars, rx_pong, closer, owner, datagrams, net_in, net_out,
                   srvVars, early, write_failed>>

PingSend ==
    /\ ping = "send"
    /\ Enqueue("reliable", Msg("ping", ping_id))
    /\ ping' = "wait"
    /\ UNCHANGED <<ct, callerVars, writer, reader, in_msg, streamVars, ping_id, rx_pong, closer,
                   owner, datagrams, net_in, net_out, srvVars, write_failed>>

\* A pong of an earlier ping is skipped.
PingPong ==
    /\ ping = "wait" /\ rx_pong # <<>>
    /\ ping' = IF Head(rx_pong) >= ping_id THEN "sleep" ELSE "wait"
    /\ rx_pong' = Tail(rx_pong)
    /\ UNCHANGED <<ct, callerVars, tx_write, writer, reader, in_msg, streamVars, ping_id, closer,
                   owner, datagrams, net_in, net_out, srvVars, early, write_failed>>

\* Mutant: the wait for the pong has no timeout.
PingEndUntimed ==
    /\ ping # "ended" /\ ct
    /\ ping' = "ended"
    /\ rx_pong' = <<>>
    /\ ct' = TRUE
    /\ UNCHANGED <<callerVars, tx_write, writer, reader, in_msg, streamVars, ping_id, closer,
                   owner, datagrams, net_in, net_out, srvVars, early, write_failed>>

\* ping_timeout, for the room in the queue or for the pong, the cancellation, or
\* the end of the loop at the other end of a channel.
PingEnd ==
    /\ ping \in {"send", "wait"} \/ (ping = "sleep" /\ ct)
    /\ ping' = "ended"
    /\ rx_pong' = <<>>
    /\ ct' = TRUE
    /\ UNCHANGED <<callerVars, tx_write, writer, reader, in_msg, streamVars, ping_id, closer,
                   owner, datagrams, net_in, net_out, srvVars, early, write_failed>>

-----------------------------------------------------------------------------
(* close_task, and the owner of the connection *)

\* waiter_rw: the read loops and the reliable write loop.
ReadWriteEnded ==
    /\ \A l \in Lanes : reader[l] = "ended"
    /\ writer["reliable"] = "ended"

CloserClose ==
    /\ closer = "wait" /\ ct /\ ReadWriteEnded
    /\ closer' = "closed"
    /\ UNCHANGED <<ct, callerVars, tx_write, writer, reader, in_msg, streamVars, pingVars, owner,
                   datagrams, net_in, net_out, srvVars, early, write_failed>>

\* Mutant: the closer task holds no wait group.
TasksEndedNoCloser ==
    /\ ping = "ended"
    /\ \A l \in Lanes \ {"reliable"} : writer[l] = "ended"

\* waiter: the closer, the ping loop and the unreliable write loop.
TasksEnded ==
    /\ closer = "closed" /\ ping = "ended"
    /\ \A l \in Lanes \ {"reliable"} : writer[l] = "ended"

\* The reconnection loop, its token cancelled, sends Disconnect and closes.
OwnerDisconnect ==
    /\ owner = "run"
    /\ Enqueue("reliable", Msg("disconnect", 0))
    /\ owner' = "close"
    /\ UNCHANGED <<ct, callerVars, writer, reader, in_msg, streamVars, pingVars, closer,
                   datagrams, net_in, net_out, srvVars, write_failed>>

\* send_message fails, by timeout or cancellation.
OwnerCannotSend ==
    /\ owner = "run"
    /\ owner' = "close"
    /\ UNCHANGED <<ct, callerVars, tx_write, writer, reader, in_msg, streamVars, pingVars,
                   closer, datagrams, net_in, net_out, srvVars, early, write_failed>>

\* close returns at once when ct is cancelled already.
OwnerClose ==
    /\ owner = "close"
    /\ owner' = IF ct THEN "skipped" ELSE "wait"
    /\ ct' = TRUE
    /\ UNCHANGED <<callerVars, tx_write, writer, reader, in_msg, streamVars, pingVars, closer,
                   datagrams, net_in, net_out, srvVars, early, write_failed>>

OwnerReturned ==
    /\ owner = "wait" /\ TasksEnded
    /\ owner' = "returned"
    /\ UNCHANGED <<ct, callerVars, tx_write, writer, reader, in_msg, streamVars, pingVars,
                   closer, datagrams, net_in, net_out, srvVars, early, write_failed>>

-----------------------------------------------------------------------------
(* The server (external) *)

ServerActive == ~silent /\ reader["reliable"] # "ended"

ServerRead ==
    /\ ServerActive /\ srv_pos < Len(net_out["reliable"])
    /\ srv_pos' = srv_pos + 1
    /\ srv_pending' = srv_pending \cup {net_out["reliable"][srv_pos + 1]}
    /\ UNCHANGED <<ct, callerVars, tx_write, writer, reader, in_msg, streamVars, pingVars, closer,
                   owner, datagrams, net_in, net_out, srv_sent, silent, early, write_failed>>

\* Requests and pings are answered in any order, if at all.
ServerAnswer ==
    /\ ServerActive
    /\ \E m \in srv_pending :
        /\ m.kind \in {"request", "ping"}
        /\ srv_pending' = srv_pending \ {m}
        /\ net_in' = [net_in EXCEPT !["reliable"] =
             Append(@, [m EXCEPT !.kind = IF @ = "ping" THEN "pong" ELSE "response"])]
    /\ UNCHANGED <<ct, callerVars, tx_write, writer, reader, in_msg, streamVars, pingVars, closer,
                   owner, datagrams, net_out, srv_pos, srv_sent, silent, early, write_failed>>

\* Its own pings, with odd ids, and messages for the stream.
ServerSend ==
    /\ ServerActive /\ srv_sent < MaxServer
    /\ \E l \in Lanes, kind \in {"ping", "stream"} :
        net_in' = [net_in EXCEPT ![l] = Append(@, Msg(kind, 2 * srv_sent + 1))]
    /\ srv_sent' = srv_sent + 1
    /\ UNCHANGED <<ct, callerVars, tx_write, writer, reader, in_msg, streamVars, pingVars, closer,
                   owner, datagrams, net_out, srv_pos, srv_pending, silent, early, write_failed>>

ServerSilent ==
    /\ ServerActive
    /\ silent' = TRUE
    /\ UNCHANGED <<ct, callerVars, tx_write, writer, reader, in_msg, streamVars, pingVars, closer,
                   owner, datagrams, net_in, net_out, srv_pos, srv_pending, srv_sent, early,
                   write_failed>>

-----------------------------------------------------------------------------
Caller(c) == CallerRequest(c) \/ CallerQueued(c) \/ CallerFails(c)

Writer(l) == WriterWrite(l) \/ WriterError(l) \/ WriterCancelled(l) \/ WriterEmptied(l)
             \/ WriterEnd(l)

Reader(l) == ReaderCancelled(l) \/ ReaderCommand(l) \/ ReaderTake(l) \/ ReaderResponse(l)
             \/ ReaderPong(l) \/ ReaderToPing(l) \/ ReaderRoute(l)

Ping == PingTick \/ PingSend \/ PingPong \/ PingEnd

Owner == OwnerDisconnect \/ OwnerCannotSend \/ OwnerClose \/ OwnerReturned

Stream == StreamAdd \/ \E n \in open : StreamRead(n) \/ StreamDrop(n)

Server == ServerRead \/ ServerAnswer \/ ServerSend \/ ServerSilent

\* Every task has ended.
AllEnded == TasksEnded /\ ReadWriteEnded

Finished == AllEnded /\ UNCHANGED vars

Next == \/ \E c \in Callers : Caller(c)
        \/ \E l \in Lanes : Writer(l) \/ Reader(l) \/ ReaderError(l)
        \/ Ping \/ Owner \/ Stream \/ SendUnreliable \/ CloserClose \/ Server \/ Finished

Spec == Init /\ [][Next]_vars

\* The runtime polls every task whose wait is over; a write to the transport
\* returns, with or without an error.  Nothing is assumed of the callers, the
\* streams, the server or the transport's reads.
FairSpec == /\ Spec
            /\ \A l \in Lanes : WF_vars(Writer(l)) /\ WF_vars(Reader(l))
            /\ WF_vars(Ping) /\ WF_vars(CloserClose)

-----------------------------------------------------------------------------
(* Properties *)

Messages == [kind : {"request", "response", "ping", "pong", "stream", "data", "disconnect",
                     "none"},
             id : Nat, by : Callers \cup {"none"}]

\* Every variable has its type, and the bounded channels keep their bound.
TypeOK ==
    /\ {ct, silent} \subseteq BOOLEAN
    /\ request_id_counter \in 0 .. MaxId + 2
    /\ response_senders \subseteq Nat \X Callers
    /\ caller \in [Callers -> {"idle", "queue", "wait", "ok", "failed"}]
    /\ request_id \in [Callers -> Nat \cup {-1}]
    /\ answer \in [Callers -> Callers \cup {"none"}]
    /\ writer \in [Lanes -> {"run", "drain", "emptied", "ended"}]
    /\ reader \in [Lanes -> {"read", "pong", "to_ping", "route", "ended"}]
    /\ in_msg \in [Lanes -> Messages]
    /\ \A l \in Lanes :
        /\ tx_write[l] \in Seq(Messages) /\ Len(tx_write[l]) <= ChannelSize
        /\ net_in[l] \in Seq(Messages) /\ net_out[l] \in Seq(Messages)
        /\ commands[l] \in Seq(0 .. MaxAdds)
        /\ early[l] \subseteq Messages
    /\ registered \in [Lanes -> 0 .. MaxAdds]
    /\ adds \in 0 .. MaxAdds /\ open \subseteq 1 .. adds
    /\ stream_chan \in [1 .. MaxAdds -> 0 .. ChannelSize]
    /\ ping \in {"sleep", "send", "wait", "ended"} /\ ping_id \in Nat
    /\ rx_pong \in Seq(Nat) /\ Len(rx_pong) <= ChannelSize
    /\ closer \in {"wait", "closed"}
    /\ owner \in {"run", "close", "wait", "returned", "skipped"}
    /\ datagrams \in 0 .. MaxDatagrams /\ srv_sent \in 0 .. MaxServer
    /\ srv_pos \in 0 .. Len(net_out["reliable"]) /\ srv_pending \subseteq Messages
    /\ write_failed \subseteq Lanes

\* A request succeeds with the response to that request, although responses are
\* late, in any order, or for callers that have given up.
OwnResponse == \A c \in Callers : caller[c] = "ok" => answer[c] = c

\* Whatever was queued before the cancellation is written, unless the transport
\* fails: the end of a write loop loses nothing else.
QueuedIsWritten ==
    \A l \in Lanes \ write_failed : writer[l] = "ended" =>
        \A m \in early[l] : \E i \in 1 .. Len(net_out[l]) : net_out[l][i] = m

\* close() that cancelled the connection itself returns when all its tasks have
\* ended, and the Disconnect message, if it was queued, is written or failed.
CloseIsOrderly ==
    owner = "returned" =>
        /\ AllEnded
        /\ \A m \in early["reliable"] : m.kind = "disconnect" =>
            \/ "reliable" \in write_failed
            \/ \E i \in 1 .. Len(net_out["reliable"]) : net_out["reliable"][i] = m

\* A read loop that has no command to process routes to the receiver of the
\* stream that has the alias now, however often streams came and went with it
\* before, and to none when that stream has dropped its own.
RoutedToCurrent ==
    \A l \in Lanes : reader[l] # "ended" /\ commands[l] = <<>> =>
        registered[l] = IF adds \in open THEN adds ELSE 0

\* A server that falls silent is noticed, whatever the loops are waiting for.
SilenceIsNoticed == silent ~> ct

\* A cancelled connection ends all its tasks and closes the transport, with no
\* help from the streams or the callers.
CancelledEnds == ct ~> AllEnded

-----------------------------------------------------------------------------
(* A stronger reading of the code that TLC refutes (see the README).        *)

\* "closer.close() is called after reader and writer close": the transport is
\* closed after every loop that uses it has ended.
ClosedLast ==
    closer = "closed" => \A l \in Lanes : reader[l] = "ended" /\ writer[l] = "ended"
=============================================================================
