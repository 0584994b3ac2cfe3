------------------------------ MODULE E2ECall -------------------------------
(***************************************************************************)
(* The E2E calls of a connection (iscp/e2e.rs): tasks that send a call and  *)
(* wait for its ack, tasks that also wait for the reply call, tasks that    *)
(* receive calls, their retry loops over the states of the connection, and  *)
(* what the read loop does for them: the call ids that wait for an ack and  *)
(* the broadcast channel of received calls.                                 *)
(*                                                                         *)
(* A call is its id; send_reply_call is send_call with another field set.   *)
(* The wire connection breaks in one step; the server and the peer node are *)
(* external.                                                                *)
(***************************************************************************)
EXTENDS Integers, Sequences, FiniteSets

CONSTANTS
    Callers,      \* tasks that send a call, with or without waiting for its reply
    Receivers,    \* tasks that call recv_call again and again
    Capacity,     \* calls the broadcast channel keeps
    MaxIds,       \* bound: call ids, that is attempts
    MaxConns,     \* bound: connections the reconnection makes
    MaxCalls      \* bound: calls, no replies, that a peer node makes

Tasks == Callers \cup Receivers

ASSUME E2ECallAssumption ==
    /\ Callers \cap Receivers = {}
    /\ Capacity \in Nat \ {0} /\ MaxIds \in Nat
    /\ MaxConns \in Nat \ {0} /\ MaxCalls \in Nat

VARIABLES
    \* the tasks
    pc,           \* where the task is; "ok" and "err" are results
    id,           \* call_id of the attempt, 0 before the first
    conn,         \* number of the wire connection of the attempt
    pos,          \* calls of that connection the task's receiver is past, 0 without one
    last_id,      \* new_call_id: ids are never used twice
    \* Conn
    state,        \* the ConnectionState
    closer,       \* of close(): "first", or "again" when that was dropped
    close,        \* how far close() got: "open", "closing" or "cancelled" (ct)
    recon,        \* where reconnection_loop is
    epoch,        \* number of the connection in SharedWireConn
    up,           \* it is alive
    \* its read loop
    commands,     \* <<"subscribe" or "remove", call id>>
    tx_call_ack,  \* call ids that wait for an ack
    acked,        \* call ids whose ack reached the oneshot channel
    calls,        \* by connection: request_call_id of every call received, or 0
    \* the network, the server and the peer node (external)
    net_out,      \* calls on their way to the server
    net_in,       \* <<"ack" or "call", id>> on the way back
    unacked,      \* calls the server handled and did not ack
    unreplied,    \* calls the peer node did not reply to
    peer_calls,
    \* history
    handled,      \* <<task, call id, connection>> the server handled
    received      \* by receiver: <<connection, position>> of what it returned

taskVars == <<pc, id, conn, pos, last_id>>
connVars == <<state, closer, close, recon, epoch, up>>
readVars == <<commands, tx_call_ack, acked, calls>>
netVars  == <<net_out, net_in, unacked, unreplied, peer_calls>>
histVars == <<handled, received>>
vars == <<taskVars, connVars, readVars, netVars, histVars>>

Alive(t) == conn[t] = epoch /\ up
ct == close = "cancelled"

Init ==
    /\ pc = [t \in Tasks |-> "state"] /\ id = [t \in Tasks |-> 0]
    /\ conn = [t \in Tasks |-> 1] /\ pos = [t \in Tasks |-> 0] /\ last_id = 0
    /\ state = "Connected" /\ closer = "first" /\ close = "open"
    /\ recon = "top" /\ epoch = 1 /\ up = TRUE
    /\ commands = <<>> /\ tx_call_ack = {} /\ acked = {}
    /\ calls = [c \in 1 .. MaxConns |-> <<>>]
    /\ net_out = {} /\ net_in = <<>> /\ unacked = {} /\ unreplied = {} /\ peer_calls = 0
    /\ handled = {} /\ received = [r \in Receivers |-> <<>>]

-----------------------------------------------------------------------------
(* The retry loops *)

Goto(t, place) == pc' = [pc EXCEPT ![t] = place]

\* Mutant: the wait is for the given state only.
WaitForStateOnly(t) ==
    /\ pc[t] = "state" /\ state = "Connected"
    /\ Goto(t, "attempt")
    /\ UNCHANGED <<id, conn, pos, last_id, connVars, readVars, netVars, histVars>>

\* wait_for_state(Connected), which Closed ends with an error.
WaitForState(t) ==
    /\ pc[t] = "state"
    /\ \/ state = "Connected" /\ Goto(t, "attempt")
       \/ state = "Closed" /\ Goto(t, "err")
    /\ UNCHANGED <<id, conn, pos, last_id, connVars, readVars, netVars, histVars>>

\* Mutant: nothing is sent to the read loop.
EndAttemptUnguarded(t, place) ==
    /\ Goto(t, place)
    /\ acked' = acked \ {id[t]} /\ pos' = [pos EXCEPT ![t] = 0]
    /\ UNCHANGED commands

\* The attempt ends: its oneshot channel and its receiver of calls go, and the
\* guard of subscribe_call_ack sends RemoveCallAck.
EndAttempt(t, place) ==
    /\ Goto(t, place)
    /\ acked' = acked \ {id[t]} /\ pos' = [pos EXCEPT ![t] = 0]
    /\ commands' = IF t \in Callers /\ Alive(t) THEN Append(commands, <<"remove", id[t]>>)
                                                ELSE commands

\* ConnectionClosed and CancelledByClose are can_retry: back to wait_for_state.
Retry(t) == EndAttempt(t, "state")

\* cancelled_return_err
Cancelled(t) ==
    /\ pc[t] \in {"attempt", "send", "ack", "reply", "recv"} /\ ct
    /\ IF pc[t] = "attempt" THEN Goto(t, "state") /\ UNCHANGED <<pos, commands, acked>>
                            ELSE Retry(t)
    /\ UNCHANGED <<id, conn, last_id, connVars, tx_call_ack, calls, netVars, histVars>>

\* The application drops the future; elsewhere that leaves nothing behind.
Dropped(t) ==
    /\ pc[t] \in {"send", "ack", "reply"}
    /\ EndAttempt(t, "err")
    /\ UNCHANGED <<id, conn, last_id, connVars, tx_call_ack, calls, netVars, histVars>>

\* ConnInner::wire_conn finds a connection that is dead already.
NotConnected(t) ==
    /\ pc[t] = "attempt" /\ ~up
    /\ Goto(t, "state")
    /\ UNCHANGED <<id, conn, pos, last_id, connVars, readVars, netVars, histVars>>

-----------------------------------------------------------------------------
(* Sending *)

\* Mutant: a receiver that starts at the oldest call kept.
TailOldest == IF Len(calls[epoch]) > Capacity THEN Len(calls[epoch]) - Capacity ELSE 0

\* subscribe_downstream_call: a resubscribed receiver starts at the tail.
TailOfCalls == Len(calls[epoch])

\* subscribe_call_ack, then subscribe_downstream_call.
Subscribe(t) ==
    /\ t \in Callers /\ pc[t] = "attempt" /\ up /\ last_id < MaxIds
    /\ last_id' = last_id + 1
    /\ id' = [id EXCEPT ![t] = last_id + 1]
    /\ conn' = [conn EXCEPT ![t] = epoch]
    /\ pos' = [pos EXCEPT ![t] = TailOfCalls]
    /\ commands' = Append(commands, <<"subscribe", last_id + 1>>)
    /\ Goto(t, "send")
    /\ UNCHANGED <<connVars, tx_call_ack, acked, calls, netVars, histVars>>

Send(t) ==
    /\ pc[t] = "send" /\ Alive(t)
    /\ net_out' = net_out \cup {id[t]}
    /\ Goto(t, "ack")
    /\ UNCHANGED <<id, conn, pos, last_id, connVars, readVars, net_in, unacked, unreplied,
                   peer_calls, histVars>>

\* send_message: a full queue is a Timeout and an ended write loop Unexpected,
\* which are not retried; the cancelled token of the connection is.
SendFails(t) ==
    /\ pc[t] = "send"
    /\ \/ EndAttempt(t, "err")
       \/ ~Alive(t) /\ Retry(t)
    /\ UNCHANGED <<id, conn, last_id, connVars, tx_call_ack, calls, netVars, histVars>>

\* Mutant: the receiver of calls is made once the ack is in.
AckReceivedThenSubscribe(t) ==
    /\ pc[t] = "ack" /\ id[t] \in acked
    /\ \/ /\ Goto(t, "reply") /\ UNCHANGED <<commands, acked>>
          /\ pos' = [pos EXCEPT ![t] = Len(calls[conn[t]])]
       \/ EndAttempt(t, "ok")
    /\ UNCHANGED <<id, conn, last_id, connVars, tx_call_ack, calls, netVars, histVars>>

\* send_call_and_wait_reply_call goes on; send_call and send_reply_call return.
AckReceived(t) ==
    /\ pc[t] = "ack" /\ id[t] \in acked
    /\ \/ Goto(t, "reply") /\ UNCHANGED <<pos, commands, acked>>
       \/ EndAttempt(t, "ok")
    /\ UNCHANGED <<id, conn, last_id, connVars, tx_call_ack, calls, netVars, histVars>>

\* Mutant: the error of the oneshot channel is ignored.
AckClosedIgnored(t) ==
    /\ pc[t] = "ack" /\ id[t] \notin acked /\ ~Alive(t)
    /\ EndAttempt(t, "ok")
    /\ UNCHANGED <<id, conn, last_id, connVars, tx_call_ack, calls, netVars, histVars>>

\* The oneshot sender went with the read loop.  There is no time limit.
AckClosed(t) ==
    /\ pc[t] = "ack" /\ id[t] \notin acked /\ ~Alive(t)
    /\ Retry(t)
    /\ UNCHANGED <<id, conn, last_id, connVars, tx_call_ack, calls, netVars, histVars>>

-----------------------------------------------------------------------------
(* Receiving *)

\* DownstreamCallReceiver::recv: a receiver that lags goes on with the oldest
\* call the channel still keeps.
NextPos(t) == LET n == Len(calls[conn[t]])
              IN  IF pos[t] + Capacity < n THEN n - Capacity + 1 ELSE pos[t] + 1
HasNext(t) == pos[t] < Len(calls[conn[t]])
NextCall(t) == calls[conn[t]][NextPos(t)]

\* wait_matching_reply: calls that do not match are skipped.
Reply(t) ==
    /\ pc[t] = "reply" /\ HasNext(t)
    /\ IF NextCall(t) = id[t]
       THEN EndAttempt(t, "ok")
       ELSE pos' = [pos EXCEPT ![t] = NextPos(t)] /\ UNCHANGED <<pc, commands, acked>>
    /\ UNCHANGED <<id, conn, last_id, connVars, tx_call_ack, calls, netVars, histVars>>

\* e2e_call_reply_timeout: Timeout is not can_retry.
ReplyTimeout(t) ==
    /\ pc[t] = "reply"
    /\ EndAttempt(t, "err")
    /\ UNCHANGED <<id, conn, last_id, connVars, tx_call_ack, calls, netVars, histVars>>

\* The broadcast channel is closed, and empty.
ReplyClosed(t) ==
    /\ pc[t] = "reply" /\ ~HasNext(t) /\ ~Alive(t)
    /\ Retry(t)
    /\ UNCHANGED <<id, conn, last_id, connVars, tx_call_ack, calls, netVars, histVars>>

\* recv_call_inner subscribes anew for every call.
RecvSubscribe(t) ==
    /\ t \in Receivers /\ pc[t] = "attempt" /\ up
    /\ conn' = [conn EXCEPT ![t] = epoch]
    /\ pos' = [pos EXCEPT ![t] = TailOfCalls]
    /\ Goto(t, "recv")
    /\ UNCHANGED <<id, last_id, connVars, readVars, netVars, histVars>>

\* try_recv_call: a reply call sends the task around its inner loop.
Recv(t) ==
    /\ pc[t] = "recv" /\ HasNext(t)
    /\ IF NextCall(t) = 0
       THEN /\ received' = [received EXCEPT ![t] = Append(@, <<conn[t], NextPos(t)>>)]
            /\ Goto(t, "state")
       ELSE /\ Goto(t, "attempt")
            /\ UNCHANGED received
    /\ pos' = [pos EXCEPT ![t] = 0]
    /\ UNCHANGED <<id, conn, last_id, connVars, readVars, netVars, handled>>

RecvClosed(t) ==
    /\ pc[t] = "recv" /\ ~HasNext(t) /\ ~Alive(t)
    /\ Retry(t)
    /\ UNCHANGED <<id, conn, last_id, connVars, tx_call_ack, calls, netVars, histVars>>

-----------------------------------------------------------------------------
(* The read loop: select! takes a command or a message *)

ReadCommand ==
    /\ up /\ commands # <<>>
    /\ LET c == Head(commands) IN
         tx_call_ack' = IF c[1] = "subscribe" THEN tx_call_ack \cup {c[2]}
                                              ELSE tx_call_ack \ {c[2]}
    /\ commands' = Tail(commands)
    /\ UNCHANGED <<taskVars, connVars, acked, calls, netVars, histVars>>

\* An ack for an id that is not registered is dropped.
ReadAck ==
    /\ up /\ net_in # <<>> /\ Head(net_in)[1] = "ack"
    /\ acked' = acked \cup (tx_call_ack \cap {Head(net_in)[2]})
    /\ tx_call_ack' = tx_call_ack \ {Head(net_in)[2]}
    /\ net_in' = Tail(net_in)
    /\ UNCHANGED <<taskVars, connVars, commands, calls, net_out, unacked, unreplied,
                   peer_calls, histVars>>

ReadCall ==
    /\ up /\ net_in # <<>> /\ Head(net_in)[1] = "call"
    /\ calls' = [calls EXCEPT ![epoch] = Append(@, Head(net_in)[2])]
    /\ net_in' = Tail(net_in)
    /\ UNCHANGED <<taskVars, connVars, commands, tx_call_ack, acked, net_out, unacked,
                   unreplied, peer_calls, histVars>>

-----------------------------------------------------------------------------
(* Conn::close and reconnection_loop *)

\* close() has a permit of close_semaphore and takes the waiter of the streams.
CloseStart ==
    /\ close = "open"
    /\ close' = "closing" /\ state' = "Closing"
    /\ UNCHANGED <<taskVars, closer, recon, epoch, up, readVars, netVars, histVars>>

CloseCancel ==
    /\ closer = "first" /\ close = "closing"
    /\ close' = "cancelled"
    /\ UNCHANGED <<taskVars, state, closer, recon, epoch, up, readVars, netVars, histVars>>

\* The application drops the future at one of its two waits, which gives the
\* permit back and leaves the semaphore open, and calls close() again: that
\* sends Closing, whatever the state is by then, and panics at
\* take_stream_waiter.  So does the next one.
CloseAgain ==
    /\ close # "open"
    /\ closer' = "again" /\ state' = "Closing"
    /\ UNCHANGED <<taskVars, close, recon, epoch, up, readVars, netVars, histVars>>

\* The connection ends with its read loop, its queues and what is on the way.
WireEnds ==
    /\ up' = FALSE
    /\ commands' = <<>> /\ tx_call_ack' = {}
    /\ net_out' = {} /\ net_in' = <<>> /\ unacked' = {}

ReconTop ==
    /\ recon = "top"
    /\ state' = "Connected" /\ recon' = "select"
    /\ UNCHANGED <<taskVars, closer, close, epoch, up, readVars, netVars, histVars>>

ReconLost ==
    /\ recon = "select" /\ ~up
    /\ state' = "Reconnecting" /\ recon' = "connect"
    /\ UNCHANGED <<taskVars, closer, close, epoch, up, readVars, netVars, histVars>>

\* The new connection is published before the state says so.
ReconConnect ==
    /\ recon = "connect" /\ epoch < MaxConns
    /\ epoch' = epoch + 1 /\ up' = TRUE /\ recon' = "top"
    /\ UNCHANGED <<taskVars, state, closer, close, readVars, netVars, histVars>>

ReconAbort ==
    /\ recon = "connect" /\ ct
    /\ recon' = "ended"
    /\ UNCHANGED <<taskVars, state, closer, close, epoch, up, readVars, netVars, histVars>>

ReconClose ==
    /\ recon = "select" /\ ct
    /\ WireEnds
    /\ recon' = "ended"
    /\ UNCHANGED <<taskVars, state, closer, close, epoch, acked, calls, unreplied,
                   peer_calls, histVars>>

ReconEnd ==
    /\ recon = "ended"
    /\ state' = "Closed" /\ recon' = "done"
    /\ UNCHANGED <<taskVars, closer, close, epoch, up, readVars, netVars, histVars>>

-----------------------------------------------------------------------------
(* The network, the server and the peer node (external) *)

WireDown ==
    /\ up
    /\ WireEnds
    /\ UNCHANGED <<taskVars, state, closer, close, recon, epoch, acked, calls, unreplied,
                   peer_calls, histVars>>

ServerHandle ==
    /\ \E t \in Callers :
        /\ id[t] \in net_out
        /\ net_out' = net_out \ {id[t]}
        /\ unacked' = unacked \cup {id[t]}
        /\ unreplied' = unreplied \cup {id[t]}
        /\ handled' = handled \cup {<<t, id[t], epoch>>}
    /\ UNCHANGED <<taskVars, connVars, readVars, net_in, peer_calls, received>>

ServerAck ==
    /\ \E i \in unacked :
        /\ unacked' = unacked \ {i}
        /\ net_in' = Append(net_in, <<"ack", i>>)
    /\ UNCHANGED <<taskVars, connVars, readVars, net_out, unreplied, peer_calls, histVars>>

\* A reply may overtake the ack, or come on a later connection.
PeerReply ==
    /\ up
    /\ \E i \in unreplied :
        /\ unreplied' = unreplied \ {i}
        /\ net_in' = Append(net_in, <<"call", i>>)
    /\ UNCHANGED <<taskVars, connVars, readVars, net_out, unacked, peer_calls, histVars>>

PeerCall ==
    /\ up /\ peer_calls < MaxCalls
    /\ peer_calls' = peer_calls + 1
    /\ net_in' = Append(net_in, <<"call", 0>>)
    /\ UNCHANGED <<taskVars, connVars, readVars, net_out, unacked, unreplied, histVars>>

\* Nothing is left to do.
Finished ==
    /\ recon = "done" /\ \A t \in Tasks : pc[t] \in {"ok", "err"}
    /\ UNCHANGED vars

-----------------------------------------------------------------------------
TaskRuns(t) ==
    \/ WaitForState(t) \/ Cancelled(t) \/ NotConnected(t)
    \/ Subscribe(t) \/ Send(t) \/ SendFails(t) \/ AckReceived(t) \/ AckClosed(t)
    \/ Reply(t) \/ ReplyTimeout(t) \/ ReplyClosed(t)
    \/ RecvSubscribe(t) \/ Recv(t) \/ RecvClosed(t)

ReconRuns == ReconTop \/ ReconLost \/ ReconConnect \/ ReconAbort \/ ReconClose \/ ReconEnd

Next ==
    \/ \E t \in Tasks : Dropped(t) \/ TaskRuns(t)
    \/ ReadCommand \/ ReadAck \/ ReadCall
    \/ CloseStart \/ CloseCancel \/ CloseAgain \/ ReconRuns
    \/ WireDown \/ ServerHandle \/ ServerAck \/ PeerReply \/ PeerCall \/ Finished

Spec == Init /\ [][Next]_vars

-----------------------------------------------------------------------------
(* Properties *)

Ids == 1 .. MaxIds
Conns == 1 .. MaxConns

\* Every variable has the type its Rust counterpart has.
TypeOK ==
    /\ pc \in [Tasks -> {"state", "attempt", "send", "ack", "reply", "recv", "ok", "err"}]
    /\ id \in [Tasks -> 0 .. MaxIds] /\ conn \in [Tasks -> Conns] /\ pos \in [Tasks -> Nat]
    /\ last_id \in 0 .. MaxIds
    /\ state \in {"Connected", "Reconnecting", "Closing", "Closed"}
    /\ closer \in {"first", "again"}
    /\ close \in {"open", "closing", "cancelled"}
    /\ recon \in {"top", "select", "connect", "ended", "done"}
    /\ epoch \in Conns /\ up \in BOOLEAN
    /\ commands \in Seq({"subscribe", "remove"} \X Ids)
    /\ tx_call_ack \subseteq Ids /\ acked \subseteq Ids
    /\ calls \in [Conns -> Seq(0 .. MaxIds)]
    /\ net_out \subseteq Ids /\ net_in \in Seq({"ack", "call"} \X (0 .. MaxIds))
    /\ unacked \subseteq Ids /\ unreplied \subseteq Ids /\ peer_calls \in 0 .. MaxCalls
    /\ handled \subseteq Callers \X Ids \X Conns
    /\ received \in [Receivers -> Seq(Conns \X (Nat \ {0}))]
    /\ \A t \in Tasks : pos[t] <= Len(calls[conn[t]])

\* A call that returned Ok was handled by the server under the id that the
\* caller got, however many attempts were cut off before.
OkWasHandled ==
    \A t \in Callers : pc[t] = "ok" => <<t, id[t], conn[t]>> \in handled

\* Until Conn::close cancels the token the server sees a call again only on
\* another connection: what the retry loops repeat, they repeat after the
\* connection broke.
OncePerConnection ==
    ~ct => \A g, h \in handled : g[1] = h[1] /\ g[3] = h[3] => g[2] = h[2]

\* What the retry loops report and repeat agrees with what the server saw.
RetriesAreSound == OkWasHandled /\ OncePerConnection

\* The reply to a call in progress is still ahead of the task that waits for
\* it, even when it overtook the ack, unless the channel has dropped it.
NoReplyMissed ==
    \A t \in Callers : pc[t] \in {"ack", "reply"} =>
        LET received_calls == calls[conn[t]] IN
        \A i \in 1 .. Len(received_calls) :
            received_calls[i] = id[t] => pos[t] < i \/ i + Capacity <= Len(received_calls)

\* Receiving in a loop never returns a call twice, nor an older one after it,
\* although every receive subscribes anew.
ReceivedInOrder ==
    \A r \in Receivers : \A i \in 1 .. Len(received[r]) - 1 :
        LET a == received[r][i]
            b == received[r][i + 1]
        IN  a[1] < b[1] \/ (a[1] = b[1] /\ a[2] < b[2])

\* Once the read loop has caught up, it holds subscriptions of attempts that
\* are in progress only: none is left by a call that was dropped or gave up.
NoStaleSubscription ==
    up /\ commands = <<>> =>
        tx_call_ack \subseteq {id[t] : t \in {c \in Callers :
                                   pc[c] \in {"send", "ack", "reply"} /\ conn[c] = epoch}}

\* Once the reconnection loop has ended no call is blocked for ever, wherever
\* it was and whatever state the loop had announced before: each can take a
\* step, and the steps that are left lead to an error.  There is one exception:
\* a close() that was dropped and is called again puts Closing over Closed, and
\* a call in wait_for_state then waits for a state that never comes.
NoneBlockedAfterClose ==
    recon = "done" =>
        \A t \in Tasks :
            \/ pc[t] \in {"ok", "err"}
            \/ ENABLED TaskRuns(t)
            \/ pc[t] = "state" /\ state = "Closing" /\ closer = "again"

-----------------------------------------------------------------------------
(* Stronger readings of the code that TLC refutes: the README says with which *)
(* constants, and what happens.                                              *)

\* The same without the exception: nothing that was called on the connection
\* waits for ever on the closed one.
NoneBlockedWhenClosedAgain ==
    recon = "done" => \A t \in Tasks : pc[t] \in {"ok", "err"} \/ ENABLED TaskRuns(t)

\* An ack that the server sent is not lost on a connection that stays alive.
AckReachesCaller ==
    \A t \in Callers : pc[t] = "ack" /\ Alive(t) /\ <<t, id[t], conn[t]>> \in handled =>
        \/ id[t] \in acked \cup unacked
        \/ \E i \in 1 .. Len(net_in) : net_in[i] = <<"ack", id[t]>>

\* The same without the exception for a connection that is being closed.
AlwaysOncePerConnection ==
    \A g, h \in handled : g[1] = h[1] /\ g[3] = h[3] => g[2] = h[2]

\* A call is handled once.
HandledOnce == \A g, h \in handled : g[1] = h[1] => g = h
=============================================================================
