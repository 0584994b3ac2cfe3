----------------------------- MODULE Downstream -----------------------------
(***************************************************************************)
(* One downstream of the iSCP client: the application's handle (read_chunk, *)
(* close), the metadata reader, the stream task (downstream_loop with its   *)
(* DownReorderer, whose actions are the ones of the module of that name)    *)
(* and the ack bookkeeping (down_state.rs); external to the crate are the   *)
(* connection, the reconnection and the server.                             *)
(*                                                                         *)
(* The chunks are those of one upstream, u, and are their sequence numbers. *)
(* A best-effort reorderer of limit 1 yields every chunk as it arrives: it  *)
(* stands for reordering None too.                                          *)
(***************************************************************************)
EXTENDS Integers, Sequences, FiniteSets

CONSTANTS
    u,            \* the upstream the chunks come from
    Modes,        \* the values of config.reordering to consider
    Limit,        \* config.reordering_chunks
    MaxSeq,       \* u32::MAX of the reorderer; the server has the chunks below it
    MaxArrivals,  \* bound: chunks the reorderer takes in
    ExpiryZero,   \* config.expiry_interval.is_zero()
    ChannelSize,  \* capacity of the channels and of the link
    MaxMeta,      \* bound: metadata messages
    ConnCloses,   \* bound: whether Conn::close is considered
    MaxConns,     \* bound: connections the reconnection makes
    MaxResumes    \* bound: resumes the server performs

ASSUME DownstreamAssumption ==
    /\ Modes \subseteq {"BestEffort", "Strict"} /\ {ExpiryZero, ConnCloses} \subseteq BOOLEAN
    /\ Limit \in Nat /\ MaxSeq \in Nat /\ MaxArrivals \in Nat /\ MaxMeta \in Nat
    /\ ChannelSize \in Nat \ {0} /\ MaxConns \in Nat \ {0} /\ MaxResumes \in Nat
    /\ MaxSeq * (MaxResumes + 1) <= MaxArrivals  \* every chunk, after every resume

VARIABLES
    \* the reorderer
    reordering, known, next, store, current, failed, stopped, arrivals, arrived, output,
    \* the application
    app,            \* "idle", "close" or "dropped"
    app_chan,       \* chunks in the channel read_chunk reads
    read_result,    \* the error read_chunk returned: "none", "cause", "closed"
    close_result,   \* what close() returned
    meta_chan,      \* metadata in the channel of the metadata reader
    meta_open,      \* the metadata reader exists
    \* DownstreamInner
    ct,             \* the cancellation token is cancelled
    close_cause,    \* close_cause is Some
    tx_result,      \* the sender of close() is registered
    resume_token,   \* 0 is the empty string that take() leaves
    results,        \* State.results
    info_known,     \* State.infos has the upstream
    info_for_ack,   \* State.for_ack has it
    last_ack,       \* last_issued_chunk_ack_id, -1 for None
    \* downstream_loop
    pc,
    flight,         \* the chunk that waits for the application's channel
    rx_msg,         \* messages the read loop routed to the stream
    ack_id_complete,
    local_token, need_resume, wire_conn,
    \* the connection (external to the stream)
    epoch, up, shutdown,
    registered,     \* the read loop routes messages to rx_msg
    inbound,        \* messages on their way from the server
    outbound,       \* acks on their way to the server
    \* the server (external)
    srv_conn, srv_resumes,
    srv_sent, srv_unacked, srv_resend, srv_acked,
    srv_alias,      \* it knows the alias of the upstream
    srv_meta,       \* metadata messages it sent
    \* history
    delivered,      \* chunks put into the application's channel
    discarded,      \* chunks that found no room in it
    completed,      \* ack ids whose completion the stream received
    close_wait,     \* how the wait for the ack completion ended
    close_answered

rVars    == <<reordering, known, next, store, current, failed, stopped, arrivals,
              arrived, output>>
appVars  == <<app, app_chan, read_result, close_result, meta_chan, meta_open>>
ackVars  == <<results, info_known, info_for_ack, last_ack>>
loopVars == <<pc, flight, rx_msg, ack_id_complete>>
resVars  == <<resume_token, local_token, need_resume, wire_conn>>
connVars == <<epoch, up, shutdown, registered>>
srvVars  == <<srv_conn, srv_resumes, srv_sent, srv_unacked, srv_resend, srv_acked,
              srv_alias, srv_meta>>
histVars == <<delivered, discarded, completed, close_wait, close_answered>>
vars == <<rVars, appVars, ct, close_cause, tx_result, ackVars, loopVars, resVars, connVars,
          inbound, outbound, srvVars, histVars>>

R == INSTANCE DownReorderer WITH Streams <- {u}

Chunks == 0 .. MaxSeq - 1
Connected == wire_conn = epoch /\ up

ChunkMsg(n) == [type |-> "chunk", n |-> n, alias |-> srv_alias]
MetaMsg == [type |-> "meta", n |-> 0, alias |-> FALSE]
CompleteMsg(id) == [type |-> "complete", n |-> id, alias |-> FALSE]

\* Downstream::new: the open response has arrived on connection 1.
Init ==
    /\ R!Init
    /\ app = "idle" /\ app_chan = <<>> /\ read_result = "none" /\ close_result = "none"
    /\ meta_chan = 0 /\ meta_open = TRUE
    /\ ct = FALSE /\ close_cause = FALSE /\ tx_result = FALSE
    /\ results = {} /\ info_known = FALSE /\ info_for_ack = FALSE /\ last_ack = -1
    /\ pc = "top" /\ flight = {} /\ rx_msg = <<>> /\ ack_id_complete = 0
    /\ resume_token = 1 /\ local_token = 0 /\ need_resume = FALSE /\ wire_conn = 1
    /\ epoch = 1 /\ up = TRUE /\ shutdown = FALSE /\ registered = FALSE
    /\ inbound = <<>> /\ outbound = <<>>
    /\ srv_conn = 1 /\ srv_resumes = 0 /\ srv_sent = {} /\ srv_unacked = {}
    /\ srv_resend = {} /\ srv_acked = {} /\ srv_alias = FALSE /\ srv_meta = 0
    /\ delivered = {} /\ discarded = {} /\ completed = {} /\ close_wait = "none"
    /\ close_answered = FALSE

-----------------------------------------------------------------------------
(* The application *)

\* read_chunk returns a chunk, before or after the cancellation.
ReadChunk ==
    /\ app = "idle" /\ app_chan # <<>>
    /\ app_chan' = Tail(app_chan)
    /\ UNCHANGED <<rVars, app, read_result, close_result, meta_chan, meta_open, ct,
                   close_cause, tx_result, ackVars, loopVars, resVars, connVars, inbound,
                   outbound, srvVars, histVars>>

\* read_chunk finds the stream cancelled and the channel empty.
ReadEnd ==
    /\ app = "idle" /\ app_chan = <<>> /\ ct /\ read_result = "none"
    /\ read_result' = IF close_cause THEN "cause" ELSE "closed"
    /\ close_cause' = FALSE
    /\ UNCHANGED <<rVars, app, app_chan, close_result, meta_chan, meta_open, ct, tx_result,
                   ackVars, loopVars, resVars, connVars, inbound, outbound, srvVars,
                   histVars>>

\* close() registers its sender and cancels, whatever the state of the stream.
CloseCall ==
    /\ app = "idle" /\ close_result = "none"
    /\ app' = "close"
    /\ tx_result' = TRUE
    /\ ct' = TRUE
    /\ UNCHANGED <<rVars, app_chan, read_result, close_result, meta_chan, meta_open,
                   close_cause, ackVars, loopVars, resVars, connVars, inbound, outbound,
                   srvVars, histVars>>

\* close_timeout elapses in close().
CloseTimeout ==
    /\ app = "close"
    /\ app' = "idle" /\ close_result' = "err"
    /\ UNCHANGED <<rVars, app_chan, read_result, meta_chan, meta_open, ct, close_cause,
                   tx_result, ackVars, loopVars, resVars, connVars, inbound, outbound,
                   srvVars, histVars>>

\* The application drops the Downstream, and with it the receiver of the chunks.
DropDownstream ==
    /\ app = "idle"
    /\ app' = "dropped"
    /\ app_chan' = <<>>
    /\ UNCHANGED <<rVars, read_result, close_result, meta_chan, meta_open, ct, close_cause,
                   tx_result, ackVars, loopVars, resVars, connVars, inbound, outbound,
                   srvVars, histVars>>

\* DownstreamMetadataReader::read, or the reader is dropped.
ReadMetadata ==
    /\ meta_open /\ meta_chan > 0
    /\ meta_chan' = meta_chan - 1
    /\ UNCHANGED <<rVars, app, app_chan, read_result, close_result, meta_open, ct,
                   close_cause, tx_result, ackVars, loopVars, resVars, connVars, inbound,
                   outbound, srvVars, histVars>>

DropMetadataReader ==
    /\ meta_open /\ MaxMeta > 0  \* without metadata nothing notices
    /\ meta_open' = FALSE /\ meta_chan' = 0
    /\ UNCHANGED <<rVars, app, app_chan, read_result, close_result, ct, close_cause,
                   tx_result, ackVars, loopVars, resVars, connVars, inbound, outbound,
                   srvVars, histVars>>

-----------------------------------------------------------------------------
(* down_state.rs *)

\* take_ack: what was received since the last ack, and a new alias.
HasAck == results # {} \/ info_for_ack

NewAck == [id |-> last_ack + 1, results |-> results, alias |-> info_for_ack]

TakeAck ==
    /\ results' = {} /\ info_for_ack' = FALSE
    /\ last_ack' = last_ack + 1
    /\ UNCHANGED info_known

\* get_upstream_info fails for an alias that is not known.
Resolvable(msg) == msg.alias => info_known

\* An upstream seen for the first time gets an alias, which the next ack tells.
AddUpstreamInfo ==
    /\ info_known' = TRUE
    /\ info_for_ack' = (info_for_ack \/ ~info_known)

AddSequenceNumber(n) == results' = results \cup {n}

\* convert_downstream_chunk
Convert(n) ==
    /\ AddUpstreamInfo
    /\ AddSequenceNumber(n)
    /\ UNCHANGED last_ack

\* send_message: queued, or an error when the connection is dead or the queue
\* stays full.
CanSend == Connected /\ Len(outbound) < ChannelSize

SendFails == ~Connected \/ Len(outbound) = ChannelSize

-----------------------------------------------------------------------------
(* downstream_loop: resume *)

\* return from downstream_loop: the drop guard cancels the token.
Return(state) ==
    /\ pc' = state
    /\ ct' = TRUE
    /\ registered' = FALSE
    /\ rx_msg' = <<>>

\* Mutant: the shared token is taken again for a retry.
ResumeTakeTokenAgain ==
    /\ pc = "top" /\ Connected /\ need_resume /\ ~ExpiryZero /\ ~ct
    /\ local_token' = resume_token /\ resume_token' = 0
    /\ pc' = "request"
    /\ UNCHANGED <<rVars, appVars, ct, close_cause, tx_result, ackVars, flight, rx_msg,
                   ack_id_complete, need_resume, wire_conn, connVars, inbound, outbound,
                   srvVars, histVars>>

\* The shared token is taken once and kept for the retries.
ResumeTakeToken ==
    /\ pc = "top" /\ Connected /\ need_resume /\ ~ExpiryZero /\ ~ct
    /\ IF local_token = 0
       THEN local_token' = resume_token /\ resume_token' = 0
       ELSE UNCHANGED <<local_token, resume_token>>
    /\ pc' = "request"
    /\ UNCHANGED <<rVars, appVars, ct, close_cause, tx_result, ackVars, flight, rx_msg,
                   ack_id_complete, need_resume, wire_conn, connVars, inbound, outbound,
                   srvVars, histVars>>

\* The server takes the token it issued last, or, from a client that did not get
\* the last answer and tries again, the one before; any other is refused (external).
TokenTaken == local_token # 0 /\ local_token \in {srv_resumes, srv_resumes + 1}

\* The server performs the resume (external): it will send again what was not
\* acknowledged.
ServerResume ==
    /\ srv_resumes < MaxResumes /\ TokenTaken
    /\ srv_resumes' = srv_resumes + 1
    /\ srv_conn' = wire_conn
    /\ srv_resend' = srv_unacked
    /\ UNCHANGED <<srv_sent, srv_unacked, srv_acked, srv_alias, srv_meta>>

ResumeOk ==
    /\ pc = "request" /\ Connected
    /\ ServerResume
    /\ resume_token' = srv_resumes' + 1
    /\ need_resume' = FALSE
    /\ pc' = "top"
    /\ UNCHANGED <<rVars, appVars, ct, close_cause, tx_result, ackVars, flight, rx_msg,
                   ack_id_complete, local_token, wire_conn, connVars, inbound, outbound,
                   histVars>>

\* The request fails in a way that can be retried; the server may have
\* performed it.
ResumeRetry ==
    /\ pc = "request"
    /\ ServerResume \/ UNCHANGED srvVars
    /\ pc' = "top"
    /\ UNCHANGED <<rVars, appVars, ct, close_cause, tx_result, ackVars, flight, rx_msg,
                   ack_id_complete, resVars, connVars, inbound, outbound, histVars>>

\* The end of the resume loop without a stream: a refusal, no resume wanted, no
\* connection to come, expiry_interval, or the cancellation of the stream.
ResumeGaveUp ==
    /\ \/ pc = "request"
       \/ pc = "top" /\ (ct \/ (Connected /\ need_resume /\ ExpiryZero)
                            \/ (~Connected /\ wire_conn = epoch))
    /\ Return("done")
    /\ UNCHANGED <<rVars, appVars, close_cause, tx_result, ackVars, flight,
                   ack_id_complete, resVars, epoch, up, shutdown, inbound, outbound,
                   srvVars, histVars>>

GetUpdated ==
    /\ pc = "top" /\ ~Connected /\ wire_conn # epoch
    /\ wire_conn' = epoch
    /\ need_resume' = TRUE
    /\ UNCHANGED <<rVars, appVars, ct, close_cause, tx_result, ackVars, loopVars,
                   resume_token, local_token, connVars, inbound, outbound, srvVars,
                   histVars>>

AddDownstream ==
    /\ pc = "top" /\ Connected /\ ~need_resume
    /\ pc' = "read"
    /\ rx_msg' = <<>>
    /\ UNCHANGED <<rVars, appVars, ct, close_cause, tx_result, ackVars, flight,
                   ack_id_complete, resVars, connVars, inbound, outbound, srvVars, histVars>>

-----------------------------------------------------------------------------
(* downstream_loop: read loop *)

Received(type) == rx_msg # <<>> /\ Head(rx_msg).type = type

\* Mutant: the error ends the read loop, not the task.
TakeInBreaking(state) ==
    /\ Received("chunk")
    /\ IF Resolvable(Head(rx_msg))
       THEN /\ Convert(Head(rx_msg).n)
            /\ R!Iter(u, Head(rx_msg).n)
            /\ IF failed'
               THEN /\ pc' = "drain"
                    /\ rx_msg' = Tail(rx_msg)
                    /\ UNCHANGED <<ct, registered>>
               ELSE /\ pc' = state
                    /\ rx_msg' = Tail(rx_msg)
                    /\ UNCHANGED <<ct, registered>>
       ELSE /\ rx_msg' = Tail(rx_msg)
            /\ UNCHANGED <<rVars, ackVars, ct, registered, pc>>
    /\ UNCHANGED <<appVars, close_cause, tx_result, flight, ack_id_complete, resVars,
                   epoch, up, shutdown, inbound, outbound, srvVars, histVars>>

\* A chunk is recorded for the ack and goes to the reorderer, whose error ends
\* the loop at once.
TakeIn(state) ==
    /\ Received("chunk")
    /\ IF Resolvable(Head(rx_msg))
       THEN /\ Convert(Head(rx_msg).n)
            /\ R!Iter(u, Head(rx_msg).n)
            /\ IF failed'
               THEN Return("failed")
               ELSE /\ pc' = state
                    /\ rx_msg' = Tail(rx_msg)
                    /\ UNCHANGED <<ct, registered>>
       ELSE /\ rx_msg' = Tail(rx_msg)
            /\ UNCHANGED <<rVars, ackVars, ct, registered, pc>>
    /\ UNCHANGED <<appVars, close_cause, tx_result, flight, ack_id_complete, resVars,
                   epoch, up, shutdown, inbound, outbound, srvVars, histVars>>

LoopChunk == pc = "read" /\ TakeIn("deliver")

\* Mutant: the read loop does not wait for room.
LoopDeliverTry ==
    /\ pc = "sending" /\ app # "dropped"
    /\ IF Len(app_chan) < ChannelSize
       THEN /\ \E n \in flight : app_chan' = Append(app_chan, n)
            /\ delivered' = delivered \cup flight
       ELSE UNCHANGED <<app_chan, delivered>>
    /\ flight' = {}
    /\ pc' = "deliver"
    /\ UNCHANGED <<rVars, app, read_result, close_result, meta_chan, meta_open, ct,
                   close_cause, tx_result, ackVars, rx_msg, ack_id_complete, resVars,
                   connVars, inbound, outbound, srvVars, discarded, completed, close_wait,
                   close_answered>>

\* The iterator yields a chunk ...
LoopPop ==
    /\ pc = "deliver"
    /\ \E n \in Chunks : R!Pop(u, n) /\ flight' = {n}
    /\ pc' = "sending"
    /\ UNCHANGED <<appVars, ct, close_cause, tx_result, ackVars, rx_msg, ack_id_complete,
                   resVars, connVars, inbound, outbound, srvVars, histVars>>

\* ... and the loop waits until the application's channel has room, deaf to the
\* cancellation token.
LoopDeliver ==
    /\ pc = "sending" /\ app # "dropped" /\ Len(app_chan) < ChannelSize
    /\ \E n \in flight : app_chan' = Append(app_chan, n)
    /\ delivered' = delivered \cup flight
    /\ flight' = {}
    /\ pc' = "deliver"
    /\ UNCHANGED <<rVars, app, read_result, close_result, meta_chan, meta_open, ct,
                   close_cause, tx_result, ackVars, rx_msg, ack_id_complete, resVars,
                   connVars, inbound, outbound, srvVars, discarded, completed, close_wait,
                   close_answered>>

\* The receiver is closed: the stream is cancelled, and the iterator dropped.
LoopDeliverClosed ==
    /\ pc = "sending" /\ app = "dropped"
    /\ R!Break(u)
    /\ ct' = TRUE
    /\ flight' = {}
    /\ pc' = "read"
    /\ UNCHANGED <<appVars, close_cause, tx_result, ackVars, rx_msg, ack_id_complete,
                   resVars, connVars, inbound, outbound, srvVars, histVars>>

LoopPopNone ==
    /\ pc \in {"deliver", "drain_deliver"}
    /\ R!PopNone(u)
    /\ pc' = IF pc = "deliver" THEN "read" ELSE "drain"
    /\ UNCHANGED <<appVars, ct, close_cause, tx_result, ackVars, flight, rx_msg,
                   ack_id_complete, resVars, connVars, inbound, outbound, srvVars, histVars>>

\* Metadata goes to the metadata reader, then its ack to the server; a closed
\* reader cancels the stream.
LoopMetadata ==
    /\ pc = "read" /\ Received("meta")
    /\ pc' = "meta"
    /\ rx_msg' = Tail(rx_msg)
    /\ UNCHANGED <<rVars, appVars, ct, close_cause, tx_result, ackVars, flight,
                   ack_id_complete, resVars, connVars, inbound, outbound, srvVars, histVars>>

MetadataSend ==
    /\ pc = "meta" /\ meta_open /\ meta_chan < ChannelSize
    /\ meta_chan' = meta_chan + 1
    /\ \/ Connected /\ pc' = "read"
       \/ SendFails /\ pc' = "drain"
    /\ UNCHANGED <<rVars, app, app_chan, read_result, close_result, meta_open, ct,
                   close_cause, tx_result, ackVars, flight, rx_msg, ack_id_complete,
                   resVars, connVars, inbound, outbound, srvVars, histVars>>

MetadataClosed ==
    /\ pc = "meta" /\ ~meta_open
    /\ ct' = TRUE
    /\ pc' = "drain"
    /\ UNCHANGED <<rVars, appVars, close_cause, tx_result, ackVars, flight, rx_msg,
                   ack_id_complete, resVars, connVars, inbound, outbound, srvVars, histVars>>

\* check_chunk_ack_complete, in any of its three callers.
Complete ==
    /\ Received("complete")
    /\ ack_id_complete' = IF ack_id_complete < Head(rx_msg).n THEN Head(rx_msg).n
                                                              ELSE ack_id_complete
    /\ completed' = completed \cup {Head(rx_msg).n}
    /\ rx_msg' = Tail(rx_msg)

LoopComplete ==
    /\ pc \in {"read", "drain", "ack_complete"}
    /\ Complete
    /\ UNCHANGED <<rVars, appVars, ct, close_cause, tx_result, ackVars, pc, flight, resVars,
                   connVars, inbound, outbound, srvVars, delivered, discarded, close_wait,
                   close_answered>>

\* ack_interval elapses; the results of an ack that cannot be sent are gone.
LoopAck ==
    /\ pc = "read" /\ HasAck
    /\ TakeAck
    /\ \/ /\ CanSend
          /\ outbound' = Append(outbound, NewAck)
          /\ pc' = "read"
       \/ /\ SendFails
          /\ pc' = "drain"
          /\ UNCHANGED outbound
    /\ UNCHANGED <<rVars, appVars, ct, close_cause, tx_result, flight, rx_msg,
                   ack_id_complete, resVars, connVars, inbound, srvVars, histVars>>

\* The stream is cancelled, or the channel is closed with the connection.
LoopBreak ==
    /\ pc = "read" /\ (ct \/ (rx_msg = <<>> /\ ~Connected))
    /\ pc' = "drain"
    /\ UNCHANGED <<rVars, appVars, ct, close_cause, tx_result, ackVars, flight, rx_msg,
                   ack_id_complete, resVars, connVars, inbound, outbound, srvVars, histVars>>

-----------------------------------------------------------------------------
(* downstream_loop: after the read loop *)

\* Process remaining data in channels.
DrainChunk == pc = "drain" /\ TakeIn("drain_deliver")

\* Mutant: the remaining chunks are read and not passed on.
DrainPopDiscarding ==
    /\ pc = "drain_deliver"
    /\ \E n \in Chunks : R!Pop(u, n)
    /\ UNCHANGED <<appVars, ct, close_cause, tx_result, ackVars, loopVars, resVars, connVars,
                   inbound, outbound, srvVars, histVars>>

\* try_send: a chunk that finds no room is dropped.
DrainPop ==
    /\ pc = "drain_deliver"
    /\ \E n \in Chunks :
        /\ R!Pop(u, n)
        /\ IF app # "dropped" /\ Len(app_chan) < ChannelSize
           THEN /\ app_chan' = Append(app_chan, n)
                /\ delivered' = delivered \cup {n}
                /\ UNCHANGED discarded
           ELSE /\ discarded' = discarded \cup {n}
                /\ UNCHANGED <<app_chan, delivered>>
    /\ UNCHANGED <<app, read_result, close_result, meta_chan, meta_open, ct, close_cause,
                   tx_result, ackVars, loopVars, resVars, connVars, inbound, outbound,
                   srvVars, completed, close_wait, close_answered>>

DrainMetadata ==
    /\ pc = "drain" /\ Received("meta")
    /\ meta_chan' = IF meta_open /\ meta_chan < ChannelSize THEN meta_chan + 1 ELSE meta_chan
    /\ rx_msg' = Tail(rx_msg)
    /\ UNCHANGED <<rVars, app, app_chan, read_result, close_result, meta_open, ct,
                   close_cause, tx_result, ackVars, pc, flight, ack_id_complete, resVars,
                   connVars, inbound, outbound, srvVars, histVars>>

\* The stream ends, or goes back to the resume loop.
Closing == ExpiryZero \/ ct

AfterDrain ==
    IF Closing
    THEN IF Connected THEN pc' = "ack_complete" /\ UNCHANGED <<ct, registered, rx_msg, local_token>>
                      ELSE Return("done") /\ UNCHANGED local_token
    ELSE /\ pc' = "top" /\ registered' = FALSE /\ rx_msg' = <<>>
         /\ local_token' = 0
         /\ UNCHANGED ct

\* Send ack, if there is a connection.
DrainEnd ==
    /\ pc = "drain" /\ rx_msg = <<>>
    /\ IF Connected /\ HasAck
       THEN /\ TakeAck
            /\ \/ CanSend /\ outbound' = Append(outbound, NewAck)
               \/ SendFails /\ UNCHANGED outbound
       ELSE UNCHANGED <<ackVars, outbound>>
    /\ AfterDrain
    /\ UNCHANGED <<rVars, appVars, close_cause, tx_result, flight, ack_id_complete,
                   resume_token, need_resume, wire_conn, epoch, up, shutdown, inbound,
                   srvVars, histVars>>

-----------------------------------------------------------------------------
(* downstream_loop: the close path *)

\* Other messages are discarded while the loop waits for the completion.
AckCompleteDiscard ==
    /\ pc = "ack_complete" /\ (Received("chunk") \/ Received("meta"))
    /\ last_ack > ack_id_complete
    /\ rx_msg' = Tail(rx_msg)
    /\ UNCHANGED <<rVars, appVars, ct, close_cause, tx_result, ackVars, pc, flight,
                   ack_id_complete, resVars, connVars, inbound, outbound, srvVars, histVars>>

\* Mutant: the wait has no timeout.
AckCompleteDoneUntimed ==
    /\ pc = "ack_complete"
    /\ \/ last_ack <= ack_id_complete /\ close_wait' = "complete"
       \/ rx_msg = <<>> /\ ~Connected /\ close_wait' = "channel"
    /\ pc' = "close_request"
    /\ UNCHANGED <<rVars, appVars, ct, close_cause, tx_result, ackVars, flight, rx_msg,
                   ack_id_complete, resVars, connVars, inbound, outbound, srvVars,
                   delivered, discarded, completed, close_answered>>

AckCompleteDone ==
    /\ pc = "ack_complete"
    /\ \/ last_ack <= ack_id_complete /\ close_wait' = "complete"
       \/ rx_msg = <<>> /\ ~Connected /\ close_wait' = "channel"
       \/ last_ack > ack_id_complete /\ close_wait' = "timeout"
    /\ pc' = "close_request"
    /\ UNCHANGED <<rVars, appVars, ct, close_cause, tx_result, ackVars, flight, rx_msg,
                   ack_id_complete, resVars, connVars, inbound, outbound, srvVars,
                   delivered, discarded, completed, close_answered>>

Reply(r) ==
    /\ tx_result' = FALSE
    /\ app' = IF tx_result /\ app = "close" THEN "idle" ELSE app
    /\ close_result' = IF tx_result /\ app = "close" THEN r ELSE close_result

CloseAnswered ==
    /\ pc = "close_request" /\ Connected /\ outbound = <<>>
    /\ close_answered' = TRUE
    /\ Reply("ok")
    /\ Return("done")
    /\ UNCHANGED <<rVars, app_chan, read_result, meta_chan, meta_open, close_cause, ackVars,
                   flight, ack_id_complete, resVars, epoch, up, shutdown, inbound, outbound,
                   srvVars, delivered, discarded, completed, close_wait>>

\* A dead connection, a timeout or a refusal.
CloseFailed ==
    /\ pc = "close_request"
    /\ Reply("err")
    /\ Return("done")
    /\ UNCHANGED <<rVars, app_chan, read_result, meta_chan, meta_open, close_cause, ackVars,
                   flight, ack_id_complete, resVars, epoch, up, shutdown, inbound, outbound,
                   srvVars, histVars>>

\* The error of the reorderer is stored after the loop has returned.
StoreCause ==
    /\ pc = "failed"
    /\ close_cause' = TRUE
    /\ pc' = "done"
    /\ UNCHANGED <<rVars, appVars, ct, tx_result, ackVars, flight, rx_msg, ack_id_complete,
                   resVars, connVars, inbound, outbound, srvVars, histVars>>

-----------------------------------------------------------------------------
(* The connection and the server (external) *)

ConnDown ==
    /\ up
    /\ up' = FALSE /\ inbound' = <<>> /\ outbound' = <<>> /\ registered' = FALSE
    /\ UNCHANGED <<rVars, appVars, ct, close_cause, tx_result, ackVars, loopVars, resVars,
                   epoch, shutdown, srvVars, histVars>>

Reconnect ==
    /\ ~up /\ ~shutdown /\ epoch < MaxConns
    /\ epoch' = epoch + 1 /\ up' = TRUE
    /\ UNCHANGED <<rVars, appVars, ct, close_cause, tx_result, ackVars, loopVars, resVars,
                   shutdown, registered, inbound, outbound, srvVars, histVars>>

\* The reconnection ends with Conn::close, which cancels the streams first.
ConnShutdown ==
    /\ ConnCloses /\ ~shutdown
    /\ shutdown' = TRUE
    /\ ct' = TRUE
    /\ UNCHANGED <<rVars, appVars, close_cause, tx_result, ackVars, loopVars, resVars, epoch,
                   up, registered, inbound, outbound, srvVars, histVars>>

\* The read loop processes the AddDownstream command.
ReadLoopRegister ==
    /\ ~registered /\ Connected
    /\ pc \notin {"top", "request", "failed", "done"}
    /\ registered' = TRUE
    /\ UNCHANGED <<rVars, appVars, ct, close_cause, tx_result, ackVars, loopVars, resVars,
                   epoch, up, shutdown, inbound, outbound, srvVars, histVars>>

\* The read loop routes a message, waiting for room, or drops it when nothing is
\* registered under the alias.
ReadLoopDispatch ==
    /\ inbound # <<>>
    /\ registered => Len(rx_msg) < ChannelSize
    /\ inbound' = Tail(inbound)
    /\ rx_msg' = IF registered THEN Append(rx_msg, Head(inbound)) ELSE rx_msg
    /\ UNCHANGED <<rVars, appVars, ct, close_cause, tx_result, ackVars, pc, flight,
                   ack_id_complete, resVars, connVars, outbound, srvVars, histVars>>

ServerReady == up /\ srv_conn = epoch /\ ~close_answered /\ Len(inbound) < ChannelSize

\* The chunks of an upstream reach the server, and the downstream, in any order.
ServerSend ==
    /\ ServerReady
    /\ \E n \in Chunks \ srv_sent :
        /\ inbound' = Append(inbound, ChunkMsg(n))
        /\ srv_sent' = srv_sent \cup {n}
        /\ srv_unacked' = srv_unacked \cup {n}
    /\ UNCHANGED <<rVars, appVars, ct, close_cause, tx_result, ackVars, loopVars, resVars,
                   connVars, outbound, srv_conn, srv_resumes, srv_resend, srv_acked,
                   srv_alias, srv_meta, histVars>>

ServerResend ==
    /\ ServerReady
    /\ \E n \in srv_resend :
        /\ inbound' = Append(inbound, ChunkMsg(n))
        /\ srv_resend' = srv_resend \ {n}
    /\ UNCHANGED <<rVars, appVars, ct, close_cause, tx_result, ackVars, loopVars, resVars,
                   connVars, outbound, srv_conn, srv_resumes, srv_sent, srv_unacked,
                   srv_acked, srv_alias, srv_meta, histVars>>

ServerMetadata ==
    /\ ServerReady /\ srv_meta < MaxMeta
    /\ inbound' = Append(inbound, MetaMsg)
    /\ srv_meta' = srv_meta + 1
    /\ UNCHANGED <<rVars, appVars, ct, close_cause, tx_result, ackVars, loopVars, resVars,
                   connVars, outbound, srv_conn, srv_resumes, srv_sent, srv_unacked,
                   srv_resend, srv_acked, srv_alias, histVars>>

\* The server learns the alias with the ack that carries it, and uses it then.
ServerAck ==
    /\ outbound # <<>> /\ Len(inbound) < ChannelSize
    /\ srv_acked' = srv_acked \cup Head(outbound).results
    /\ srv_unacked' = srv_unacked \ Head(outbound).results
    /\ srv_resend' = srv_resend \ Head(outbound).results
    /\ srv_alias' = (srv_alias \/ Head(outbound).alias)
    /\ inbound' = Append(inbound, CompleteMsg(Head(outbound).id))
    /\ outbound' = Tail(outbound)
    /\ UNCHANGED <<rVars, appVars, ct, close_cause, tx_result, ackVars, loopVars, resVars,
                   connVars, srv_conn, srv_resumes, srv_sent, srv_meta, histVars>>

\* Nothing is left to do for the stream.
Finished ==
    /\ pc = "done"
    /\ UNCHANGED vars

-----------------------------------------------------------------------------
Application == \/ ReadChunk \/ ReadEnd \/ CloseCall \/ CloseTimeout \/ DropDownstream
               \/ ReadMetadata \/ DropMetadataReader

Loop == \/ ResumeTakeToken \/ ResumeOk \/ ResumeRetry \/ ResumeGaveUp \/ GetUpdated
        \/ AddDownstream
        \/ LoopChunk \/ LoopPop \/ LoopDeliver \/ LoopDeliverClosed \/ LoopPopNone
        \/ LoopMetadata \/ MetadataSend \/ MetadataClosed
        \/ LoopComplete \/ LoopAck \/ LoopBreak
        \/ DrainChunk \/ DrainPop \/ DrainMetadata \/ DrainEnd
        \/ AckCompleteDiscard \/ AckCompleteDone \/ CloseAnswered \/ CloseFailed
        \/ StoreCause

Environment == \/ ConnDown \/ Reconnect \/ ConnShutdown \/ ReadLoopRegister
               \/ ReadLoopDispatch \/ ServerSend \/ ServerResend \/ ServerMetadata
               \/ ServerAck

\* After its end the stream notices nothing of its environment.
Next == Application \/ Loop \/ (pc # "done" /\ Environment) \/ Finished

Spec == Init /\ [][Next]_vars

\* The runtime polls the task, whose waits for the network have timeouts; the
\* waits for room in the two channels to the application have none.
TaskFairSpec == Spec /\ WF_vars(Loop)

\* The application reads its chunks and its metadata, and close() times out.
FairSpec == TaskFairSpec /\ WF_vars(ReadChunk) /\ WF_vars(ReadMetadata)
                         /\ WF_vars(CloseTimeout)

-----------------------------------------------------------------------------
(* Properties *)

Messages == [type : {"chunk", "meta", "complete"}, n : Nat, alias : BOOLEAN]
Acks == [id : Nat, results : SUBSET Chunks, alias : BOOLEAN]

\* Every variable has its type.
TypeOK ==
    /\ R!TypeOK
    /\ app \in {"idle", "close", "dropped"} /\ app_chan \in Seq(Chunks)
    /\ read_result \in {"none", "cause", "closed"} /\ close_result \in {"none", "ok", "err"}
    /\ meta_chan \in 0 .. ChannelSize
    /\ {meta_open, ct, close_cause, tx_result, info_known, info_for_ack, need_resume, up,
        shutdown, registered, srv_alias, close_answered} \subseteq BOOLEAN
    /\ resume_token \in 0 .. MaxResumes + 1 /\ local_token \in 0 .. MaxResumes + 1
    /\ results \subseteq Chunks /\ last_ack \in Nat \cup {-1} /\ ack_id_complete \in Nat
    /\ pc \in {"top", "request", "read", "deliver", "sending", "meta", "drain",
               "drain_deliver", "ack_complete", "close_request", "failed", "done"}
    /\ flight \subseteq Chunks /\ Cardinality(flight) = (IF pc = "sending" THEN 1 ELSE 0)
    /\ rx_msg \in Seq(Messages) /\ inbound \in Seq(Messages) /\ outbound \in Seq(Acks)
    /\ {Len(app_chan), Len(rx_msg), Len(inbound), Len(outbound)} \subseteq 0 .. ChannelSize
    /\ wire_conn \in 1 .. epoch /\ epoch \in 1 .. MaxConns /\ srv_conn \in 1 .. epoch
    /\ srv_resumes \in 0 .. MaxResumes /\ srv_meta \in 0 .. MaxMeta
    /\ {srv_sent, srv_unacked, srv_resend, srv_acked, delivered, discarded}
           \subseteq SUBSET Chunks
    /\ completed \subseteq Nat
    /\ close_wait \in {"none", "complete", "channel", "timeout"}

\* Every chunk acknowledged to the server was taken in by the reorderer: a chunk
\* recorded for the ack and then refused is never acknowledged.
AckedWasTaken == srv_acked \subseteq arrived[u]

\* A chunk the server sends under the alias of its upstream, before or after a
\* resume, can be converted: the alias in an ack stays resolvable.
AliasResolvable ==
    \A q \in {rx_msg, inbound} : \A i \in 1 .. Len(q) : Resolvable(q[i])

\* What the acks tell the server holds: the chunks are taken in and the alias can
\* be used, whichever acks were lost with a connection.
AckIsSound == AckedWasTaken /\ AliasResolvable

\* Every resume request, after any sequence of failures and resumes, carries a
\* resume token, not the empty string that take() left in its place.
ResumeTokenPresented == pc = "request" => local_token # 0

\* The chunks that the application will not get from the stream as it stands: they
\* neither reached its channel nor wait for room in it.
Missing(chunks) == chunks \ (delivered \cup flight)

\* Why a chunk stays in the store when the iterator has been used up: a strict
\* reorderer keeps it because the chunk it expects has not arrived, or, for ever,
\* because it is older than the chunk that arrived first; a best-effort one
\* because the store is not full.
HeldBack(n) ==
    /\ n \in store[u]
    /\ IF R!Strict
       THEN \/ next[u] < n /\ next[u] \notin arrived[u]
            \/ output[u] # <<>> /\ n < Head(output[u])
       ELSE Cardinality(store[u]) < Limit

\* An acknowledged chunk, which the server will not send again, is missing for one
\* of these reasons and for no other: the application has left, the try_send of
\* the last loop found no room, or the reorderer holds the chunk back.  Nothing
\* empties the store later, so what it holds at the end of the stream is lost.
MissingIsAccounted ==
    app # "dropped" /\ current = {} =>
        \A n \in Missing(srv_acked) : n \in discarded \/ HeldBack(n)

\* The application gets what the reorderer yields, from the first chunk on and
\* none skipped, through breaks, resumes and chunks sent again: all of it but
\* what waits for room, unless the try_send of the last loop fails.  In strict mode, whose
\* output has no gap (StrictInOrder of DownReorderer), neither has the delivery.
DeliveredAsYielded ==
    discarded = {} =>
        \E k \in 0 .. Len(output[u]) :
            /\ delivered = {output[u][i] : i \in 1 .. k}
            /\ app # "dropped" => flight = {output[u][i] : i \in k + 1 .. Len(output[u])}

\* A cancelled stream task ends: Conn::close waits for it, and has no timeout.
CancelledTaskEnds == ct ~> pc = "done"

-----------------------------------------------------------------------------
(* Stronger readings of the code that TLC refutes: the README says with which *)
(* constants, and what happens.                                              *)

\* "Process remaining data in channels": every acknowledged chunk got into the
\* application's channel, or can still get there, because the stream has not
\* ended and the reorderer has not passed its number.
AckedIsDelivered ==
    app # "dropped" => \A n \in Missing(srv_acked) :
        n \in store[u] /\ pc \notin {"failed", "done"} /\ next[u] <= n

\* Whatever was taken in is recorded for an ack, on its way to the server,
\* acknowledged, or sent again, as long as the stream and its connection live.
RecordedReachesServer ==
    pc = "read" /\ Connected => \A n \in arrived[u] :
        \/ n \in results \cup srv_acked \cup srv_resend
        \/ \E i \in 1 .. Len(outbound) : n \in outbound[i].results
        \/ \E q \in {rx_msg, inbound} : \E i \in 1 .. Len(q) : q[i] = ChunkMsg(n)

\* The token that a resume request presents is the newest that the task was given.
NewestTokenPresented == pc = "request" => resume_token = 0

\* "Wait for ack complete": when the wait ends because it is complete, the
\* completion of the last ack has arrived.
AckCompleteAwaited ==
    close_wait = "complete" /\ last_ack # -1 => last_ack \in completed

\* An error of the reorderer is what read_chunk returns at the end, when nothing
\* else ended the stream.
ReorderingReported ==
    failed /\ app = "idle" /\ close_result = "none" /\ meta_open /\ ~shutdown
        => read_result # "closed"
=============================================================================
