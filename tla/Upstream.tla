------------------------------ MODULE Upstream ------------------------------
(***************************************************************************)
(* One upstream of the iSCP client: the application's handle (write, flush, *)
(* close), the stream task (upstream_loop, UpstreamFlusher and its          *)
(* UpstreamStorage), the resume task it spawns whenever it needs a          *)
(* connection (get_conn_and_resume), and - external to the crate - the      *)
(* connection, the reconnection and the server they talk to.                *)
(*                                                                         *)
(* A step is the code between two points at which another task can observe  *)
(* or change the shared state.  One call of write_data_points writes one    *)
(* data point, named by its position in the order of the writes; payloads,  *)
(* data IDs, callbacks and log lines are left out.                          *)
(***************************************************************************)
EXTENDS Integers, Sequences, FiniteSets

CONSTANTS
    QoS,             \* "Unreliable", "Reliable" or "Partial"
    FlushPolicy,     \* the flush policy, without its parameters
    BufferSize,      \* buffer_size of the policy; every payload has size 1
    ExpiryZero,      \* config.expiry_interval.is_zero()
    AliasPerResume,  \* the server assigns another alias at every resume
    MaxSeq,          \* u32::MAX
    ChannelSize,     \* messages the write queue and the link hold
    MaxWrites,       \* bound: data points the application writes
    MaxConns,        \* bound: connections the reconnection makes
    MaxResumes       \* bound: resumes the server performs

FlushPolicies == {"None", "IntervalOnly", "BufferSizeOnly",
                  "IntervalOrBufferSize", "Immediately"}

ASSUME ConstantsAssumption ==
    /\ QoS \in {"Unreliable", "Reliable", "Partial"}
    /\ FlushPolicy \in FlushPolicies
    /\ BufferSize \in Nat
    /\ ExpiryZero \in BOOLEAN
    /\ AliasPerResume \in BOOLEAN
    /\ MaxSeq \in Nat \ {0}
    /\ ChannelSize \in Nat \ {0}
    /\ MaxWrites \in Nat
    /\ MaxConns \in Nat \ {0}
    /\ MaxResumes \in Nat

VARIABLES
    \* the application, which owns the handle (&mut self: one call at a time)
    app,            \* the call in progress, or "idle"
    result,         \* what the last flush or close returned
    written,        \* data points pushed into the buffer so far: 1 .. written
    accepted,       \* those whose write_data_points returned Ok
    \* UpstreamInner, shared by the handle, the stream task and the resume task
    buffer,         \* data_points_buffer
    last_issued,    \* last_issued_sequence_number, 0 before the first
    total,          \* total_data_points
    stream_id_alias,
    resume_token,   \* 0 is the empty string that take() leaves
    notify,         \* the permit of notify_flush
    tx_result,      \* the call whose result sender is registered, or "none"
    ct,             \* the cancellation token is cancelled
    is_connected,
    \* the stream task
    pc,             \* where upstream_loop is
    sending,        \* the chunk flush() is sending: at most one
    closing,        \* the select took the cancellation branch
    resend,         \* stored chunks after_resume has yet to send
    chunks,         \* UpstreamStorage.chunks
    last_received,  \* last_received_sequence_number, 0 for None
    rx_ack,         \* results waiting in the ack channel
    \* the resume task
    rpc,            \* where get_conn_and_resume is, or its result
    local_token,    \* its local resume_token, 0 when empty
    need_resume,
    wire_conn,      \* number of the connection the stream uses
    \* the connection (external to the stream)
    epoch,          \* number of the connection in SharedWireConn
    up,             \* that connection is alive
    shutdown,       \* the sender of SharedWireConn is gone
    registered,     \* the read loop routes acks to rx_ack
    net,            \* chunks queued or on their way to the server
    \* the server (external)
    srv_alias,      \* alias the server knows the stream by
    srv_conn,       \* number of the connection it was opened or resumed on
    srv_resumes,    \* resumes it performed; the token it issued last is +1
    srv_received,   \* sequence numbers of the chunks it accepted
    srv_pending,    \* accepted, ack not sent yet
    \* history
    issued,         \* every chunk take_chunk made, in order
    close_request   \* the UpstreamCloseRequest made: at most one

appVars    == <<app, result, written, accepted>>
innerVars  == <<buffer, last_issued, total, stream_id_alias, resume_token,
                notify, tx_result, ct, is_connected>>
loopVars   == <<pc, sending, closing, resend, chunks, last_received, rx_ack>>
resumeVars == <<rpc, local_token, need_resume, wire_conn>>
connVars   == <<epoch, up, shutdown, registered, net>>
srvVars    == <<srv_alias, srv_conn, srv_resumes, srv_received, srv_pending>>
histVars   == <<issued, close_request>>
vars == <<appVars, innerVars, loopVars, resumeVars, connVars, srvVars, histVars>>

Points == 1 .. MaxWrites
Chunk  == [seq: 0 .. MaxSeq, alias: Nat, data: SUBSET Points]

\* is_connected() of the WireConn the stream holds: a connection is replaced
\* in SharedWireConn only after it died.
Connected == wire_conn = epoch /\ up

-----------------------------------------------------------------------------
(* flush_policy.rs *)

\* Mutant: off by one at the buffer size.
NeedFlushAbove(size) ==
    \/ FlushPolicy = "Immediately"
    \/ FlushPolicy \in {"BufferSizeOnly", "IntervalOrBufferSize"} /\ BufferSize < size

NeedFlush(size) ==
    \/ FlushPolicy = "Immediately"
    \/ FlushPolicy \in {"BufferSizeOnly", "IntervalOrBufferSize"} /\ BufferSize <= size

HasInterval == FlushPolicy \in {"IntervalOnly", "IntervalOrBufferSize"}

-----------------------------------------------------------------------------
(* Upstream::new: the response of request_open gave alias 1 and token 1,    *)
(* and the stream task starts by spawning a resume task.                    *)

Init ==
    /\ app = "idle" /\ result = "none" /\ written = 0 /\ accepted = {}
    /\ buffer = {} /\ last_issued = 0 /\ total = 0
    /\ stream_id_alias = 1 /\ resume_token = 1
    /\ notify = FALSE /\ tx_result = "none" /\ ct = FALSE /\ is_connected = TRUE
    /\ pc = "resuming" /\ sending = {} /\ closing = FALSE /\ resend = {}
    /\ chunks = {} /\ last_received = 0 /\ rx_ack = {}
    /\ rpc = "top" /\ local_token = 0 /\ need_resume = FALSE /\ wire_conn = 1
    /\ epoch = 1 /\ up = TRUE /\ shutdown = FALSE /\ registered = FALSE /\ net = <<>>
    /\ srv_alias = 1 /\ srv_conn = 1 /\ srv_resumes = 0 /\ srv_received = {} /\ srv_pending = {}
    /\ issued = <<>> /\ close_request = {}

-----------------------------------------------------------------------------
(* The application *)

\* write_data_points pushes first ...
WritePush ==
    /\ app = "idle" /\ written < MaxWrites
    /\ written' = written + 1
    /\ buffer' = buffer \cup {written + 1}
    /\ app' = IF NeedFlush(Cardinality(buffer) + 1) THEN "pushed_full" ELSE "pushed"
    /\ UNCHANGED <<result, accepted, last_issued, total, stream_id_alias, resume_token,
                   notify, tx_result, ct, is_connected,
                   loopVars, resumeVars, connVars, srvVars, histVars>>

\* Mutant: Ok without a look at the token.
WriteReturnUnchecked ==
    /\ app \in {"pushed", "pushed_full"}
    /\ app' = "idle"
    /\ accepted' = accepted \cup {written}
    /\ notify' = (notify \/ app = "pushed_full")
    /\ UNCHANGED <<result, written, buffer, last_issued, total, stream_id_alias,
                   resume_token, tx_result, ct, is_connected,
                   loopVars, resumeVars, connVars, srvVars, histVars>>

\* ... and looks at the cancellation token afterwards.
WriteReturn ==
    /\ app \in {"pushed", "pushed_full"}
    /\ app' = "idle"
    /\ IF ct
       THEN UNCHANGED <<accepted, notify>>
       ELSE /\ accepted' = accepted \cup {written}
            /\ notify' = (notify \/ app = "pushed_full")
    /\ UNCHANGED <<result, written, buffer, last_issued, total, stream_id_alias,
                   resume_token, tx_result, ct, is_connected,
                   loopVars, resumeVars, connVars, srvVars, histVars>>

\* Registers the sender, then leaves a permit; waits without a time limit.
FlushCall ==
    /\ app = "idle" /\ ~ct
    /\ app' = "flush" /\ result' = "none"
    /\ tx_result' = "flush"
    /\ notify' = TRUE
    /\ UNCHANGED <<written, accepted, buffer, last_issued, total, stream_id_alias,
                   resume_token, ct, is_connected,
                   loopVars, resumeVars, connVars, srvVars, histVars>>

\* The caller drops the future of flush(); the sender stays registered.
FlushDropped ==
    /\ app = "flush"
    /\ app' = "idle"
    /\ UNCHANGED <<result, written, accepted, innerVars,
                   loopVars, resumeVars, connVars, srvVars, histVars>>

\* Registers the sender, then cancels (a close of a cancelled stream is Ok).
CloseCall ==
    /\ app = "idle" /\ ~ct
    /\ app' = "close" /\ result' = "none"
    /\ tx_result' = "close"
    /\ ct' = TRUE
    /\ UNCHANGED <<written, accepted, buffer, last_issued, total, stream_id_alias,
                   resume_token, notify, is_connected,
                   loopVars, resumeVars, connVars, srvVars, histVars>>

\* close_timeout elapses in close().
CloseCallTimeout ==
    /\ app = "close"
    /\ app' = "idle" /\ result' = "err"
    /\ UNCHANGED <<written, accepted, innerVars,
                   loopVars, resumeVars, connVars, srvVars, histVars>>

-----------------------------------------------------------------------------
(* UpstreamFlusher and UpstreamStorage *)

\* Mutant: a counter wider than the sequence numbers.
NextSeqUnwrapped == last_issued + 1

\* last_issued_sequence_number.fetch_add(1) + 1 in a release build, which wraps.
NextSeq == IF last_issued = MaxSeq THEN 0 ELSE last_issued + 1

NewChunk == [seq |-> NextSeq, alias |-> stream_id_alias, data |-> buffer]

\* UpstreamStorage::add_chunk: a map from sequence numbers to chunks.
AddChunk(chunk) ==
    chunks' = IF QoS = "Reliable"
              THEN {c \in chunks : c.seq # chunk.seq} \cup {chunk}
              ELSE chunks

\* Mutant: the buffer is copied, not taken.
TakeChunkKeeping ==
    IF buffer = {}
    THEN UNCHANGED <<buffer, last_issued, total, issued, chunks>>
    ELSE /\ buffer' = buffer
         /\ last_issued' = NextSeq
         /\ total' = total + Cardinality(buffer)
         /\ issued' = Append(issued, NewChunk)
         /\ AddChunk(NewChunk)

\* Mutant: total_data_points counts chunks.
TakeChunkCounted ==
    IF buffer = {}
    THEN UNCHANGED <<buffer, last_issued, total, issued, chunks>>
    ELSE /\ buffer' = {}
         /\ last_issued' = NextSeq
         /\ total' = total + 1
         /\ issued' = Append(issued, NewChunk)
         /\ AddChunk(NewChunk)

\* take_chunk followed by add_chunk, which is how every caller uses it.
TakeChunk ==
    IF buffer = {}
    THEN UNCHANGED <<buffer, last_issued, total, issued, chunks>>
    ELSE /\ buffer' = {}
         /\ last_issued' = NextSeq
         /\ total' = total + Cardinality(buffer)
         /\ issued' = Append(issued, NewChunk)
         /\ AddChunk(NewChunk)

\* Mutant: an ack empties the storage.
ProcessAckClearing(s) ==
    /\ rx_ack' = rx_ack \ {s}
    /\ last_received' = IF last_received < s THEN s ELSE last_received
    /\ chunks' = {}

\* process_ack for one result of an ack.
ProcessAck(s) ==
    /\ rx_ack' = rx_ack \ {s}
    /\ last_received' = IF last_received < s THEN s ELSE last_received
    /\ chunks' = {c \in chunks : c.seq # s}

\* may_send_err: the registered sender, if any, is taken and used.
Reply(r) ==
    /\ tx_result' = "none"
    /\ app' = IF tx_result = app THEN "idle" ELSE app
    /\ result' = IF tx_result = app THEN r ELSE result

\* send_message_with_qos: queued while the connection is alive and the queue
\* has room; an error when the connection is dead, or on timeout when it is full.
SendOk(c)  == Connected /\ Len(net) < ChannelSize /\ net' = Append(net, c)
SendErr    == (~Connected \/ Len(net) = ChannelSize) /\ UNCHANGED net

-----------------------------------------------------------------------------
(* upstream_loop: while the resume task runs *)

\* notify_flush or the interval: flush(None) issues a chunk and stores it.
ResumingFlush ==
    /\ pc = "resuming"
    /\ notify \/ HasInterval
    /\ notify' \in IF HasInterval THEN {FALSE, notify} ELSE {FALSE}
    /\ TakeChunk
    /\ pc' = "resuming_reply"
    /\ UNCHANGED <<appVars, stream_id_alias, resume_token, tx_result, ct, is_connected,
                   sending, closing, resend, last_received, rx_ack, resumeVars,
                   connVars, srvVars, close_request>>

ResumingReply ==
    /\ pc = "resuming_reply"
    /\ Reply("ok")
    /\ pc' = "resuming"
    /\ UNCHANGED <<written, accepted, buffer, last_issued, total, stream_id_alias,
                   resume_token, notify, ct, is_connected, sending, closing, resend,
                   chunks, last_received, rx_ack, resumeVars, connVars, srvVars, histVars>>

\* return from upstream_loop: the drop guard cancels the token, and the ack
\* channel and its registration go.
Exit ==
    /\ pc' = "remaining"
    /\ ct' = TRUE
    /\ registered' = FALSE
    /\ rx_ack' = {}

\* The resume task gave up: result code, unrecoverable error, timeout, cancel.
ResumeGaveUp ==
    /\ pc = "resuming" /\ rpc \in {"none", "err"}
    /\ Exit
    /\ UNCHANGED <<appVars, buffer, last_issued, total, stream_id_alias, resume_token,
                   notify, tx_result, is_connected, sending, closing, resend, chunks,
                   last_received, resumeVars, epoch, up, shutdown, net, srvVars, histVars>>

\* Mutant: nothing is sent again after a resume.
ResumeDoneNoResend ==
    /\ pc = "resuming" /\ rpc = "some"
    /\ is_connected' = TRUE
    /\ pc' = "after_resume"
    /\ UNCHANGED <<appVars, buffer, last_issued, total, stream_id_alias, resume_token,
                   notify, tx_result, ct, sending, closing, resend, chunks, last_received,
                   rx_ack, resumeVars, connVars, srvVars, histVars>>

\* The resume task delivered a connection; after_resume starts.
ResumeDone ==
    /\ pc = "resuming" /\ rpc = "some"
    /\ is_connected' = TRUE
    /\ IF QoS = "Reliable"
       THEN /\ resend' = chunks
            /\ UNCHANGED <<buffer, last_issued, total, issued, chunks>>
       ELSE /\ TakeChunk
            /\ UNCHANGED resend
    /\ pc' = "after_resume"
    /\ UNCHANGED <<appVars, stream_id_alias, resume_token, notify, tx_result, ct,
                   sending, closing, last_received, rx_ack, resumeVars, connVars,
                   srvVars, close_request>>

\* The stream must be resumed unless it expires at once or was cancelled.
BackToResume(need) ==
    /\ is_connected' = FALSE
    /\ IF ExpiryZero \/ ct
       THEN /\ Exit
            /\ UNCHANGED resumeVars
       ELSE /\ pc' = "resuming" /\ ct' = ct
            /\ registered' = FALSE /\ rx_ack' = {}
            /\ rpc' = "top" /\ local_token' = 0
            /\ need_resume' = (need \/ need_resume)
            /\ UNCHANGED wire_conn

\* Mutant: a storage without an order, such as a HashMap.
ResendUnordered ==
    /\ pc = "after_resume" /\ resend # {}
    /\ \E c \in resend : SendOk(c) /\ resend' = resend \ {c}
    /\ UNCHANGED <<appVars, innerVars, pc, sending, closing, chunks, last_received,
                   rx_ack, resumeVars, epoch, up, shutdown, registered, srvVars, histVars>>

\* after_resume: stored chunks are sent again in the order of the BTreeMap.
Resend ==
    /\ pc = "after_resume" /\ resend # {}
    /\ \E c \in resend :
        /\ \A d \in resend : c.seq <= d.seq
        /\ SendOk(c)
        /\ resend' = resend \ {c}
    /\ UNCHANGED <<appVars, innerVars, pc, sending, closing, chunks, last_received,
                   rx_ack, resumeVars, epoch, up, shutdown, registered, srvVars, histVars>>

ResendFailed ==
    /\ pc = "after_resume" /\ resend # {}
    /\ SendErr
    /\ BackToResume(FALSE)
    /\ resend' = {}
    /\ UNCHANGED <<appVars, buffer, last_issued, total, stream_id_alias, resume_token,
                   notify, tx_result, sending, closing, chunks, last_received,
                   epoch, up, shutdown, srvVars, histVars>>

ResendDone ==
    /\ pc = "after_resume" /\ resend = {}
    /\ pc' = "select"
    /\ UNCHANGED <<appVars, innerVars, sending, closing, resend, chunks, last_received,
                   rx_ack, resumeVars, connVars, srvVars, histVars>>

-----------------------------------------------------------------------------
(* upstream_loop: the flush loop *)

\* The first half of flush(Some(wire_conn)): the chunk to send.
FlushTake ==
    /\ TakeChunk
    /\ sending' = IF buffer = {} THEN {} ELSE {NewChunk}
    /\ pc' = "send"

SelectFlush ==
    /\ pc = "select"
    /\ notify \/ HasInterval
    /\ notify' \in IF HasInterval THEN {FALSE, notify} ELSE {FALSE}
    /\ closing' = FALSE
    /\ FlushTake
    /\ UNCHANGED <<appVars, stream_id_alias, resume_token, tx_result, ct, is_connected,
                   resend, last_received, rx_ack, resumeVars, connVars, srvVars,
                   close_request>>

SelectCancelled ==
    /\ pc = "select" /\ ct
    /\ closing' = TRUE
    /\ FlushTake
    /\ UNCHANGED <<appVars, stream_id_alias, resume_token, notify, tx_result, ct,
                   is_connected, resend, last_received, rx_ack, resumeVars, connVars,
                   srvVars, close_request>>

SelectAck ==
    /\ pc = "select"
    /\ \E s \in rx_ack : ProcessAck(s)
    /\ UNCHANGED <<appVars, innerVars, pc, sending, closing, resend, resumeVars,
                   connVars, srvVars, histVars>>

\* The ack channel is empty and its sender is gone with the connection.
SelectAckClosed ==
    /\ pc = "select" /\ rx_ack = {} /\ ~Connected
    /\ BackToResume(TRUE)
    /\ UNCHANGED <<appVars, buffer, last_issued, total, stream_id_alias, resume_token,
                   notify, tx_result, sending, closing, resend, chunks, last_received,
                   epoch, up, shutdown, net, srvVars, histVars>>

\* The flush is complete: its result goes to whoever registered a sender.
Flushed ==
    /\ pc = "send"
    /\ IF sending = {} THEN UNCHANGED net ELSE \E c \in sending : SendOk(c)
    /\ sending' = {}
    /\ Reply("ok")
    /\ pc' = IF closing \/ last_issued = MaxSeq THEN "last_ack" ELSE "select"
    /\ UNCHANGED <<written, accepted, buffer, last_issued, total, stream_id_alias,
                   resume_token, notify, ct, is_connected, closing, resend, chunks,
                   last_received, rx_ack, resumeVars, epoch, up, shutdown, registered,
                   srvVars, histVars>>

FlushFailed ==
    /\ pc = "send" /\ sending # {}
    /\ SendErr
    /\ sending' = {}
    /\ Reply("err")
    /\ BackToResume(TRUE)
    /\ UNCHANGED <<written, accepted, buffer, last_issued, total, stream_id_alias,
                   resume_token, notify, closing, resend, chunks, last_received,
                   epoch, up, shutdown, srvVars, histVars>>

-----------------------------------------------------------------------------
(* upstream_loop: the close path *)

LastAckReceive ==
    /\ pc = "last_ack" /\ last_issued > 0 /\ last_received # last_issued
    /\ \E s \in rx_ack : ProcessAck(s)
    /\ UNCHANGED <<appVars, innerVars, pc, sending, closing, resend, resumeVars,
                   connVars, srvVars, histVars>>

\* Mutant: the wait for the last ack has no time limit.
LastAckDoneUntimed ==
    /\ pc = "last_ack"
    /\ last_issued = 0 \/ last_received = last_issued \/ (rx_ack = {} /\ ~Connected)
    /\ pc' = "close_request"
    /\ UNCHANGED <<appVars, innerVars, sending, closing, resend, chunks, last_received,
                   rx_ack, resumeVars, connVars, srvVars, histVars>>

\* No chunk was issued, the last ack is in, the channel is closed, or
\* close_timeout elapsed: all of them lead to the close request.
LastAckDone ==
    /\ pc = "last_ack"
    /\ pc' = "close_request"
    /\ UNCHANGED <<appVars, innerVars, sending, closing, resend, chunks, last_received,
                   rx_ack, resumeVars, connVars, srvVars, histVars>>

CloseRequest == [final |-> last_issued, total |-> total, answered |-> FALSE,
                 acked |-> last_received = last_issued]

SendCloseRequest ==
    /\ pc = "close_request" /\ Connected
    /\ close_request' = {CloseRequest}
    /\ pc' = "close_response"
    /\ UNCHANGED <<appVars, innerVars, sending, closing, resend, chunks, last_received,
                   rx_ack, resumeVars, connVars, srvVars, issued>>

\* The answer arrives, after the server handled what was sent before.
CloseAnswered ==
    /\ pc = "close_response" /\ Connected
    /\ QoS # "Unreliable" => net = <<>>
    /\ close_request' = {[r EXCEPT !.answered = TRUE] : r \in close_request}
    /\ Reply("ok")
    /\ Exit
    /\ UNCHANGED <<written, accepted, buffer, last_issued, total, stream_id_alias,
                   resume_token, notify, is_connected, sending, closing, resend, chunks,
                   last_received, resumeVars, epoch, up, shutdown, net, srvVars, issued>>

\* A dead connection, a timeout or a refusal.
CloseFailed ==
    /\ \/ pc = "close_request" /\ ~Connected
       \/ pc = "close_response"
    /\ Reply("err")
    /\ Exit
    /\ UNCHANGED <<written, accepted, buffer, last_issued, total, stream_id_alias,
                   resume_token, notify, is_connected, sending, closing, resend, chunks,
                   last_received, resumeVars, epoch, up, shutdown, net, srvVars, histVars>>

\* process_remaining_data_points, and the stream task ends.
ProcessRemaining ==
    /\ pc = "remaining"
    /\ TakeChunk
    /\ pc' = "done"
    /\ UNCHANGED <<appVars, stream_id_alias, resume_token, notify, tx_result, ct,
                   is_connected, sending, closing, resend, last_received, rx_ack,
                   resumeVars, connVars, srvVars, close_request>>

-----------------------------------------------------------------------------
(* get_conn_and_resume *)

Resuming == pc \in {"resuming", "resuming_reply"}

\* The first attempt of the task takes the token out of the shared cell.  (Once
\* the stream is cancelled the task ends at its next wait: it sees no answer to
\* a request it makes then.)
ResumeTakeToken ==
    /\ Resuming /\ rpc = "top" /\ Connected /\ need_resume /\ ~ct
    /\ IF local_token = 0
       THEN local_token' = resume_token /\ resume_token' = 0
       ELSE UNCHANGED <<local_token, resume_token>>
    /\ rpc' = IF ExpiryZero THEN "none" ELSE "request"
    /\ UNCHANGED <<appVars, buffer, last_issued, total, stream_id_alias, notify,
                   tx_result, ct, is_connected, loopVars, need_resume, wire_conn,
                   connVars, srvVars, histVars>>

\* The server takes the token it issued last, or, from a client that did not get
\* the last answer and tries again, the one before; any other is refused (external).
TokenTaken == local_token # 0 /\ local_token \in {srv_resumes, srv_resumes + 1}

\* The server performs the resume (external) ...
ServerResume ==
    /\ srv_resumes < MaxResumes /\ TokenTaken
    /\ srv_resumes' = srv_resumes + 1
    /\ srv_alias' = IF AliasPerResume THEN srv_resumes + 2 ELSE 1
    /\ srv_conn' = wire_conn
    /\ srv_pending' = {}
    /\ UNCHANGED srv_received

\* ... and the response arrives: the new alias and token are stored, while
\* the task's local token keeps its value.
ResumeOk ==
    /\ Resuming /\ rpc = "request" /\ Connected
    /\ ServerResume
    /\ stream_id_alias' = srv_alias'
    /\ resume_token' = srv_resumes' + 1
    /\ need_resume' = FALSE
    /\ rpc' = "top"
    /\ UNCHANGED <<appVars, buffer, last_issued, total, notify, tx_result, ct,
                   is_connected, loopVars, local_token, wire_conn, connVars, issued,
                   close_request>>

\* ... or the response is lost and the task retries.
ResumeResponseLost ==
    /\ Resuming /\ rpc = "request"
    /\ ServerResume
    /\ rpc' = "top"
    /\ UNCHANGED <<appVars, innerVars, loopVars, local_token, need_resume, wire_conn,
                   connVars, histVars>>

\* can_retry_resume: transport error, closed connection, timeout.
ResumeRetry ==
    /\ Resuming /\ rpc = "request"
    /\ rpc' = "top"
    /\ UNCHANGED <<appVars, innerVars, loopVars, local_token, need_resume, wire_conn,
                   connVars, srvVars, histVars>>

\* A result code (INVALID_RESUME_TOKEN is one), or an error that cannot be retried.
ResumeRefused ==
    /\ Resuming /\ rpc = "request"
    /\ rpc' = "none"
    /\ UNCHANGED <<appVars, innerVars, loopVars, local_token, need_resume, wire_conn,
                   connVars, srvVars, histVars>>

\* add_upstream queues the command that registers the new ack channel.
AddUpstream ==
    /\ Resuming /\ rpc = "top" /\ Connected /\ ~need_resume
    /\ rpc' = "some"
    /\ rx_ack' = {}
    /\ UNCHANGED <<appVars, innerVars, pc, sending, closing, resend, chunks,
                   last_received, local_token, need_resume, wire_conn, connVars, srvVars,
                   histVars>>

\* Mutant: the new connection is used without a resume.
GetUpdatedNoResume ==
    /\ Resuming /\ rpc = "top" /\ ~Connected
    /\ \/ /\ wire_conn # epoch /\ ~ct
          /\ wire_conn' = epoch
          /\ UNCHANGED rpc
       \/ /\ wire_conn = epoch /\ shutdown
          /\ rpc' = "none"
          /\ UNCHANGED wire_conn
    /\ UNCHANGED <<appVars, innerVars, loopVars, local_token, need_resume, connVars,
                   srvVars, histVars>>

\* get_updated: the next connection, or none will come.
GetUpdated ==
    /\ Resuming /\ rpc = "top" /\ ~Connected
    /\ \/ /\ wire_conn # epoch /\ ~ct
          /\ wire_conn' = epoch
          /\ need_resume' = TRUE
          /\ UNCHANGED rpc
       \/ /\ wire_conn = epoch /\ shutdown
          /\ rpc' = "none"
          /\ UNCHANGED <<wire_conn, need_resume>>
    /\ UNCHANGED <<appVars, innerVars, loopVars, local_token, connVars, srvVars, histVars>>

\* timeout_with_ct: expiry_interval elapses while the task waits, or the stream
\* is cancelled.  A request the server already performed is abandoned with it.
ResumeTimeout ==
    /\ Resuming
    /\ rpc = "request" \/ (rpc = "top" /\ ~Connected /\ wire_conn = epoch)
    /\ rpc' = "err"
    /\ UNCHANGED <<appVars, innerVars, loopVars, local_token, need_resume, wire_conn,
                   connVars, srvVars, histVars>>

ResumeCancelled ==
    /\ Resuming /\ rpc \in {"top", "request"} /\ ct
    /\ rpc' = "err"
    /\ UNCHANGED <<appVars, innerVars, loopVars, local_token, need_resume, wire_conn,
                   connVars, srvVars, histVars>>

-----------------------------------------------------------------------------
(* The connection and the server (external) *)

\* The connection dies with everything in its queues.
ConnDown ==
    /\ up
    /\ up' = FALSE /\ net' = <<>> /\ registered' = FALSE /\ srv_pending' = {}
    /\ UNCHANGED <<appVars, innerVars, loopVars, resumeVars, epoch, shutdown,
                   srv_alias, srv_conn, srv_resumes, srv_received, histVars>>

\* The reconnection publishes a new connection.
Reconnect ==
    /\ ~up /\ ~shutdown /\ epoch < MaxConns
    /\ epoch' = epoch + 1 /\ up' = TRUE
    /\ UNCHANGED <<appVars, innerVars, loopVars, resumeVars, shutdown, registered, net,
                   srvVars, histVars>>

\* The reconnection gives up, or Conn::close ended it.
ConnShutdown ==
    /\ ~up /\ ~shutdown
    /\ shutdown' = TRUE
    /\ UNCHANGED <<appVars, innerVars, loopVars, resumeVars, epoch, up, registered, net,
                   srvVars, histVars>>

\* Conn::close cancels the token of every stream.
ConnClose ==
    /\ ~ct
    /\ ct' = TRUE
    /\ UNCHANGED <<appVars, buffer, last_issued, total, stream_id_alias, resume_token,
                   notify, tx_result, is_connected, loopVars, resumeVars, connVars,
                   srvVars, histVars>>

\* The read loop processes the AddUpstream command.
ReadLoopRegister ==
    /\ ~registered /\ Connected
    /\ rpc = "some" /\ pc \notin {"remaining", "done"}
    /\ registered' = TRUE
    /\ UNCHANGED <<appVars, innerVars, loopVars, resumeVars, epoch, up, shutdown, net,
                   srvVars, histVars>>

\* The chunk at i leaves the network: only datagrams overtake one another.
Leaves(i) ==
    /\ QoS # "Unreliable" => i = 1
    /\ net' = SubSeq(net, 1, i - 1) \o SubSeq(net, i + 1, Len(net))

\* A chunk under another alias than the stream's, or on a connection where the
\* stream was not resumed, is not the stream's.
ServerReceive ==
    /\ up
    /\ \E i \in 1 .. Len(net) :
        /\ Leaves(i)
        /\ IF srv_conn = epoch /\ net[i].alias = srv_alias
           THEN /\ srv_received' = srv_received \cup {net[i].seq}
                /\ srv_pending' = srv_pending \cup {net[i].seq}
           ELSE UNCHANGED <<srv_received, srv_pending>>
    /\ UNCHANGED <<appVars, innerVars, loopVars, resumeVars, epoch, up, shutdown,
                   registered, srv_alias, srv_conn, srv_resumes, histVars>>

\* Datagrams may be lost.
NetDrop ==
    /\ QoS = "Unreliable"
    /\ \E i \in 1 .. Len(net) : Leaves(i)
    /\ UNCHANGED <<appVars, innerVars, loopVars, resumeVars, epoch, up, shutdown,
                   registered, srvVars, histVars>>

\* An ack reaches the read loop, which drops it when no channel is registered.
ServerAck ==
    /\ up
    /\ \E s \in srv_pending :
        /\ srv_pending' = srv_pending \ {s}
        /\ rx_ack' = IF registered THEN rx_ack \cup {s} ELSE rx_ack
    /\ UNCHANGED <<appVars, innerVars, pc, sending, closing, resend, chunks,
                   last_received, resumeVars, connVars, srv_alias, srv_conn, srv_resumes,
                   srv_received, histVars>>

\* Nothing is left to do for the stream.
Finished ==
    /\ pc = "done" /\ app \in {"idle", "flush"}
    /\ UNCHANGED vars

-----------------------------------------------------------------------------
App == WritePush \/ WriteReturn \/ FlushCall \/ FlushDropped \/ CloseCall \/ CloseCallTimeout

Loop == \/ ResumingFlush \/ ResumingReply \/ ResumeGaveUp \/ ResumeDone
        \/ Resend \/ ResendFailed \/ ResendDone
        \/ SelectFlush \/ SelectCancelled \/ SelectAck \/ SelectAckClosed
        \/ Flushed \/ FlushFailed
        \/ LastAckReceive \/ LastAckDone
        \/ SendCloseRequest \/ CloseAnswered \/ CloseFailed \/ ProcessRemaining

ResumeTask == \/ ResumeTakeToken \/ ResumeOk \/ ResumeResponseLost \/ ResumeRetry
              \/ ResumeRefused \/ AddUpstream \/ GetUpdated \/ ResumeTimeout
              \/ ResumeCancelled

Environment == \/ ConnDown \/ Reconnect \/ ConnShutdown \/ ConnClose \/ ReadLoopRegister
               \/ ServerReceive \/ NetDrop \/ ServerAck

Next == App \/ Loop \/ ResumeTask \/ Environment \/ Finished

Spec == Init /\ [][Next]_vars

\* The runtime polls a task that is ready and timers fire (weak fairness); a
\* select! picks among its ready branches at random, and expiry_interval runs
\* over all the retries of a resume task, so what is possible again and again
\* happens in the end (strong fairness).  Nothing is assumed of the
\* application's calls, of the connection or of the server.
LoopRuns == \/ ResumingReply \/ Resend \/ ResendFailed \/ ResendDone \/ Flushed
            \/ FlushFailed \/ LastAckDone \/ SendCloseRequest \/ CloseFailed
            \/ ProcessRemaining
ResumeTaskRuns == ResumeTakeToken \/ AddUpstream \/ GetUpdated \/ ResumeCancelled

Fairness ==
    /\ WF_vars(LoopRuns)
    /\ WF_vars(ResumeTaskRuns)
    /\ SF_vars(ResumeTimeout)
    /\ SF_vars(ResumeGaveUp \/ ResumeDone)
    /\ SF_vars(ResumingFlush \/ SelectFlush)
    /\ SF_vars(SelectCancelled)

FairSpec == Spec /\ Fairness

-----------------------------------------------------------------------------
(* Properties *)

AppStates == {"idle", "pushed", "pushed_full", "flush", "close"}
LoopStates == {"resuming", "resuming_reply", "after_resume", "select", "send",
               "last_ack", "close_request", "close_response", "remaining", "done"}

AppTypes ==
    /\ app \in AppStates
    /\ result \in {"none", "ok", "err"}
    /\ written \in 0 .. MaxWrites
    /\ accepted \subseteq 1 .. written
    /\ app \in {"pushed", "pushed_full"} => written > 0

InnerTypes ==
    /\ buffer \subseteq 1 .. written
    /\ last_issued \in 0 .. MaxSeq
    /\ total \in Nat
    /\ stream_id_alias \in Nat /\ resume_token \in Nat
    /\ notify \in BOOLEAN /\ ct \in BOOLEAN /\ is_connected \in BOOLEAN
    /\ tx_result \in {"none", "flush", "close"}

LoopTypes ==
    /\ pc \in LoopStates
    /\ sending \subseteq Chunk
    /\ closing \in BOOLEAN
    /\ resend \subseteq Chunk
    /\ chunks \subseteq Chunk
    /\ last_received \in 0 .. MaxSeq
    /\ rx_ack \subseteq 0 .. MaxSeq

ResumeTypes ==
    /\ rpc \in {"top", "request", "some", "none", "err"}
    /\ local_token \in Nat /\ need_resume \in BOOLEAN
    /\ wire_conn \in 1 .. MaxConns

ConnTypes ==
    /\ epoch \in 1 .. MaxConns
    /\ up \in BOOLEAN /\ shutdown \in BOOLEAN /\ registered \in BOOLEAN
    /\ net \in Seq(Chunk)

ServerTypes ==
    /\ srv_alias \in Nat /\ srv_conn \in 1 .. MaxConns /\ srv_resumes \in 0 .. MaxResumes
    /\ srv_received \subseteq 0 .. MaxSeq /\ srv_pending \subseteq 0 .. MaxSeq

HistTypes ==
    /\ issued \in Seq(Chunk)
    /\ close_request \subseteq [final: 0 .. MaxSeq, total: Nat,
                                answered: BOOLEAN, acked: BOOLEAN]

\* Every variable has the type its Rust counterpart has; in particular a data
\* point counts as written before anything else holds it.
TypeOK == /\ AppTypes /\ InnerTypes /\ LoopTypes /\ ResumeTypes
          /\ ConnTypes /\ ServerTypes /\ HistTypes

\* The sequence numbers have not wrapped around yet.
NoWrap == Len(issued) <= MaxSeq

\* Data points of the first n chunks.
PointsOf(n) == {p \in Points : \E i \in 1 .. n : p \in issued[i].data}

\* A data point whose write returned Ok is in the buffer or in a chunk, and
\* once the stream task has ended it is in a chunk: the write pushes before it
\* looks at the token, and process_remaining_data_points runs after the token
\* was cancelled.
AcceptedIsIssued ==
    /\ accepted \subseteq buffer \cup PointsOf(Len(issued))
    /\ pc = "done" => accepted \cap buffer = {}

\* No data point is in two chunks, or in a chunk and in the buffer, whoever
\* took it: the flush loop, the resume phase or the final flush.
IssuedOnce ==
    /\ PointsOf(Len(issued)) \cap buffer = {}
    /\ \A i, j \in 1 .. Len(issued) : i # j => issued[i].data \cap issued[j].data = {}

\* With reliable QoS a chunk leaves the storage only after the server accepted
\* it, through disconnections, resumes, resends and lost acks.
Retained ==
    QoS = "Reliable" /\ NoWrap =>
        \A i \in 1 .. Len(issued) :
            issued[i] \in chunks \/ issued[i].seq \in srv_received

\* A close request that follows the last ack means that the server has every
\* chunk of a reliable stream.
AckedCloseIsComplete ==
    QoS = "Reliable" /\ NoWrap =>
        \A r \in close_request : r.acked => 1 .. r.final \subseteq srv_received

\* The close request tells the number of data points in the chunks up to the
\* final sequence number it tells.
CloseRequestTotals ==
    NoWrap => \A r \in close_request :
        /\ r.final <= Len(issued)
        /\ r.total = Cardinality(PointsOf(r.final))

\* Chunks are only on a connection on which the server knows the stream.
SentWhereResumed == net # <<>> => srv_conn = epoch

\* No resume request carries an empty token: the task takes the token out of the
\* shared cell, and every way back to a later resume puts one there.
ResumeTokenPresented == rpc = "request" => local_token # 0

\* After a break, however often the resume was retried and whichever answers were
\* lost, the stream is resumed with a token before anything is sent.
ResumedBeforeSending == SentWhereResumed /\ ResumeTokenPresented

\* What a reliable stream promises: every data point goes into one entry of a
\* log, and the server obtains the entries in order and without a gap, through
\* breaks, resumes and chunks sent again.  This is what lets the close path wait
\* for the last sequence number only.
Log == INSTANCE InOrderLog WITH
           pending <- buffer,
           log <- [i \in 1 .. Len(issued) |-> issued[i].data],
           got <- srv_received
ImplementsInOrderLog == Log!Spec

\* A cancelled stream (closed by the application, by Conn::close or by itself)
\* ends its task: Conn::close waits for that without a time limit.
CancelledTaskEnds == ct ~> pc = "done"

\* A data point whose write returned Ok is put into a chunk eventually when the
\* policy flushes by itself: again and again no such point is left in the
\* buffer, so no wake-up is lost.
AcceptedIsFlushed == []<>(accepted \cap buffer = {})

-----------------------------------------------------------------------------
(* Stronger readings of the code that TLC refutes: the README says with which *)
(* constants, and what happens.                                              *)

\* flush(): "データポイントをフラッシュする" (flush the data points).
FlushOkMeansFlushed ==
    [][app = "flush" /\ app' = "idle" /\ result' = "ok" => buffer = {}]_vars

\* close(): "このアップストリームを閉じる" (close this upstream); its result is the
\* result of the close request.
CloseOkMeansClosed ==
    [][app = "close" /\ app' = "idle" /\ result' = "ok"
        => \E r \in close_request' : r.answered]_vars

\* flush() returns: "unexpected upstream close when waiting flush complete" is
\* its answer to a stream that closed before.
FlushReturns == app = "flush" ~> app # "flush"

\* last_issued_sequence_number is an Option<NonZeroU32>: no chunk has number 0.
SequenceNumberNonZero == \A i \in 1 .. Len(issued) : issued[i].seq # 0

\* The token that a resume request presents is the newest that the task was given.
NewestTokenPresented == rpc = "request" => resume_token = 0

\* is_connected(): "whether the upstream is connected".
EndedIsNotConnected == pc = "done" => ~is_connected
=============================================================================
