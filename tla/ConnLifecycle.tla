--------------------------- MODULE ConnLifecycle ----------------------------
(***************************************************************************)
(* The life of an iscp::Conn: opening streams on it, closing it, and the    *)
(* reconnection loop that keeps a wire connection published.  Conn is Clone *)
(* and its methods take &self, so opens and closes of several threads       *)
(* interleave at every access to the shared fields; the future of close()   *)
(* may be dropped where it waits.  A stream is its task: what it does in    *)
(* between is the subject of Upstream, from which this module takes that a  *)
(* cancelled stream ends.                                                   *)
(***************************************************************************)
EXTENDS TokenSource, FiniteSets

CONSTANTS
    Streams,   \* streams the application opens
    Closers,   \* callers of Conn::close
    ErrLimit,  \* failed opens in a row after which the connection is cancelled: 4
    HasTokenSource, \* the builder was given a token source
    MaxWires   \* bound: wire connections made, published or not

ASSUME LifecycleAssumption ==
    /\ ErrLimit \in Nat \ {0}
    /\ HasTokenSource \in BOOLEAN
    /\ MaxWires \in Nat \ {0}

VARIABLES
    \* ConnInner
    ct,             \* the cancellation token is cancelled
    close_semaphore,\* "free", "held" or "closed"
    conn_state,     \* the ConnectionState in tx_state
    stream_ct,      \* streams whose token is in the vector
    has_waiter,     \* stream_close_waiter is Some
    err_counter,    \* ERR_COUNTER of Upstream::new
    \* open_upstream_with_config / open_downstream_with_config, by stream
    opener,         \* where the call is
    open_wire,      \* the wire connection it uses
    \* the streams
    task,           \* the stream task: "none", "running" or "ended"
    cancelled,      \* streams whose token was cancelled
    \* Conn::close, by caller
    closer,
    \* reconnection_loop
    recon,          \* where it is
    wire,           \* number of the published wire connection
    wire_up,        \* it is alive
    \* ConnBuilder::connect
    built,          \* number of the last wire connection made
    abandoned       \* a connect that failed or was cancelled left one behind

vars == <<ct, close_semaphore, conn_state, stream_ct, has_waiter, err_counter, opener,
          open_wire, task, cancelled, closer, recon, wire, wire_up, built, abandoned,
          rx_command, serving, token_call, asked, token>>

innerVars == <<ct, close_semaphore, conn_state, stream_ct, has_waiter, err_counter>>
openVars  == <<opener, open_wire, task, cancelled>>
tokenVars == <<rx_command, serving, token_call, asked, token>>
dialVars  == <<built, abandoned, tokenVars>>
reconVars == <<recon, wire, wire_up, dialVars>>

Init ==
    /\ ct = FALSE /\ close_semaphore = "free" /\ conn_state = "Connected"
    /\ stream_ct = {} /\ has_waiter = TRUE /\ err_counter = 0
    /\ opener = [s \in Streams |-> "idle"]
    /\ open_wire = [s \in Streams |-> 1]
    /\ task = [s \in Streams |-> "none"]
    /\ cancelled = {}
    /\ closer = [c \in Closers |-> "idle"]
    /\ recon = "connected" /\ wire = 1 /\ wire_up = TRUE
    /\ built = 1 /\ abandoned = FALSE /\ TokenInit

\* Mutant: the clone is made when the task is spawned, not before the request.
HoldsWaitGroupLate(s) == task[s] = "running"

\* A clone of the WaitGroup is alive: an open in progress or a stream task.
HoldsWaitGroup(s) == opener[s] = "requesting" \/ task[s] = "running"

-----------------------------------------------------------------------------
(* Opening a stream *)

\* check_close
OpenCheck(s) ==
    /\ opener[s] = "idle" /\ task[s] = "none"
    /\ close_semaphore # "held" /\ ~ct
    /\ opener' = [opener EXCEPT ![s] = "checked"]
    /\ UNCHANGED <<innerVars, open_wire, task, cancelled, closer, reconVars>>

\* stream_wait_group unwraps the waiter; then the open request is made on the
\* connection that is published at that time.
OpenWaitGroup(s) ==
    /\ opener[s] = "checked"
    /\ opener' = [opener EXCEPT ![s] = IF has_waiter THEN "requesting" ELSE "panicked"]
    /\ open_wire' = [open_wire EXCEPT ![s] = wire]
    /\ UNCHANGED <<innerVars, task, cancelled, closer, reconVars>>

\* request_open: only the connection the request went to can bring a response.
Answerable(s) == open_wire[s] = wire /\ wire_up

\* Upstream::new: the response arrives and the stream task is spawned.
OpenOk(s) ==
    /\ opener[s] = "requesting" /\ Answerable(s)
    /\ opener' = [opener EXCEPT ![s] = "opened"]
    /\ task' = [task EXCEPT ![s] = "running"]
    /\ err_counter' = 0
    /\ UNCHANGED <<ct, close_semaphore, conn_state, stream_ct, has_waiter, open_wire,
                   cancelled, closer, reconVars>>

\* The request fails; the ErrLimit-th failure in a row cancels the connection.
OpenErr(s) ==
    /\ opener[s] = "requesting"
    /\ opener' = [opener EXCEPT ![s] = "idle"]
    /\ err_counter' = (err_counter + 1) % ErrLimit
    /\ wire_up' = (wire_up /\ ~(err_counter + 1 = ErrLimit /\ open_wire[s] = wire))
    /\ UNCHANGED <<ct, close_semaphore, conn_state, stream_ct, has_waiter, open_wire,
                   task, cancelled, closer, recon, wire, dialVars>>

\* push_stream_ct, and the call returns.
OpenPush(s) ==
    /\ opener[s] = "opened"
    /\ stream_ct' = stream_ct \cup {s}
    /\ opener' = [opener EXCEPT ![s] = "returned"]
    /\ UNCHANGED <<ct, close_semaphore, conn_state, has_waiter, err_counter, open_wire,
                   task, cancelled, closer, reconVars>>

\* A stream ends when its token is cancelled, and may end by itself before.
StreamEnds(s) ==
    /\ task[s] = "running"
    /\ task' = [task EXCEPT ![s] = "ended"]
    /\ UNCHANGED <<innerVars, opener, open_wire, cancelled, closer, reconVars>>

-----------------------------------------------------------------------------
(* Conn::close *)

CloseAcquire(c) ==
    /\ closer[c] = "idle" /\ close_semaphore = "free"
    /\ close_semaphore' = "held"
    /\ conn_state' = "Closing"
    /\ closer' = [closer EXCEPT ![c] = "acquired"]
    /\ UNCHANGED <<ct, stream_ct, has_waiter, err_counter, openVars, reconVars>>

\* acquire() fails: another call has closed the connection.
CloseAlready(c) ==
    /\ closer[c] = "idle" /\ close_semaphore = "closed"
    /\ closer' = [closer EXCEPT ![c] = "done"]
    /\ UNCHANGED <<innerVars, openVars, reconVars>>

\* take_stream_waiter unwraps the waiter; every registered stream is cancelled.
CloseTake(c) ==
    /\ closer[c] = "acquired"
    /\ cancelled' = IF has_waiter THEN cancelled \cup stream_ct ELSE cancelled
    /\ stream_ct' = {}
    /\ has_waiter' = FALSE
    /\ closer' = [closer EXCEPT ![c] = IF has_waiter THEN "wait_streams" ELSE "panicked"]
    /\ close_semaphore' = IF has_waiter THEN "held" ELSE "free"
    /\ UNCHANGED <<ct, conn_state, err_counter, opener, open_wire, task, reconVars>>

\* Mutant: the token of the connection is not cancelled.
CloseStreamsEndedOnly(c) ==
    /\ closer[c] = "wait_streams"
    /\ \A s \in Streams : ~HoldsWaitGroup(s)
    /\ closer' = [closer EXCEPT ![c] = "wait_reconnection"]
    /\ UNCHANGED <<innerVars, openVars, reconVars>>

\* stream_waiter.wait() returns when no clone of the WaitGroup is left.
CloseStreamsEnded(c) ==
    /\ closer[c] = "wait_streams"
    /\ \A s \in Streams : ~HoldsWaitGroup(s)
    /\ ct' = TRUE
    /\ closer' = [closer EXCEPT ![c] = "wait_reconnection"]
    /\ UNCHANGED <<close_semaphore, conn_state, stream_ct, has_waiter, err_counter,
                   openVars, reconVars>>

CloseDone(c) ==
    /\ closer[c] = "wait_reconnection" /\ recon = "ended"
    /\ close_semaphore' = "closed"
    /\ closer' = [closer EXCEPT ![c] = "done"]
    /\ UNCHANGED <<ct, conn_state, stream_ct, has_waiter, err_counter, openVars, reconVars>>

\* The caller drops the future of close(): the permit is returned.
CloseDropped(c) ==
    /\ closer[c] \in {"wait_streams", "wait_reconnection"}
    /\ closer' = [closer EXCEPT ![c] = "dropped"]
    /\ close_semaphore' = "free"
    /\ UNCHANGED <<ct, conn_state, stream_ct, has_waiter, err_counter, openVars, reconVars>>

\* The next call of close(): the semaphore lets one in at a time, so a caller
\* that calls again meets what a second one that waited would.
CloseAgain(c) ==
    /\ closer[c] \in {"done", "dropped"}
    /\ closer' = [closer EXCEPT ![c] = "idle"]
    /\ UNCHANGED <<innerVars, openVars, reconVars>>

-----------------------------------------------------------------------------
(* reconnection_loop *)

\* The top of the loop.
ReconTop ==
    /\ recon = "top"
    /\ conn_state' = "Connected"
    /\ recon' = "connected"
    /\ UNCHANGED <<ct, close_semaphore, stream_ct, has_waiter, err_counter, openVars,
                   closer, wire, wire_up, dialVars>>

ReconLost ==
    /\ recon = "connected" /\ ~wire_up
    /\ conn_state' = "Reconnecting"
    /\ recon' = "connecting"
    /\ UNCHANGED <<ct, close_semaphore, stream_ct, has_waiter, err_counter, openVars,
                   closer, wire, wire_up, dialVars>>

\* Disconnect is sent and the wire connection is closed.
ReconClose ==
    /\ recon = "connected" /\ ct
    /\ wire_up' = FALSE
    /\ recon' = "returned"
    /\ UNCHANGED <<innerVars, openVars, closer, wire, dialVars>>

\* builder.connect() makes the wire connection first, then asks for a token.
ReconDial ==
    /\ recon = "connecting" /\ built < MaxWires
    /\ built' = built + 1
    /\ recon' = IF HasTokenSource THEN "token" ELSE "handshake"
    /\ IF HasTokenSource THEN TokenAsk ELSE UNCHANGED tokenVars
    /\ UNCHANGED <<innerVars, openVars, closer, wire, wire_up, abandoned>>

\* The token is there, and the connect request is sent with it.
ReconToken ==
    /\ recon = "token" /\ token_call = "ok"
    /\ recon' = "handshake"
    /\ TokenDrop
    /\ UNCHANGED <<innerVars, openVars, closer, wire, wire_up, built, abandoned>>

\* An invalid interval, an error of the token source, a timeout, or no connect
\* response: connect() returns an error, and nobody closes the connection it made.
ReconDialFails ==
    /\ recon \in {"token", "handshake"}
    /\ abandoned' = TRUE
    /\ recon' = "connecting"
    /\ TokenDrop
    /\ UNCHANGED <<innerVars, openVars, closer, wire, wire_up, built>>

\* The connect response arrives and the connection is published.
ReconConnect ==
    /\ recon = "handshake"
    /\ wire' = built /\ wire_up' = TRUE
    /\ recon' = "top"
    /\ UNCHANGED <<innerVars, openVars, closer, dialVars>>

\* The future of connect() is dropped.
ReconAbort ==
    /\ recon \in {"connecting", "token", "handshake"} /\ ct
    /\ abandoned' = (abandoned \/ recon # "connecting")
    /\ recon' = "returned"
    /\ TokenDrop
    /\ UNCHANGED <<innerVars, openVars, closer, wire, wire_up, built>>

\* The loop returned: the state becomes Closed, and the WaitGroup is dropped.
ReconEnd ==
    /\ recon = "returned"
    /\ conn_state' = "Closed"
    /\ recon' = "ended"
    /\ UNCHANGED <<ct, close_semaphore, stream_ct, has_waiter, err_counter, openVars,
                   closer, wire, wire_up, dialVars>>

\* The task of the token source and the call that waits for it.
TokenSourceStep ==
    /\ TokenSend \/ TokenTake \/ \E result \in {"ok", "err"} : TokenAnswer(result)
    /\ UNCHANGED <<innerVars, openVars, closer, recon, wire, wire_up, built,
                   abandoned>>

\* The wire connection dies (external).
WireDown ==
    /\ wire_up
    /\ wire_up' = FALSE
    /\ UNCHANGED <<innerVars, openVars, closer, recon, wire, dialVars>>

\* Every call of close() is over.
Finished ==
    /\ \A c \in Closers : closer[c] \in {"done", "dropped", "panicked"}
    /\ UNCHANGED vars

-----------------------------------------------------------------------------
Open(s) == OpenCheck(s) \/ OpenWaitGroup(s) \/ OpenOk(s) \/ OpenErr(s) \/ OpenPush(s)
Close(c) == \/ CloseAcquire(c) \/ CloseAlready(c) \/ CloseTake(c) \/ CloseStreamsEnded(c)
            \/ CloseDone(c) \/ CloseDropped(c) \/ CloseAgain(c)
Recon == \/ ReconTop \/ ReconLost \/ ReconClose \/ ReconDial \/ ReconToken \/ ReconDialFails
         \/ ReconConnect \/ ReconAbort \/ ReconEnd

Next ==
    \/ \E s \in Streams : Open(s) \/ StreamEnds(s)
    \/ \E c \in Closers : Close(c)
    \/ Recon \/ TokenSourceStep \/ WireDown \/ Finished

Spec == Init /\ [][Next]_vars

\* Calls that can go on do, requests time out, the reconnection loop is polled
\* and a stream ends when it is cancelled, or when it stays without a connection
\* (expiry_interval).  Nothing is assumed of the network, nor that
\* the application opens, closes or drops anything, or ever returns a token.
Fairness ==
    /\ \A s \in Streams :
        /\ WF_vars(OpenWaitGroup(s)) /\ WF_vars(OpenErr(s)) /\ WF_vars(OpenPush(s))
        /\ WF_vars((s \in cancelled \/ ~wire_up) /\ StreamEnds(s))
    /\ \A c \in Closers :
        /\ WF_vars(CloseTake(c)) /\ WF_vars(CloseStreamsEnded(c)) /\ WF_vars(CloseDone(c))
    /\ WF_vars(ReconTop \/ ReconLost \/ ReconEnd)
    /\ SF_vars(ReconClose) /\ SF_vars(ReconAbort)

FairSpec == Spec /\ Fairness

-----------------------------------------------------------------------------
(* Properties *)

\* Every variable has its type.
TypeOK ==
    /\ ct \in BOOLEAN
    /\ close_semaphore \in {"free", "held", "closed"}
    /\ conn_state \in {"Connected", "Reconnecting", "Closing", "Closed"}
    /\ stream_ct \subseteq Streams
    /\ has_waiter \in BOOLEAN
    /\ err_counter \in 0 .. ErrLimit - 1
    /\ opener \in [Streams -> {"idle", "checked", "requesting", "opened", "returned", "panicked"}]
    /\ open_wire \in [Streams -> 1 .. MaxWires]
    /\ task \in [Streams -> {"none", "running", "ended"}]
    /\ cancelled \subseteq Streams
    /\ closer \in [Closers -> {"idle", "acquired", "wait_streams", "wait_reconnection",
                               "done", "dropped", "panicked"}]
    /\ recon \in {"top", "connected", "connecting", "token", "handshake", "returned", "ended"}
    /\ wire \in 1 .. built /\ wire_up \in BOOLEAN
    /\ built \in 1 .. MaxWires /\ abandoned \in BOOLEAN
    /\ rx_command \in Seq(1 .. asked) /\ Len(rx_command) <= 1
    /\ serving \in 0 .. asked /\ token \in 0 .. asked /\ asked \in 0 .. MaxWires
    /\ token_call \in {"none", "send", "wait", "ok", "err"}

\* When close() has returned, to whichever caller, no stream task is left, the
\* reconnection loop has ended, its wire connection is down and the state is
\* Closed, whatever the other threads opened or closed in the meantime.
ClosedMeansClosed ==
    \A c \in Closers : closer[c] = "done" =>
        /\ \A s \in Streams : ~HoldsWaitGroup(s)
        /\ recon = "ended" /\ ~wire_up
        /\ conn_state = "Closed"

\* A connect request carries the token that was fetched for it: one that the
\* application was slow to return is not used for a later connection, however
\* many connects have timed out and left their commands behind.
TokenIsOwn == token_call = "ok" => token = asked

\* close() returns when no open was in progress while it took the streams, in
\* whatever state the reconnection is.
CloseReturns ==
    \A c \in Closers :
        (closer[c] = "wait_streams"
            /\ \A s \in Streams : HoldsWaitGroup(s) => s \in cancelled)
        ~> closer[c] \in {"done", "dropped"}

-----------------------------------------------------------------------------
(* Stronger readings of the code that TLC refutes: the README says with which *)
(* constants, and what happens.                                              *)

\* "Wait for close of streams": close() cancels the streams and waits for them.
CloseAlwaysReturns ==
    \A c \in Closers :
        closer[c] = "wait_streams" ~> closer[c] \in {"done", "dropped"}

\* stream_wait_group asserts that the waiter is there: as_ref().unwrap().
OpenNeverPanics == \A s \in Streams : opener[s] # "panicked"

\* take_stream_waiter asserts that the waiter is there: take().unwrap().
CloseNeverPanics == \A c \in Closers : closer[c] # "panicked"

\* wait_for_state "returns error if closed while waiting states other than
\* Closed": the Closed state stays once the reconnection loop has ended.
ClosedStays == recon = "ended" => conn_state = "Closed"

\* A closed connection leaves no wire connection behind.
NothingAbandoned == recon = "ended" => ~abandoned
=============================================================================
