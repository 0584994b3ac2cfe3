# A TLA+ model of iscp-rs

iscp-rs is a client library for the iSCP protocol: an application opens a
connection to a server, sends data points through *upstreams*, receives chunks
through *downstreams* and exchanges calls with other nodes, over transports
that fail and are replaced while the streams live on. This directory models the
parts of the crate in which tasks, channels, timeouts and reconnections meet,
checks them with TLC on small instances and proves their safety invariants, all but
one, and a refinement for every instance with TLAPS. File names below are relative to `src/src/`.

## 1. Inventory

| Component | State it keeps | Operations | What makes it correct |
|---|---|---|---|
| upstream (`iscp/upstream.rs`, `storage.rs`, `flush_policy.rs`) | point buffer and its size, last issued number, totals, alias, resume token, stored chunks, one cell for the sender of a result, token `ct` | write, flush, close; the stream task (resume, resend, select, last ack, close request, remaining points); the resume task | an accepted point gets into exactly one chunk; a chunk of a reliable stream is kept until acked and arrives in order; nothing is sent where the stream was not resumed; a cancelled task ends |
| downstream (`iscp/downstream.rs`, `down_state.rs`) | received numbers not yet acked, upstream aliases, ack ids, two channels to the application, resume token, `close_cause` | read_chunk, metadata read, close; the stream task (resume, read, ack, drain, wait for completion, close request) | an ack covers what was taken in; what is acked is delivered, or there is a known reason why not; aliases stay resolvable; a cancelled task ends |
| reorderer (`iscp/down_order.rs`) | per upstream: next number, store | iter, pop | order in strict mode, no loss, bounded store, nothing held back |
| connection (`iscp/mod.rs`, `internal.rs`) | published wire connection, state, list of stream tokens, wait group, close semaphore | connect, open, close, reconnection loop | close() means closed, and returns |
| wire connection (`wire/mod.rs`, `wire/read_loop.rs`) | write queues, response senders, request id, registrations of streams, `ct`, two wait groups | requests, unreliable sends, read, write and ping loops, closer | a response reaches its caller; what is queued is written; the transport is closed last; a silent peer is noticed |
| E2E calls (`iscp/e2e.rs`) | per attempt: call id, ack subscription in the read loop, position in the broadcast channel | send_call, send_reply_call, call and wait for reply, receive | Ok means handled; a retry does not repeat what succeeded; the own reply is found; calls are received in order; a closed connection leaves nobody waiting, unless `close()` was dropped and repeated |
| transports (`transport/quic.rs`, `webtransport.rs`, `websocket.rs`) | a channel behind the tasks that read streams, a queue in front of the task that writes the socket, cancellation token | connect, read, write, close; accept loop, stream tasks, write task | what is decoded was encoded, in order and without gap on a reliable lane; the end comes last; every task ends with the connection |
| datagrams (`transport/datagram.rs`) | partial messages, sequence number | split, reassemble | no message made of parts of another; none lost whose segments all arrive |
| compression (`transport/compression.rs`) | window of earlier messages per side | configure, compress, extract | both sides have the same window, or none |
| token source (`token_source.rs`) | a task with a command channel of one slot | token | a connect uses the token fetched for it; a stuck source keeps nobody from closing |
| messages, encoding, builders, TLS | - | conversions, library calls | out of scope, see section 8 |

How they interact. `Conn::connect` builds a wire connection and starts the
reconnection loop, which replaces it when it dies and publishes the new one in a
watch channel. Every stream has a task that takes the published connection,
resumes on it if it is another one than before, registers a channel with its
read loop by a command, and works until the connection dies or the stream's
token is cancelled; then it goes back to the resume or runs its close path.
A message goes from the queue of a write loop through the encoder and the
compressor to a lane of the transport, and on the other side through the
extractor and the decoder to the read loop, which routes it.
`Conn::close` cancels the tokens of all streams, waits for their wait group, then
cancels the reconnection loop and waits for it. The tasks of one wire connection
share one token: the end of any of them ends all.

What is hard here: one cell or one list shared by calls that overlap (`tx_result`,
`stream_ct`), tokens taken out of a cell and put back on some paths only, the
order of a cancellation and of the state the woken task reads, waits that are not
selected with the token, acks and resends across a resume, bounded channels
between tasks that wait for each other. `PROJECT.json` lists each hazard at its
line, with the properties that would catch it.

## 2. Modules

| Module | Models | Composed of |
|---|---|---|
| `InOrderLog` | the abstract promise of a reliable upstream: points are cut into entries of a log, a prefix of which the receiver holds | - |
| `Upstream` | one upstream, its application, tasks, connection and server | refines `InOrderLog` |
| `DownReorderer` | the reorderer with any number of upstreams | - |
| `Downstream` | one downstream with its application, tasks, connection and server | `INSTANCE DownReorderer` |
| `ConnLifecycle` | opens, closes and the reconnection loop of one connection; a stream is its task | extends `TokenSource`; takes from the stream modules that a cancelled stream ends |
| `TokenSource` | the shared token task and its caller | - |
| `WireConn` | one wire connection: callers, read and write loops of both lanes, ping loop, closer, streams that register under one alias, owner | - |
| `E2ECall` | the tasks that call and receive, their retry loops, what the read loop keeps for them, close and reconnection | - |
| `Compression` | configuration, negotiated parameters, the dictionaries | - |
| `Datagram` | splitter and frame buffer | - |
| `Lane` | one direction of a transport from the write loop to the other side's read loop | extends `Compression` and `Datagram` |
| `DownReordererProofs`, `UpstreamProofs`, `DownstreamProofs`, `ConnLifecycleProofs`, `WireConnProofs`, `E2ECallProofs`, `LaneProofs` | theorems | each extends the module it is named after |
| `LaneDeliveryProofs` | the theorems on what a lane delivers | extends `LaneProofs` |

Names follow the source: a variable is called like the field it stands for, an
action like the function, with a suffix for the step of it. A step is the code
between two points at which another task can see or change shared state: an
`.await` on a channel or on the network, or a lock. `PROJECT.json` maps every
definition to its lines. The definitions commented `Mutant:` are not part of the
models; they change one definition each as a plausible mistake would, and show
that the property named with them in `PROJECT.json` notices it.

### Upstream
`app` is the call in progress (the handle takes `&mut self`: one at a time);
`buffer` .. `is_connected` are `UpstreamInner`; `pc` is where `upstream_loop` is
(`resuming`, `after_resume`, `select`, `send`, `last_ack`, `close_request`,
`remaining`, `done`); `rpc` is where the spawned `get_conn_and_resume` is;
`net` are the chunks on their way, `srv_*` the server, `issued`,
`close_request` history. Points are numbered in the order of the writes; payloads, data ids and
callbacks are left out. `write_data_points` is two steps, the push and the look
at the token, as in the code. The server takes the next chunk of a reliable
stream in order and acks in any order; the datagrams of an unreliable one may be
lost or overtaken. The server keeps the alias of a stream over a resume unless
`AliasPerResume` says otherwise. It takes a resume token if it is the one it issued
last, or the one before, whose answer the client may have missed (`TokenTaken`).

### Downstream
`pc` is where `downstream_loop` is; the reorderer's variables are those of
`DownReorderer`, whose actions are used as they are (`R!Iter`, `R!Pop`). Chunks
of one upstream `u` are their numbers. The read loop waits for room in the
application's channel (`sending`); the loop over what remains after it does
not (`DrainPop`). A best-effort reorderer of limit 1 yields what arrives at once, and
stands for reordering `None`. The option `omit_empty_chunk`, filters and the
content of metadata and its acks are left out. The server sends its chunks in
any order, keeps those not acked and sends them again after a resume. `discarded` is
history: the chunks that the last loop found no room for. `ConnCloses = FALSE` leaves
out `Conn::close`, which ends the reconnection under the stream; the run in which
the order and the acks are the question does without.

### ConnLifecycle and TokenSource
One process per open and per close, the reconnection loop, the stream tasks.
`HoldsWaitGroup` is who keeps the wait group from ending. A future of `close()`
may be dropped at any await, and `close()` called again. `ErrLimit` is the constant
4 of `Upstream::new`. `connect()` of the reconnection loop makes a wire
connection, asks for a token if there is a source (`TokenAsk` .. `TokenAnswer`, the
actions of `TokenSource`), sends the connect request and then succeeds, fails or
is cancelled; `abandoned` says that it made a connection and did not return it. A
call of `token()` is its number, so that an answer to an earlier call can be told
from one to the current call. Nothing makes the application return a token.

### WireConn
The two lanes are the elements of `Lanes`. `ct` is shared; `ReadWriteEnded` and
`TasksEnded` are the two wait groups. A `select!` is a set of actions enabled
together. `MaxId` keeps the request id below its wrap at 2^31 requests. The streams of
the model have one alias: `open` are the receivers whose streams still hold them, with the
guards that send the removal. A stream registers anew after the guard of its last
registration is gone, and the aliases of downstreams are drawn from a counter; the
alias of an upstream is chosen by the server, and `AliasReused` says whether
it may choose one that a stream still holds, for instance while that waits for the
response to its close request.

### E2ECall
`pc` is where a task is in its retry loop: `state` (wait_for_state), `attempt`,
`send`, `ack`, `reply`, `recv`, and the results `ok` and `err`. A call is its id,
drawn anew for every attempt; `commands`, `tx_call_ack` and `acked` are the way of a
subscription through the read loop to its oneshot channel; `calls` keeps, by
connection, what the broadcast channel was given, of which the last `Capacity`
can still be read, and `pos` is how far the receiver of the attempt is, which goes
with the attempt. `send_reply_call` is `send_call`, and a caller that has its ack
either returns or waits for the reply, so one process stands for all three.
`recv_reply_call` is `recv_call` with the opposite test. A wire connection breaks
in one step, with its queues (its tasks are the subject of `WireConn`), and the
connection states are those of `ConnLifecycle`, without streams. `close` is how far
`close()` got, and `closer` whether it was dropped at one of its waits and called
again: such a call sends Closing and panics (`CloseAgain`). The future of a call is
dropped only where it leaves something behind.

### Lane, Compression and Datagram
`Lane` is one direction of a transport. `kind` is the lane: `stream` (QUIC and
WebTransport, whose code is the same: length and bytes on a stream, a task per
accepted stream, one channel), `websocket` (a queue and the task that writes the
socket) or `datagram`. `compression` is any setting that up to two builder calls
make and `build()` accepts. The write loop compresses and writes, the read loop
reads and extracts; `sent` and `delivered` are the messages before and after, `compressed` and `extracted`
all their bytes in a row. `sent` also remembers the stream and the dictionary of each
message, which only the properties and the proofs read. A byte
of a message is the message's number and its place, so a byte in a wrong place
shows. `Sorted` is the sort of `join_frames`: any order of the frames in which the
indices do not decrease. Deflate is external: the result is opaque bytes that only the dictionary
used for it turns back, shorter than the message, and another dictionary gives
`Corrupt`; the code would see an error or other bytes. The sender of several
streams is a server: this crate opens one. A dictionary is kept over several
streams only if `build()` let it, which `DeliveredIsSent` is about. Of the bytes on
their way the network decides how many still arrive when the connection goes. The
sending end of a QUIC connection that closes discards what was not sent. `kind`
and `compression` do not change. A read loop that takes a command extracts an
empty buffer (`ReadCommand`), as the code does.

## 3. Runs

| Run | Instance | Checks | Size |
|---|---|---|---|
| `UpstreamReliable` | reliable, interval flush, 2 writes, 3 connections, 2 resumes, numbers to 2 | `AcceptedIsIssued`, `Retained`, `AckedCloseIsComplete`, `ResumedBeforeSending`, refinement `ImplementsInOrderLog` | 1 600 000 states, 40 s |
| `UpstreamUnreliable` | unreliable, flush at buffer size 1, 2 writes, 2 connections, numbers to 1 (they wrap), `FairSpec` | `TypeOK`, `IssuedOnce`, `CloseRequestTotals`; liveness `CancelledTaskEnds`, `AcceptedIsFlushed` | 157 000 states, 95 s |
| `DownReorderer` | both modes, 2 upstreams, limit 2, numbers to 3, 5 arrivals | `TypeOK`, `StrictInOrder`, `NothingLost`, `NothingHeldBack`, `StoreBounded` | 110 000 states, 3 s |
| `ConnLifecycle` | 2 streams, a closer that may try again, 3 wire connections, a token source, `FairSpec` | `ClosedMeansClosed`, `TokenIsOwn`; liveness `CloseReturns` | 440 000 states, 1 min |
| `ConnLifecycleOpenClose` | 1 stream, 1 closer, `FairSpec` | violated: `CloseAlwaysReturns` | |
| `DownstreamResume` | strict, limit 1, 4 chunks, 6 arrivals, 2 connections, 1 resume | `AckIsSound`, `ResumeTokenPresented`, `MissingIsAccounted`, `DeliveredAsYielded` | 3 500 000 states, 75 s |
| `DownstreamLiveness` | best effort, 1 chunk, 1 metadata, 2 connections, `FairSpec` | liveness `CancelledTaskEnds` | 1 min |
| `E2ECall` | a caller, a receiver, 2 attempts, 2 connections, a call of a peer, channel of one, a `close()` that may be repeated | `RetriesAreSound`, `NoReplyMissed`, `ReceivedInOrder`, `NoStaleSubscription`, `NoneBlockedAfterClose` | 4 600 000 states, 2 min |
| `WireConnRequests` | 2 callers, reliable lane, pings | `OwnResponse` | 1 900 000 states, 1 min |
| `WireConnLanes` | both lanes, 2 datagrams, pings | `QueuedIsWritten`, `CloseIsOrderly` | 740 000 states, 20 s |
| `WireConnLiveness` | 2 streams one after the other, 2 messages of the server, reliable lane, `FairSpec` | `RoutedToCurrent`; liveness `SilenceIsNoticed`, `CancelledEnds` | 490 000 states, 2 min |
| `Lane` | 3 messages, 2 streams, channel of 1, queue of 2, window of 4, segments of 2, at most 3 of them, 2 datagram messages, a pong, `FairSpec` | `DeliveredIsSent`, `InOrderWithoutGap`, `LostOnlyWithSegment`, `DictionaryIsWindow`, `EndIsLast`; liveness `ReceiversEnd` | 257 000 states, 50 s |

Why the bounds are enough. The hard cases need a break and a resume (two
connections), a resume after a resume (three), a retry after a lost response (two resumes of the server, or one
that it performs without the client hearing of it), a chunk between two others
(three numbers, in the reorderer), a chunk older than the first and a gap at once
(four, in `DownstreamResume`), a registration behind a removal (two streams), a channel that is full (one slot), a caller that
is late (two callers), a sequence number at its end (a small `MaxSeq`), a broadcast
that overwrites (a reply and a call, one slot), a token call that meets the command
of an earlier one (three wire connections: two dials after the first), a
dictionary that a message fills, overfills or replaces (lengths 1, 3 and 4 of a
window of 4, three messages), a message below, at and above a segment boundary
and at the limit of the splitter (lengths 1, 4, 5 and 6, of segments of 2, at most
3), segments of two messages that mix. On streams every message has the same
length: what the lengths do is the matter of the other lanes, and the prefix that
tells it is written and read all the same. The sequence number of datagrams stays
below its wrap at 2^32. The order of a strict downstream is
two properties: `StrictInOrder`, which is proved for every instance of the
reorderer, says that its output has no gap, and `DeliveredAsYielded` that the
application gets that output. `TypeOK` of
`ConnLifecycle`, `Downstream`, `WireConn` and `E2ECall` holds on these instances too
and is not part of a run. Deadlock is checked in every run: a `Finished` step marks
the states in which nothing is left to do.

## 4. Fairness

- `Upstream`: the runtime polls a task that is ready and timers fire (weak
  fairness); a `select!` picks among its ready branches at random and
  `expiry_interval` runs over all the retries of one resume, so these steps are
  strongly fair. Nothing is assumed of the application's calls, the connection or
  the server.
- `Downstream`: the task is polled; the application reads its two channels.
  Without the second assumption a cancelled task need not end (section 7, 11).
- `ConnLifecycle`: calls that can go on do, requests time out, the loop is polled
  (strongly fair where a `select!` meets the cancellation again and again),
  a cancelled stream ends. Nothing is assumed of the token source. The last is what `Upstream` and `Downstream` check: it
  holds for upstreams, and for downstreams whose application reads or has dropped
  its handles.
- `WireConn`: every loop is polled and a write to the transport returns, with or
  without an error. Nothing in the source bounds such a write; a transport whose
  write never returns keeps `close()` waiting. Nothing is assumed of callers, the
  stream or the server.
- `Lane`: the read loop and the tasks behind a reader are polled. Nothing is assumed
  of the network, nor that anybody writes, closes or cancels.
- `E2ECall` states no liveness: the wait for an ack has no limit (section 7, 15).
  `NoneBlockedAfterClose` says instead that every call can take a step once the
  reconnection loop has ended, but for the ones section 7, 10 is about.

## 5. What is proved

The theorems hold for every value of the constants that the modules' ASSUMEs allow.
These say that sizes and bounds are natural numbers and modes are among those the
code has. One of them, `DictionaryAssumption`, only states what follows from the
definition of `DictionarySize`, because the provers' arithmetic has no powers. Three
theorems assume more, as the table says.

| Theorem | States | Rests on |
|---|---|---|
| `DownReordererProofs!TypeCorrect` | `[]TypeOK` | |
| `DownReordererProofs!StrictOrder` | `[]StrictInOrder` | `StrictInv` |
| `DownReordererProofs!NoLoss` | `[]NothingLost` | itself |
| `DownReordererProofs!NoneHeldBack` | `[]NothingHeldBack` | `DrainInv` |
| `DownReordererProofs!Bounded` | `[]StoreBounded` | `DrainInv` |
| `UpstreamProofs!TypeCorrect` | `[]TypeOK` | |
| `UpstreamProofs!ReliableRetains` | `[]Retained` | `RetainedInv` |
| `UpstreamProofs!AcceptedNotLost` | `[]AcceptedIsIssued` | `AcceptedInv` |
| `UpstreamProofs!ChunksShareNothing` | `[]IssuedOnce` | `OnceInv` |
| `UpstreamProofs!ResumesFirst` | `[]ResumedBeforeSending` | `ResumeInv` |
| `UpstreamProofs!CloseTotals` | `[]CloseRequestTotals` | `TotalsInv` |
| `UpstreamProofs!AckedCloseComplete` | `[]AckedCloseIsComplete`, if `~AliasPerResume` | `OrderInv`, `CloseInv` |
| `UpstreamProofs!RefinesInOrderLog` | `ImplementsInOrderLog`, if `QoS = "Reliable"`, `~AliasPerResume` and `MaxWrites <= MaxSeq` | `OrderInv`, `IssuedBound` |
| `DownstreamProofs!TypeCorrect` | `[]TypeOK` | `TypeInv` |
| `DownstreamProofs!TokenPresented` | `[]ResumeTokenPresented` | `TokenKept` |
| `DownstreamProofs!SoundAcks` | `[]AckIsSound` | `RecordedWasTaken`, `AliasKnownFirst` |
| `DownstreamProofs!ImplementsReorderer` | the specification of `DownReorderer`, with the stream's reorderer | |
| `DownstreamProofs!MissingHasReason` | `[]MissingIsAccounted` | `ImplementsReorderer`, `YieldedIsThere`, `YieldedRun`, `FirstIsKept`, `StoppedForNobody` |
| `DownstreamProofs!NoneSkipped` | `[]DeliveredAsYielded` | `DeliveredSoFar` |
| `ConnLifecycleProofs!TypeCorrect` | `[]TypeOK` | |
| `ConnLifecycleProofs!OwnToken` | `[]TokenIsOwn` | itself |
| `ConnLifecycleProofs!CloseIsFinal` | `[]ClosedMeansClosed` | `ClosedInv` |
| `WireConnProofs!TypeCorrect` | `[]TypeOK` | `TypeInv` |
| `WireConnProofs!ResponseIsOwn` | `[]OwnResponse` | `OwnInv` |
| `WireConnProofs!NothingQueuedIsLost` | `[]QueuedIsWritten` | `WrittenInv` |
| `WireConnProofs!OrderlyClose` | `[]CloseIsOrderly` | `WrittenInv`, `EndInv` |
| `WireConnProofs!RoutesToCurrent` | `[]RoutedToCurrent`, if `~AliasReused` | `RouteInv` |
| `E2ECallProofs!TypeCorrect` | `[]TypeOK` | `TypeInv` |
| `E2ECallProofs!SoundRetries` | `[]RetriesAreSound` | `IdsInv`, `RetryInv` |
| `E2ECallProofs!ReplyNotMissed` | `[]NoReplyMissed` | `IdsInv`, `ReplyAhead` |
| `E2ECallProofs!CallsInOrder` | `[]ReceivedInOrder` | `LastIsPast` |
| `E2ECallProofs!SubscriptionsEnd` | `[]NoStaleSubscription` | `SubscriptionInv` |
| `LaneProofs!WindowKept` | `PushMsg` of a window is the window of what follows | |
| `LaneProofs!DictionariesAreWindows` | `[]DictionaryIsWindow` | `LaneInv`, `TakeoverFrames` |
| `LaneProofs!EndsLast` | `[]EndIsLast` | `LaneInv`, `NoneBehind`, `CloseInv` |
| `LaneDeliveryProofs!OnlySent` | `[]DeliveredIsSent` | `DeliveryInv`: `HistoryInv`, `DeliveredInv`, `SocketInv`, `StreamInv`, `DatagramInv` |
| `LaneDeliveryProofs!InOrder` | `[]InOrderWithoutGap` | `DeliveryInv` |
| `LaneDeliveryProofs!NoneLost` | `[]LostOnlyWithSegment` | `DeliveryInv` |

Each inductive invariant was an invariant of a TLC run before it was proved, except
for the parts of `DeliveryInv` that say that a counting function or a list of
message numbers exists, which TLC cannot look for. Every
proof goes by the actions of `Next`; where many of them do the same to the state
in question, a lemma first reduces them to a few effects (`ChunkSteps`,
`PointSteps`, `Steps` of `Lane`), or says which variables an invariant depends on.

The reorderer.
- `StrictInOrder` alone is not inductive: a pop yields `next`, about which it says
  nothing. `StrictInv` adds that `next` of a stream with output is the successor
  of the last number yielded (`ExpectsSuccessor`) and that the iterator in use is
  of a known stream (`CurrentKnown`): otherwise `iter` could set `next` anew.
- The limit is exceeded while an iterator works: by one chunk, the expected one,
  which the iterator yields before it is used up (`AtMostOneOver`). Of the stores
  no iterator works on, `DrainInv` says that they are within the limit and do not
  hold the expected chunk.

The upstream.
- `Retained` needs that chunks are numbered as they are issued up to the wrap
  (`Numbered`: an ack for number n must not remove another chunk of that number)
  and that every ack under way is for a chunk the server has (`AcksAreReceived`).
- `AcceptedIsIssued` needs that a task past its loop has its token cancelled
  (`CancelledWhenEnded`), because a write is accepted only while the token is not,
  and that every written point is held somewhere (`WrittenIsHeld`).
- `IssuedOnce` needs that chunks hold only points that were written, so that a new
  point is in none.
- `ResumedBeforeSending` needs to know where the resume token is on every path
  (`TokenSomewhere`), that the loop works with the connection the resume task
  delivered (`LoopHasConn`) and that the server knows the stream on that connection
  unless a resume is due (`ResumedOnConn`).
- The order. `OrderInv` says that no chunk overtakes one that the server lacks
  (`NetGapless`) and that, at each place of the loop, every issued chunk was received,
  is on its way, or is what the loop is about to send or send again
  (`LoopComplete`). It needs `~AliasPerResume`: chunks are sent again under the alias
  they were built with, and if a resume gave the stream another one the server
  would not know them (section 7, 6). It says nothing once numbers wrap.
- The refinement follows: `received` of the log is the prefix the server has. That
  numbers do not wrap is `MaxWrites <= MaxSeq`, since every chunk takes a point
  (`IssuedBound`); the code's numbers have 32 bits.
- `CloseRequestTotals`: `take_chunk` advances the total and the last number in one
  step, and no chunk shares a point with another (`OnceInv`), so the total is the
  number of points up to that number.

The downstream.
- The token is in the shared cell or with the resume under way (`TokenKept`).
- An ack lists what was recorded, and what is recorded was taken in
  (`RecordedWasTaken`). An alias is known here before an ack tells the server of it,
  and the server uses it only after that (`AliasKnownFirst`).
- Every step of the stream is one of `DownReorderer` or leaves the reorderer alone
  (`ImplementsReorderer`), so what was proved of a reorderer holds in the stream: what
  was taken in is in the store or was yielded, and an iterator that is used up
  leaves no expected chunk behind.
- What was yielded is with the application, waits for room or was discarded
  (`YieldedIsThere`). A strict output is a run of consecutive numbers that ends where
  the reorderer expects the next one (`YieldedRun`), and the first chunk is yielded or
  expected (`FirstIsKept`): so a chunk that is in the store and not ahead of a gap is
  older than that run. The iterator stops early only when the application has left
  (`StoppedForNobody`).
- What the application got is what was yielded, but for the one chunk that waits for
  room (`DeliveredSoFar`).

The connection. `ClosedMeansClosed` looks at the state after several tasks took their
turns: one caller at a time is past the semaphore (`PermitHeld`), it takes the waiter
before it waits for the streams and cancels the connection after that
(`CancelledInTurn`), from then on no stream is left and none can be opened
(`CancelledIsQuiet`), the reconnection loop ends only by that cancellation
(`LoopEndsCancelled`), and nobody else writes the state after it (`StateIsClosed`).

The wire connection.
- No id is drawn twice (`IdsDistinct`) and each message, wherever it is on the way to
  the server and back, carries the id of its caller (`MessagesOwn`): a response
  cannot find the sender of another request under its id (`SendersOwn`).
- What was queued before the cancellation is written, or in the queue of a loop that
  has not looked at it for the last time (`EarlyKept`).
- `Target` is where a read loop will route to when it has worked off its commands;
  it is the receiver of the stream that has the alias, of which there is one at a
  time unless `AliasReused` (`RouteInv`).

Calls.
- Until the cancellation a task that tries again has lost the connection of its last
  attempt (`RetriesAfterBreak`), and what the server handled is the present attempt or
  one on an earlier connection (`HandledPast`): no connection sees a call twice.
- The subscription to the broadcast channel precedes the request, so the reply is
  ahead (`ReplyAhead`). This needs that ids are fresh (`IdsDrawn`): what is in the channel
  when the id is drawn is not the reply.
- Every subscription is of an attempt in progress or has its removal in the queue of
  commands, behind it (`SubscribedOrRemoved`, `RemovedLast`).

The lanes.
- `WindowKept` compares two sequences element by element, in each of the three cases
  of `push_msg`. With it `DictionaryIsWindow` follows for both ends, as context takeover
  is built for a WebSocket only and the peer is told of it (`Takeover`); a command makes the
  read loop push an empty message, which changes nothing (`PushedNothing`).
- A message read from a stream is counted once, with a task, in the channel or
  delivered (`NoneBehind`); the reader reports the end when none of these is left.
- The frames of the queue and of the socket are counted too, and a close frame has
  no message behind it in either (`CloseInv`), even if the connection and with it
  the queue is gone.

What a lane delivers. Each message is recognised by its number, and `Wires[n]` is what
the transport was given for message n. `extract` undoes `compress` when the dictionary
is the same (`Extracts`). `DeliveryInv` says where the wires are.
- `HistoryInv`: a message that was written tells its number, and each was compressed
  with the dictionary that its predecessors left. Without context takeover, which only
  a WebSocket has, every dictionary is empty.
- `SocketInv`: the k-th message delivered is the k-th written, so the extractor's
  dictionary is the one that the next message was compressed with (`DictionaryAt`). The
  messages in the socket, and while the task runs those in the queue
  behind them, are the numbers that follow the last delivered one (`Carries`). When the
  task is gone the queue is too, and what was in it is the end of the sequence.
- `StreamInv`: every message of a stream is in one place: in the bytes of the
  stream, which are lengths and messages in order (`Framed`), with the task, in the channel
  or delivered; what it follows on its stream is further on (`Waiting`, `Holding`,
  `Pending`). It holds while the reader reads: tasks that are cancelled drop messages
  that nobody will ask for.
- `DatagramInv`: what is on its way and what the buffer holds are segments of messages
  that were not delivered, no segment is in both, an entry of the buffer lacks at least one
  segment, and a message that lost none has all its segments in one or the other
  (`Assembled`). The code counts frames and does not look at their indices. This is enough
  because the network does not duplicate: as many different segments as the message
  has are all of them.
- `JoinIs`: all segments of a message, in whatever order they came, are joined to the
  message. Sorted, the n-th is the one with index n - 1 (`SortedIs`), since indices
  do not repeat, and segments cut at consecutive places and concatenated give the
  message (`Flattened`). The lemmas on `FlattenSeq` and on sorting look at the least
  place where the claim would fail, which replaces an induction over the sequence.

## 6. What is only model-checked

- The liveness properties: the prover has no rule for fairness.
- `NoneBlockedAfterClose` of `E2ECall`, which says that a step is ENABLED.
- That the properties of section 7 are violated.

## 7. Where the code does less than it says

One run expects a violation; `PROJECT.json` quotes the line.

- `ConnLifecycleOpenClose`: an open that is under way when `close()` takes the list
  of tokens adds its own to the new list. Its stream holds the wait group and
  nobody cancels it, so `close()` waits for ever (`iscp/mod.rs:276`).

The models reach the following too. Each is a property of its module; a
configuration with the given constants (the others as in the module's first run)
makes TLC show the steps.

1. `Upstream!FlushOkMeansFlushed` (`FlushPolicy = "Immediately"`, one connection):
   the result of an earlier flush goes to a `flush()` that registered its sender
   since, while newer points are in the buffer (`upstream.rs:353`).
2. `Upstream!CloseOkMeansClosed` (same): `close()` is answered by the flush that
   precedes the last ack and the close request, whose failure nobody hears of.
3. `Upstream!FlushReturns` (same, `FairSpec`, one write): a `flush()` that
   registers while the loop leaves waits for ever; the caller itself keeps the
   sender alive (`upstream.rs:219`).
4. `Upstream!SequenceNumberNonZero` (`MaxSeq = 1`): only the flush in the main
   loop looks at `u32::MAX`; the flushes during a resume and at the end issue
   number 0 after it (`upstream.rs:540`).
5. `Upstream!EndedIsNotConnected` (one connection): `is_connected()` stays true after
   some ways out of the loop (`upstream.rs:410`).
6. `Upstream!AckedCloseIsComplete` with `AliasPerResume = TRUE`: chunks are sent again
   under the alias they were built with, not the one of the resume
   (`upstream.rs:543`, `577`).
7. `DownReorderer!LimitCountsWaiting` (`Modes = {"Strict"}`, `Limit = 1`, one
   stream): late duplicates stay in the strict store and use up its limit
   (`down_order.rs:43`).
8. `ConnLifecycle!OpenNeverPanics`: `close()` between `check_close` and
   `stream_wait_group` makes the `unwrap` of an open panic (`iscp/mod.rs:422`).
9. `ConnLifecycle!CloseNeverPanics`: a second `close()` after the
   future of the first was dropped unwraps the waiter that is gone (`428`).
10. `ConnLifecycle!ClosedStays` and `E2ECall!NoneBlockedWhenClosedAgain`: such a
    second `close()` sets the state back to Closing after Closed (`323`), and a call in
    `wait_for_state(Connected)` (`340`), one that comes later included, then waits on
    the closed connection for ever.
11. `Downstream!CancelledTaskEnds` under `TaskFairSpec`: the task of a cancelled
    downstream stays in the send to a channel nobody reads (`downstream.rs:336`).
12. `Downstream!AckCompleteAwaited` (best effort): the id of the first ack, 0, is also
    the value before any completion, so its completion is not waited for (`423`).
13. `Downstream!ReorderingReported` (`Limit = 0`): a reader woken by the token sees
    `StreamClosed` before the cause is stored (`144`).
14. `WireConn!ClosedLast` with both lanes: the unreliable write loop is not in the
    wait group the closer waits for (`wire/mod.rs:193`, `497`).
15. `E2ECall!AckReachesCaller`: the read loop's `select!` may take the ack before the
    command that subscribes to it; the ack is dropped, and the call waits for as
    long as the connection lives (`wire/read_loop.rs:38`, `iscp/e2e.rs:126`).
16. `E2ECall!HandledOnce`: a connection that breaks between the call and its ack makes
    the server handle the call twice, under two ids (`iscp/e2e.rs:9`).
17. `E2ECall!AlwaysOncePerConnection`: close() sets Closing, a reconnection that ends
    just then sets Connected, and `CancelledByClose` is retried: the call goes out
    again on the connection that is about to be closed (`error.rs:82`).
18. A call that arrives while no receive is under way is not seen by the next one,
    since each starts at the tail of the channel (`iscp/e2e.rs:219`);
    `ReceivedInOrder` of `E2ECall` is what remains.
19. `ConnLifecycle!NothingAbandoned`: a `connect()` that fails after the transport is
    up, or is cancelled, leaves a wire connection that nobody closes
    (`iscp/mod.rs:154`).
20. `Downstream!AckedIsDelivered`: a chunk that was acknowledged need not reach the
    application, though the server will not send it again. `MissingIsAccounted`
    shows in which ways, and TLC finds each. The loop over the remaining messages drops
    it when the application's channel is full (`iscp/downstream.rs:378`). A strict
    reorderer starts with whatever chunk arrives first, and keeps one
    with a lower number that arrives later in its store for ever (`down_order.rs:38`,
    `66`). And what the store holds when the stream ends, behind a gap in strict mode or
    below the limit in the other, is not delivered.
21. `Lane!WrittenIsDelivered`: `QuicCloser` and `WebTransportCloser` close the
    connection right after the last write returned, which only means that the
    stream has buffered it; what is not sent by then is discarded, the Disconnect
    message among it (`transport/quic.rs:306`). On a WebSocket the close frame goes
    through the same queue and comes last (`EndIsLast`).
22. `Downstream!RecordedReachesServer`: an ack whose message cannot be sent takes its
    results along. If the connection lives on, as after a timeout in front of a full
    write queue, the loop comes back to it without a resume, and neither does the
    server send the chunks again nor are they acknowledged (`iscp/downstream.rs:322`).
23. `NewestTokenPresented` of `Upstream` and of `Downstream` (this one with
    `MaxConns = 3`): the token of a resume response is stored in the shared cell, while
    the resume loop's own `resume_token`, which the response's binding shadows, keeps the
    token just consumed. A connection that breaks before the stream is added to it has the
    loop present the old token again, with the new one in the cell
    (`iscp/upstream.rs:697-704`, `iscp/downstream.rs:249-257`). The server of the models
    knows one token back; one that does not refuses the resume (`ResumeRefused`).
24. `WireConn!RoutedToCurrent` with `AliasReused = TRUE` and `MaxAdds = 2`: the guards name
    the alias and not the receiver. If the server gives the alias of an upstream, whose
    close request it has answered, to the next upstream, the guard of the first may be
    dropped after the second has registered (`iscp/upstream.rs:309`, `410`), and its
    command removes the second one's receiver (`wire/read_loop.rs:166`).

Not reached by a model, but met while reading for one: a `max_datagram_size` of at
most 8 set by the application passes `connect()`, which looks at the connection's
value only, and fails the assertion of `Splitter::new` (`transport/quic.rs:154`,
`datagram.rs:18`); window bits outside 9 to 15 fail the one of `DictionaryBuffer::new`
(`compression.rs:270`); a message too large for datagrams ends the write loop
and with it the connection (`quic.rs:347`, action `WriteError` of `Lane`); `select!`
may drop a `read()` of a WebSocket that waits to queue a Pong, which is then not sent
(`websocket.rs:151`).

## 8. Not modelled

- The first connect, before there is a `Conn`, and the setters of the builders.
- Generated messages, encoding (prost), builders and conversions: no state.
- Of the transports: address lookup, TLS, the handshake, the bytes in which the
  negotiation parameters travel, and what `quinn`, `wtransport` and
  `reqwest-websocket` do, other than to deliver, lose or end.
- Metadata requests (`iscp/metadata.rs`): a conversion and one request of
  `WireConn`; they keep no state.
- The deflate algorithm (`flate2`).
- The request id's wrap after 2^31 requests, and time other than as the choice
  between a timeout and an event.

## 9. Plan

Order of the work: the streams and their connection first, as the promise of the
library; then the smaller protocols; then more proofs.

1. Done: `Upstream`, `DownReorderer`, `Downstream`, `ConnLifecycle`, `WireConn`,
   `E2ECall`; `Datagram` and `Compression` in `Lane`, with the transports' tasks;
   `TokenSource` in `ConnLifecycle`.
2. Done: proofs of the type invariants, of all safety invariants that the runs check
   but `NoneBlockedAfterClose` (section 6), and of the refinement of `InOrderLog`.
3. Left: a proof of `NoneBlockedAfterClose` would need the condition under which each
   step is enabled written out; liveness is out of reach of the prover. An abstract
   specification of a downstream, like `InOrderLog` for an upstream.
