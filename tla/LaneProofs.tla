----------------------------- MODULE LaneProofs -----------------------------
(***************************************************************************)
(* What a lane guarantees for every number of streams, messages, lengths,   *)
(* window and capacities: the dictionaries are the windows they should be,  *)
(* and the end is reported after everything else.                           *)
(***************************************************************************)
EXTENDS Lane, FiniteSetTheorems, TLAPS

-----------------------------------------------------------------------------
(* The inductive invariants *)

\* q is a sequence, whatever it holds.
IsSeq(q) == q \in Seq(Range(q))

SeqTypes ==
    /\ IsSeq(sent) /\ IsSeq(delivered) /\ IsSeq(rx_recv_bytes)
    /\ IsSeq(tx_write_message) /\ IsSeq(socket)
    /\ task \in [Streams -> {"none", "read", "send", "ended"}] /\ taken \in Nat

\* The other lanes are not used.
OneLane ==
    /\ kind \in {"stream", "websocket", "datagram"}
    /\ kind # "stream" => /\ accept_loop = "ended" /\ rx_recv_bytes = <<>>
                          /\ \A s \in Streams : task[s] = "none"
    /\ kind # "websocket" => /\ tx_write_message = <<>> /\ socket = <<>>
                             /\ write_task = "ended"
    /\ kind # "datagram" => datagrams = {}

LaneInv == SeqTypes /\ OneLane

\* The tasks that have a message to put into the channel.
Sending == {s \in Streams : task[s] = "send"}

\* A message that was read from a stream is with a task, in the channel or
\* delivered; at the end there is no task that could read another.
NoneBehind ==
    kind = "stream" =>
        /\ reader = "read" => /\ IsFiniteSet(Sending)
                              /\ taken = Len(delivered) + Len(rx_recv_bytes) + Cardinality(Sending)
        /\ reader = "ended" => /\ accept_loop = "ended" /\ Len(delivered) = taken
                               /\ \A s \in Streams : task[s] \in {"none", "ended"}

\* The frames of q that carry messages; q has a close frame; it comes after them.
Binaries(q) == {i \in 1 .. Len(q) : q[i].type = "binary"}
HasClose(q) == \E i \in 1 .. Len(q) : q[i].type = "close"
CloseLast(q) ==
    \A i, j \in 1 .. Len(q) : i < j /\ q[i].type = "close" => q[j].type # "binary"

\* Nothing follows a close frame, and what was written before it is in front of
\* it, even if the task that writes the socket has ended since.
CloseInv ==
    /\ CloseLast(tx_write_message) /\ CloseLast(socket)
    /\ HasClose(tx_write_message) \/ HasClose(socket) \/ reader = "close_frame"
         => writer = "closed"
    /\ HasClose(socket) => Binaries(tx_write_message) = {}
    /\ reader = "read" /\ write_task = "run"
         => Len(sent) = Len(delivered) + Cardinality(Binaries(socket))
                                       + Cardinality(Binaries(tx_write_message))
    /\ reader = "read" /\ HasClose(socket)
         => Len(sent) = Len(delivered) + Cardinality(Binaries(socket))
    /\ reader = "close_frame" => Len(sent) = Len(delivered)

\* Every frame of q that carries a message was made of one.
MadeOfMessages(q) ==
    \A i \in 1 .. Len(q) : q[i].type = "binary" => IsSeq(Head(q[i].data).of)

\* With context takeover, which build() accepts for a WebSocket only, what passes
\* through the dictionaries are sequences of bytes.
TakeoverFrames ==
    /\ compression \in Compressions /\ Buildable(kind, compression)
    /\ Converter(compression) = "context-takeover" =>
           /\ IsSeq(compressed) /\ IsSeq(extracted)
           /\ MadeOfMessages(socket) /\ MadeOfMessages(tx_write_message)

-----------------------------------------------------------------------------
(* Sequences *)

\* A sequence over some set is one over what it holds.
LEMMA SeqIs == ASSUME NEW S, NEW q \in Seq(S) PROVE IsSeq(q)
<1>1. q = [i \in 1 .. Len(q) |-> q[i]] /\ Len(q) \in Nat /\ DOMAIN q = 1 .. Len(q)
  OBVIOUS
<1>2. \A i \in 1 .. Len(q) : q[i] \in Range(q)
  BY <1>1 DEF Range
<1>3. QED
  BY <1>1, <1>2 DEF IsSeq

\* What the operators on sequences do to length and elements.
LEMMA SeqOps ==
    ASSUME NEW q, IsSeq(q)
    PROVE  /\ Len(q) \in Nat
           /\ \A x : /\ IsSeq(Append(q, x)) /\ Len(Append(q, x)) = Len(q) + 1
                     /\ Append(q, x)[Len(q) + 1] = x
                     /\ \A i \in 1 .. Len(q) : Append(q, x)[i] = q[i]
           /\ q # <<>> => /\ IsSeq(Tail(q)) /\ Len(Tail(q)) = Len(q) - 1 /\ Len(q) >= 1
                          /\ Head(q) = q[1]
                          /\ \A i \in 1 .. Len(q) - 1 : Tail(q)[i] = q[i + 1]
<1> DEFINE R == Range(q)
<1>0. q \in Seq(R)
  BY DEF IsSeq
<1>1. Len(q) \in Nat
  BY <1>0
<1>2. ASSUME NEW x
      PROVE  /\ IsSeq(Append(q, x)) /\ Len(Append(q, x)) = Len(q) + 1
             /\ Append(q, x)[Len(q) + 1] = x
             /\ \A i \in 1 .. Len(q) : Append(q, x)[i] = q[i]
  <2> DEFINE S == R \cup {x}
  <2>1. q \in Seq(S) /\ x \in S
    BY <1>0
  <2> HIDE DEF S, R
  <2>2. /\ Append(q, x) \in Seq(S) /\ Len(Append(q, x)) = Len(q) + 1
        /\ Append(q, x)[Len(q) + 1] = x
        /\ \A i \in 1 .. Len(q) : Append(q, x)[i] = q[i]
    BY <2>1
  <2>3. QED
    BY <2>2, SeqIs
<1>3. ASSUME q # <<>>
      PROVE  /\ IsSeq(Tail(q)) /\ Len(Tail(q)) = Len(q) - 1 /\ Len(q) >= 1 /\ Head(q) = q[1]
             /\ \A i \in 1 .. Len(q) - 1 : Tail(q)[i] = q[i + 1]
  <2> HIDE DEF R
  <2>1. /\ Tail(q) \in Seq(R) /\ Len(Tail(q)) = Len(q) - 1 /\ Len(q) >= 1 /\ Head(q) = q[1]
        /\ \A i \in 1 .. Len(q) - 1 : Tail(q)[i] = q[i + 1]
    BY <1>0, <1>3
  <2>2. QED
    BY <2>1, SeqIs
<1>4. QED
  BY <1>1, <1>2, <1>3

\* The empty sequence is one.
LEMMA EmptyIs == IsSeq(<<>>) /\ Len(<<>>) = 0
<1>1. <<>> \in Seq({})
  OBVIOUS
<1>2. QED
  BY <1>1, SeqIs

\* A queue after a step: as before, emptied, or with one element more or less.
After(q, p) == \/ p = q \/ p = <<>> \/ \E x : p = Append(q, x)
               \/ q # <<>> /\ p = Tail(q)

\* It is still a sequence.
LEMMA SeqKept == \A q, p : IsSeq(q) /\ After(q, p) => IsSeq(p)
<1> SUFFICES ASSUME NEW q, NEW p, IsSeq(q), After(q, p) PROVE IsSeq(p)
  OBVIOUS
<1>1. CASE \E x : p = Append(q, x)
  <2>1. PICK x : p = Append(q, x)
    BY <1>1
  <2>2. IsSeq(Append(q, x))
    BY SeqOps
  <2>3. QED
    BY <2>1, <2>2
<1>2. CASE q # <<>> /\ p = Tail(q)
  <2>1. IsSeq(Tail(q))
    BY <1>2, SeqOps
  <2>2. QED
    BY <1>2, <2>1
<1>3. QED
  BY <1>1, <1>2, EmptyIs DEF After

-----------------------------------------------------------------------------
(* The window of a dictionary *)

\* Two sequences one after the other.
LEMMA Joins ==
    ASSUME NEW S, NEW a \in Seq(S), NEW b \in Seq(S)
    PROVE  /\ a \o b \in Seq(S) /\ Len(a \o b) = Len(a) + Len(b)
           /\ \A i \in 1 .. Len(a \o b) :
                  (a \o b)[i] = IF i <= Len(a) THEN a[i] ELSE b[i - Len(a)]
  OBVIOUS

\* Sequences with the same elements are the same.
LEMMA SameElements ==
    ASSUME NEW S, NEW a \in Seq(S), NEW b \in Seq(S), Len(a) = Len(b),
           \A i \in 1 .. Len(a) : a[i] = b[i]
    PROVE  a = b
  OBVIOUS

\* A part of a sequence.
LEMMA PartOf ==
    ASSUME NEW S, NEW q \in Seq(S), NEW n \in Nat, n <= Len(q)
    PROVE  LET part == SubSeq(q, Len(q) - n + 1, Len(q))
           IN  /\ part \in Seq(S) /\ Len(part) = n
               /\ \A i \in 1 .. n : part[i] = q[Len(q) - n + i]
<1>1. Len(q) \in Nat
  OBVIOUS
<1>2. QED
  BY <1>1

\* The last n elements of a sequence.
LEMMA WindowIs ==
    ASSUME NEW S, NEW q \in Seq(S), NEW n \in Nat
    PROVE  /\ LastOf(q, n) \in Seq(S)
           /\ Len(LastOf(q, n)) = IF Len(q) <= n THEN Len(q) ELSE n
           /\ \A i \in 1 .. Len(LastOf(q, n)) :
                  LastOf(q, n)[i] = q[Len(q) - Len(LastOf(q, n)) + i]
<1>0. Len(q) \in Nat
  OBVIOUS
<1>1. CASE Len(q) <= n
  BY <1>0, <1>1 DEF LastOf
<1>2. CASE Len(q) > n
  <2> DEFINE part == SubSeq(q, Len(q) - n + 1, Len(q))
  <2>1. LastOf(q, n) = part
    BY <1>0, <1>2 DEF LastOf
  <2>2. part \in Seq(S) /\ Len(part) = n /\ \A i \in 1 .. n : part[i] = q[Len(q) - n + i]
    BY <1>0, <1>2, PartOf
  <2> HIDE DEF part
  <2>3. QED
    BY <1>0, <1>2, <2>1, <2>2
<1>3. QED
  BY <1>0, <1>1, <1>2

\* push_msg keeps the window: whichever way it makes room, the dictionary is the
\* last bytes of all that was pushed so far.
THEOREM WindowKept ==
    ASSUME NEW S, NEW all \in Seq(S), NEW msg \in Seq(S)
    PROVE  PushMsg(LastOf(all, DictionarySize), msg) = LastOf(all \o msg, DictionarySize)
<1> DEFINE D == DictionarySize
<1> DEFINE buf == LastOf(all, D)
<1> DEFINE whole == all \o msg
<1> DEFINE both == buf \o msg
<1> DEFINE last == LastOf(whole, D)
<1> DEFINE pushed == PushMsg(buf, msg)
<1>0. D \in Nat /\ D > 0
  BY DictionaryAssumption
<1>1. /\ Len(all) \in Nat /\ Len(msg) \in Nat /\ whole \in Seq(S)
      /\ Len(whole) = Len(all) + Len(msg)
      /\ \A i \in 1 .. Len(whole) :
            whole[i] = IF i <= Len(all) THEN all[i] ELSE msg[i - Len(all)]
  OBVIOUS
<1> HIDE DEF whole
<1>2. /\ buf \in Seq(S) /\ Len(buf) = IF Len(all) <= D THEN Len(all) ELSE D
      /\ \A i \in 1 .. Len(buf) : buf[i] = all[Len(all) - Len(buf) + i]
  BY <1>0, WindowIs
<1>3. /\ last \in Seq(S) /\ Len(last) = IF Len(whole) <= D THEN Len(whole) ELSE D
      /\ \A i \in 1 .. Len(last) : last[i] = whole[Len(whole) - Len(last) + i]
  <2>1. whole \in Seq(S) /\ D \in Nat
    BY <1>0, <1>1
  <2> HIDE DEF D
  <2>2. QED
    BY <2>1, WindowIs, Zenon
<1> HIDE DEF D, buf, last
<1>4. Len(buf) \in Nat /\ Len(buf) <= D /\ Len(buf) <= Len(all)
  BY <1>0, <1>1, <1>2
<1>5. /\ both \in Seq(S) /\ Len(both) = Len(buf) + Len(msg)
      /\ \A i \in 1 .. Len(both) :
            both[i] = IF i <= Len(buf) THEN buf[i] ELSE msg[i - Len(buf)]
  BY <1>2, Joins
<1> HIDE DEF both
\* both is the end of whole
<1>6. \A i \in 1 .. Len(both) : both[i] = whole[Len(whole) - Len(both) + i]
  <2> SUFFICES ASSUME NEW i \in 1 .. Len(both)
               PROVE  both[i] = whole[Len(whole) - Len(both) + i]
    OBVIOUS
  <2> DEFINE j == Len(whole) - Len(both) + i
  <2>1. j = Len(all) - Len(buf) + i /\ j \in 1 .. Len(whole)
    BY <1>1, <1>4, <1>5
  <2>2. CASE i <= Len(buf)
    <3>1. both[i] = buf[i] /\ buf[i] = all[j]
      <4>1. both[i] = buf[i]
        BY <1>5, <2>2
      <4>2. i \in 1 .. Len(buf)
        BY <1>4, <2>2
      <4>3. buf[i] = all[Len(all) - Len(buf) + i]
        BY <1>2, <4>2
      <4> HIDE DEF j
      <4>4. QED
        BY <2>1, <4>1, <4>3
    <3>2. j <= Len(all)
      BY <1>1, <1>4, <2>1, <2>2
    <3> HIDE DEF j
    <3>3. whole[j] = all[j]
      BY <1>1, <2>1, <3>2
    <3>4. QED
      BY <3>1, <3>3 DEF j
  <2>3. CASE i > Len(buf)
    <3>1. both[i] = msg[i - Len(buf)]
      BY <1>4, <1>5, <2>3
    <3>2. ~(j <= Len(all)) /\ j - Len(all) = i - Len(buf)
      BY <1>1, <1>4, <2>1, <2>3
    <3> HIDE DEF j
    <3>3. whole[j] = msg[j - Len(all)]
      BY <1>1, <2>1, <3>2
    <3>4. QED
      BY <3>1, <3>2, <3>3 DEF j
  <2>4. QED
    BY <1>4, <2>2, <2>3
<1>7. /\ pushed \in Seq(S) /\ Len(pushed) = Len(last)
      /\ \A i \in 1 .. Len(pushed) : pushed[i] = whole[Len(whole) - Len(pushed) + i]
  <2>1. CASE Len(msg) >= D
    <3> DEFINE part == SubSeq(msg, Len(msg) - D + 1, Len(msg))
    <3>1. pushed = part
      <4>1. ~(Len(msg) < D) /\ Len(msg) >= D
        BY <1>0, <1>1, <2>1
      <4>2. QED
        BY <4>1, Zenon DEF PushMsg, D
    <3>2. part \in Seq(S) /\ Len(part) = D /\ \A i \in 1 .. D : part[i] = msg[Len(msg) - D + i]
      BY <1>0, <2>1, PartOf
    <3> HIDE DEF part, pushed
    <3>3. Len(last) = D /\ Len(whole) >= D
      BY <1>0, <1>1, <1>3, <2>1
    <3>4. ASSUME NEW i \in 1 .. D PROVE part[i] = whole[Len(whole) - D + i]
      <4> DEFINE j == Len(whole) - D + i
      <4>1. j \in 1 .. Len(whole) /\ ~(j <= Len(all)) /\ j - Len(all) = Len(msg) - D + i
        BY <1>0, <1>1, <2>1, <3>4
      <4> HIDE DEF j
      <4>2. whole[j] = msg[Len(msg) - D + i]
        BY <1>1, <4>1
      <4>3. QED
        BY <3>2, <3>4, <4>2 DEF j
    <3>5. QED
      BY <3>1, <3>2, <3>3, <3>4
  <2>2. CASE Len(msg) < D /\ D - Len(buf) >= Len(msg)
    <3>1. pushed = both
      BY <1>0, <1>1, <1>4, <2>2 DEF PushMsg, D, both
    <3> HIDE DEF pushed
    <3>2. Len(both) = Len(last)
      BY <1>0, <1>1, <1>2, <1>3, <1>4, <1>5, <2>2
    <3>3. QED
      BY <1>5, <1>6, <3>1, <3>2
  <2>3. CASE Len(msg) < D /\ D - Len(buf) < Len(msg)
    <3> DEFINE part == SubSeq(both, Len(both) - D + 1, Len(both))
    <3>1. pushed = part
      <4>1. ~(Len(msg) >= D) /\ ~(D - Len(buf) >= Len(msg))
        BY <1>0, <1>1, <1>4, <2>3
      <4>2. QED
        BY <4>1 DEF PushMsg, D, both
    <3>2. Len(both) \in Nat /\ D <= Len(both)
      BY <1>0, <1>1, <1>4, <1>5, <2>3
    <3>3. part \in Seq(S) /\ Len(part) = D /\ \A i \in 1 .. D : part[i] = both[Len(both) - D + i]
      BY <1>0, <1>5, <3>2, PartOf
    <3> HIDE DEF part, pushed
    <3>4. Len(last) = D /\ Len(whole) >= D
      BY <1>0, <1>1, <1>3, <1>4, <2>3
    <3>5. ASSUME NEW i \in 1 .. D PROVE part[i] = whole[Len(whole) - D + i]
      <4> DEFINE j == Len(both) - D + i
      <4>1. j \in 1 .. Len(both) /\ Len(whole) - Len(both) + j = Len(whole) - D + i
        BY <1>0, <1>1, <3>2, <3>4, <3>5
      <4>2. part[i] = both[j]
        BY <3>3, <3>5
      <4> HIDE DEF j
      <4>3. both[j] = whole[Len(whole) - Len(both) + j]
        BY <1>6, <4>1
      <4>4. QED
        BY <4>1, <4>2, <4>3
    <3>6. QED
      BY <3>1, <3>3, <3>4, <3>5
  <2>4. QED
    BY <1>0, <1>1, <1>4, <2>1, <2>2, <2>3
<1> HIDE DEF pushed
<1>8. pushed = last
  BY <1>3, <1>7, SameElements
<1>9. QED
  BY <1>8 DEF pushed, last, buf, whole, D

-----------------------------------------------------------------------------
(* The lanes *)

\* The steps that move no message.
Idle == \/ \E len \in DatagramLengths : WriteError(len)
        \/ CloserClose \/ ConnLost
        \/ \E f \in datagrams : DatagramLost(f)
        \/ \E s \in DOMAIN frame_buf : FramesExpire(s)
        \/ ReadCommand \/ ReadCancelled \/ UNCHANGED vars

\* Every step is one of these.
LEMMA Steps ==
    ASSUME [Next]_vars
    PROVE  \/ Idle
           \/ \E s \in Streams, len \in StreamLengths : StreamWrite(s, len)
           \/ \E len \in SocketLengths : WebSocketWrite(len)
           \/ \E len \in DatagramLengths : DatagramWrite(len)
           \/ WriterClose \/ AnswerPing \/ WriteTaskSends \/ WriteTaskEnds
           \/ AcceptEnds
           \/ \E s \in Streams : Accept(s) \/ TaskRead(s) \/ TaskSend(s) \/ TaskEnds(s)
           \/ StreamRead \/ WebSocketRead \/ ReadError
           \/ \E f \in datagrams, check \in BOOLEAN : DatagramRead(f, check)
  BY Zenon DEF Next, Write, WebSocket, StreamTasks, Network, Read, ReadMessage, Finished, Idle

\* An idle step leaves the messages where they are.
LEMMA IdleIs ==
    ASSUME Idle
    PROVE  /\ UNCHANGED <<kind, compression, sent, compressed, dictionary, accept_loop, task,
                          rx_recv_bytes, taken, tx_write_message, write_task, socket, delivered,
                          extracted>>
           /\ datagrams' \subseteq datagrams
           /\ writer' = writer \/ writer' = "closed"
           /\ reader' = reader \/ reader' = "cancelled"
<1>1. CASE \E len \in DatagramLengths : WriteError(len)
  BY <1>1 DEF WriteError, streamVars, wsVars, dgVars, readVars
<1>2. CASE CloserClose \/ ConnLost
  BY <1>2 DEF CloserClose, ConnLost, sendVars, streamVars, wsVars, dgVars, readVars
<1>3. CASE \/ \E f \in datagrams : DatagramLost(f)
           \/ \E s \in DOMAIN frame_buf : FramesExpire(s)
  BY <1>3 DEF DatagramLost, FramesExpire, sendVars, streamVars, wsVars, dgVars, readVars
<1>4. CASE ReadCommand \/ ReadCancelled
  BY <1>4 DEF ReadCommand, ReadCancelled, sendVars, streamVars, wsVars, dgVars
<1>5. CASE UNCHANGED vars
  BY <1>5 DEF vars, sendVars, streamVars, wsVars, dgVars, readVars
<1>6. QED
  BY <1>1, <1>2, <1>3, <1>4, <1>5 DEF Idle

\* At most one message reaches the decoder, from a lane that has one.
LEMMA DeliverIs ==
    ASSUME NEW wire, ReadLoopTakes(wire)
    PROVE  delivered' = Append(delivered, Extract(RecvConverter, ext_dictionary, wire))
           /\ reader' = reader
  BY DEF ReadLoopTakes

\* The lanes keep their types and to themselves.
LEMMA LaneStep == ASSUME LaneInv, [Next]_vars PROVE LaneInv'
<1>0. SeqTypes /\ OneLane
  BY DEF LaneInv
<1>s. /\ IsSeq(sent) /\ IsSeq(delivered) /\ IsSeq(rx_recv_bytes)
      /\ IsSeq(tx_write_message) /\ IsSeq(socket)
  BY <1>0, Zenon DEF SeqTypes
<1>1. CASE Idle
  <2>1. /\ UNCHANGED <<kind, sent, accept_loop, task, rx_recv_bytes, taken,
                       tx_write_message, write_task, socket, delivered>>
        /\ datagrams' \subseteq datagrams
    BY <1>1, IdleIs
  <2>2. SeqTypes'
    BY <1>0, <2>1 DEF SeqTypes
  <2>3. OneLane'
    BY <1>0, <2>1 DEF OneLane
  <2>4. QED
    BY <2>2, <2>3 DEF LaneInv
<1>2. CASE \/ \E s \in Streams, len \in StreamLengths : StreamWrite(s, len)
           \/ \E len \in DatagramLengths : DatagramWrite(len)
  <2>1. /\ \E m : sent' = Append(sent, m)
        /\ UNCHANGED <<kind, accept_loop, task, rx_recv_bytes, taken,
                       tx_write_message, write_task, socket, delivered>>
        /\ datagrams' = datagrams \/ kind = "datagram"
    BY <1>2 DEF StreamWrite, DatagramWrite, WriteLoopSends, streamVars, wsVars, dgVars, readVars
  <2>2. IsSeq(sent')
    <3>1. After(sent, sent')
      BY <2>1, Zenon DEF After
    <3>2. QED
      BY <1>s, <3>1, SeqKept, Zenon
  <2>3. SeqTypes'
    BY <1>0, <2>1, <2>2 DEF SeqTypes
  <2>4. OneLane'
    BY <1>0, <2>1 DEF OneLane
  <2>5. QED
    BY <2>3, <2>4 DEF LaneInv
<1>3. CASE \E len \in SocketLengths : WebSocketWrite(len)
  <2>1. /\ \E m : sent' = Append(sent, m)
        /\ \E f : tx_write_message' = Append(tx_write_message, f)
        /\ kind = "websocket"
        /\ UNCHANGED <<kind, accept_loop, task, rx_recv_bytes, taken,
                       write_task, socket, delivered, datagrams>>
    BY <1>3 DEF WebSocketWrite, WriteLoopSends, streamVars, dgVars, readVars
  <2>2. IsSeq(sent') /\ IsSeq(tx_write_message')
    <3>1. After(sent, sent') /\ After(tx_write_message, tx_write_message')
      BY <2>1, Zenon DEF After
    <3>2. QED
      BY <1>s, <3>1, SeqKept, Zenon
  <2>3. SeqTypes'
    BY <1>0, <2>1, <2>2 DEF SeqTypes
  <2>4. OneLane'
    BY <1>0, <2>1 DEF OneLane
  <2>5. QED
    BY <2>3, <2>4 DEF LaneInv
<1>4. CASE WriterClose \/ AnswerPing \/ WriteTaskSends \/ WriteTaskEnds
  <2>1. /\ UNCHANGED <<kind, sent, accept_loop, task, rx_recv_bytes, taken, delivered, datagrams>>
        /\ write_task' = write_task \/ write_task' = "ended"
    BY <1>4 DEF WriterClose, AnswerPing, WriteTaskSends, WriteTaskEnds, sendVars, streamVars,
       dgVars, readVars
  <2>2. IsSeq(tx_write_message')
    <3>1. \/ tx_write_message' = tx_write_message \/ tx_write_message' = <<>>
          \/ \E f : tx_write_message' = Append(tx_write_message, f)
          \/ tx_write_message # <<>> /\ tx_write_message' = Tail(tx_write_message)
      BY <1>4 DEF WriterClose, AnswerPing, WriteTaskSends, WriteTaskEnds
    <3>2. QED
      BY <1>s, <3>1, SeqKept, Zenon DEF After
  <2>3. IsSeq(socket')
    <3>1. socket' = socket \/ \E f : socket' = Append(socket, f)
      BY <1>4 DEF WriterClose, AnswerPing, WriteTaskSends, WriteTaskEnds
    <3>2. QED
      BY <1>s, <3>1, SeqKept, Zenon DEF After
  <2>4. SeqTypes'
    BY <1>0, <2>1, <2>2, <2>3 DEF SeqTypes
  <2>5. kind # "websocket" => tx_write_message' = tx_write_message /\ socket' = socket
    <3>1. CASE WriterClose \/ AnswerPing
      BY <3>1 DEF WriterClose, AnswerPing
    <3>2. CASE WriteTaskSends \/ WriteTaskEnds
      <4>1. write_task = "run"
        BY <3>2 DEF WriteTaskSends, WriteTaskEnds
      <4>2. QED
        BY <1>0, <4>1 DEF OneLane
    <3>3. QED
      BY <1>4, <3>1, <3>2
  <2>6. OneLane'
    BY <1>0, <2>1, <2>5 DEF OneLane
  <2>7. QED
    BY <2>4, <2>6 DEF LaneInv
<1>5. CASE AcceptEnds \/ \E s \in Streams : Accept(s) \/ TaskRead(s) \/ TaskSend(s) \/ TaskEnds(s)
  <2>1. UNCHANGED <<kind, sent, tx_write_message, write_task, socket, delivered, datagrams>>
    BY <1>5 DEF AcceptEnds, Accept, TaskRead, TaskSend, TaskEnds, sendVars, wsVars, dgVars, readVars
  <2>2. task' \in [Streams -> {"none", "read", "send", "ended"}]
    BY <1>0, <1>5 DEF AcceptEnds, Accept, TaskRead, TaskSend, TaskEnds, SeqTypes
  <2>3. taken' \in Nat
    BY <1>0, <1>5 DEF AcceptEnds, Accept, TaskRead, TaskSend, TaskEnds, SeqTypes
  <2>4. IsSeq(rx_recv_bytes')
    <3>1. rx_recv_bytes' = rx_recv_bytes \/ \E m : rx_recv_bytes' = Append(rx_recv_bytes, m)
      BY <1>5 DEF AcceptEnds, Accept, TaskRead, TaskSend, TaskEnds
    <3>2. QED
      BY <1>s, <3>1, SeqKept, Zenon DEF After
  <2>5. SeqTypes'
    BY <1>0, <2>1, <2>2, <2>3, <2>4 DEF SeqTypes
  <2>6. kind = "stream"
    <3>1. accept_loop = "run" \/ \E s \in Streams : task[s] # "none"
      BY <1>5 DEF AcceptEnds, Accept, TaskRead, TaskSend, TaskEnds
    <3>2. QED
      BY <1>0, <3>1 DEF OneLane
  <2>7. OneLane'
    BY <1>0, <2>1, <2>6 DEF OneLane
  <2>8. QED
    BY <2>5, <2>7 DEF LaneInv
<1>6. CASE StreamRead
  <2>1. /\ UNCHANGED <<kind, sent, accept_loop, task, taken, tx_write_message, write_task, socket,
                       datagrams>>
        /\ rx_recv_bytes # <<>> /\ rx_recv_bytes' = Tail(rx_recv_bytes)
    BY <1>6 DEF StreamRead, sendVars, wsVars, dgVars
  <2>2. \E m : delivered' = Append(delivered, m)
    BY <1>6 DEF StreamRead, ReadLoopTakes
  <2>3. IsSeq(rx_recv_bytes') /\ IsSeq(delivered')
    <3>1. After(rx_recv_bytes, rx_recv_bytes') /\ After(delivered, delivered')
      BY <2>1, <2>2, Zenon DEF After
    <3>2. QED
      BY <1>s, <3>1, SeqKept, Zenon
  <2>4. SeqTypes'
    BY <1>0, <2>1, <2>3 DEF SeqTypes
  <2>5. OneLane'
    BY <1>0, <2>1 DEF OneLane
  <2>6. QED
    BY <2>4, <2>5 DEF LaneInv
<1>7. CASE \/ WebSocketRead \/ ReadError
           \/ \E f \in datagrams, check \in BOOLEAN : DatagramRead(f, check)
  <2>1. /\ UNCHANGED <<kind, sent, accept_loop, task, rx_recv_bytes, taken, tx_write_message,
                       write_task>>
        /\ datagrams' \subseteq datagrams
        /\ socket' = socket \/ (socket # <<>> /\ socket' = Tail(socket))
    BY <1>7 DEF WebSocketRead, ReadError, DatagramRead, sendVars, streamVars, wsVars, dgVars
  <2>2. delivered' = delivered \/ \E m : delivered' = Append(delivered, m)
    <3>1. CASE ReadError
      BY <3>1 DEF ReadError
    <3>2. CASE WebSocketRead
      BY <3>2 DEF WebSocketRead, ReadLoopTakes, readVars
    <3>3. CASE \E f \in datagrams, check \in BOOLEAN : DatagramRead(f, check)
      <4>1. PICK f \in datagrams, check \in BOOLEAN : DatagramRead(f, check)
        BY <3>3
      <4>2. UNCHANGED readVars \/ \E wire : ReadLoopTakes(wire)
        BY <4>1, Zenon DEF DatagramRead
      <4>3. QED
        BY <4>2 DEF ReadLoopTakes, readVars
    <3>4. QED
      BY <1>7, <3>1, <3>2, <3>3
  <2>3. IsSeq(socket') /\ IsSeq(delivered')
    <3>1. After(socket, socket') /\ After(delivered, delivered')
      BY <2>1, <2>2, Zenon DEF After
    <3>2. QED
      BY <1>s, <3>1, SeqKept, Zenon
  <2>4. SeqTypes'
    BY <1>0, <2>1, <2>3 DEF SeqTypes
  <2>5. OneLane'
    BY <1>0, <2>1 DEF OneLane
  <2>6. QED
    BY <2>4, <2>5 DEF LaneInv
<1>8. QED
  BY <1>1, <1>2, <1>3, <1>4, <1>5, <1>6, <1>7, Steps, Zenon

\* At the beginning every lane is empty.
LEMMA LaneInit == Init => LaneInv
<1> SUFFICES ASSUME Init PROVE LaneInv
  OBVIOUS
<1>1. SeqTypes
  <2>1. /\ sent = <<>> /\ delivered = <<>> /\ rx_recv_bytes = <<>> /\ tx_write_message = <<>>
        /\ socket = <<>> /\ task = [s \in Streams |-> "none"] /\ taken = 0
    BY DEF Init
  <2>2. QED
    BY <2>1, EmptyIs DEF SeqTypes
<1>2. OneLane
  BY DEF Init, OneLane
<1>3. QED
  BY <1>1, <1>2 DEF LaneInv

-----------------------------------------------------------------------------
(* The end of the streams *)

\* NoneBehind depends on these variables only.
LEMMA NoneBehindSame ==
    ASSUME NoneBehind,
           UNCHANGED <<kind, delivered, rx_recv_bytes, task, taken>>,
           accept_loop' = accept_loop \/ accept_loop' = "ended",
           reader' = reader \/ reader' \notin {"read", "ended"}
    PROVE  NoneBehind'
<1>1. Sending' = Sending
  BY Zenon DEF Sending
<1>2. CASE reader' = reader
  BY <1>1, <1>2 DEF NoneBehind
<1>3. CASE reader' \notin {"read", "ended"}
  BY <1>3 DEF NoneBehind
<1>4. QED
  BY <1>2, <1>3

\* Every message that a task reads is counted until it is delivered.
LEMMA NoneBehindStep == ASSUME LaneInv, NoneBehind, [Next]_vars PROVE NoneBehind'
<1> SUFFICES ASSUME kind' = "stream" PROVE NoneBehind'
  BY DEF NoneBehind
<1>0. SeqTypes /\ OneLane /\ LaneInv'
  BY LaneStep DEF LaneInv
<1>l. Len(delivered) \in Nat /\ Len(rx_recv_bytes) \in Nat /\ taken \in Nat
  BY <1>0, SeqOps DEF SeqTypes
<1>1. CASE Idle
  BY <1>1, IdleIs, NoneBehindSame
<1>2. CASE \/ \E s \in Streams, len \in StreamLengths : StreamWrite(s, len)
           \/ \E len \in SocketLengths : WebSocketWrite(len)
           \/ \E len \in DatagramLengths : DatagramWrite(len)
           \/ WriterClose \/ AnswerPing \/ WriteTaskSends \/ WriteTaskEnds
  <2>1. UNCHANGED <<kind, delivered, rx_recv_bytes, task, taken, accept_loop, reader>>
    <3>1. CASE \/ \E s \in Streams, len \in StreamLengths : StreamWrite(s, len)
               \/ \E len \in SocketLengths : WebSocketWrite(len)
               \/ \E len \in DatagramLengths : DatagramWrite(len)
      BY <3>1 DEF StreamWrite, WebSocketWrite, DatagramWrite, WriteLoopSends, streamVars, readVars
    <3>2. CASE WriterClose \/ AnswerPing \/ WriteTaskSends \/ WriteTaskEnds
      BY <3>2 DEF WriterClose, AnswerPing, WriteTaskSends, WriteTaskEnds, sendVars, streamVars,
         readVars
    <3>3. QED
      BY <1>2, <3>1, <3>2
  <2>2. QED
    BY <2>1, NoneBehindSame
<1>3. CASE AcceptEnds
  <2>1. /\ UNCHANGED <<kind, delivered, rx_recv_bytes, task, taken, reader>>
        /\ accept_loop' = "ended"
    BY <1>3 DEF AcceptEnds, sendVars, readVars
  <2>2. QED
    BY <2>1, NoneBehindSame
<1>4. ASSUME NEW s \in Streams, Accept(s) \/ TaskRead(s) \/ TaskSend(s) \/ TaskEnds(s)
      PROVE  NoneBehind'
  <2>1. /\ UNCHANGED <<kind, delivered, reader, accept_loop>>
        /\ task[s] \in {"none", "read", "send"} /\ (task[s] = "none" => accept_loop = "run")
    BY <1>4 DEF Accept, TaskRead, TaskSend, TaskEnds, sendVars, readVars
  <2>2. reader # "ended"
    <3>1. task[s] = "none" \/ task[s] \notin {"none", "ended"}
      BY <2>1
    <3>2. QED
      BY <2>1, <3>1 DEF NoneBehind
  <2>3. SUFFICES ASSUME reader = "read"
                 PROVE  /\ IsFiniteSet(Sending')
                        /\ taken' = Len(delivered) + Len(rx_recv_bytes') + Cardinality(Sending')
    BY <2>1, <2>2 DEF NoneBehind
  <2>4. /\ IsFiniteSet(Sending) /\ Cardinality(Sending) \in Nat
        /\ taken = Len(delivered) + Len(rx_recv_bytes) + Cardinality(Sending)
    BY <2>1, <2>3, FS_CardinalityType DEF NoneBehind
  <2>5. task \in [Streams -> {"none", "read", "send", "ended"}]
    BY <1>0 DEF SeqTypes
  <2>6. CASE Accept(s)
    <3>1. task[s] = "none" /\ task' = [task EXCEPT ![s] = "read"]
          /\ UNCHANGED <<rx_recv_bytes, taken>>
      BY <2>6 DEF Accept
    <3>2. Sending' = Sending
      BY <2>5, <3>1 DEF Sending
    <3>3. QED
      BY <2>4, <3>1, <3>2
  <2>7. CASE TaskRead(s)
    <3>1. task[s] = "read" /\ task' = [task EXCEPT ![s] = "send"]
          /\ rx_recv_bytes' = rx_recv_bytes /\ taken' = taken + 1
      BY <2>7 DEF TaskRead
    <3>2. Sending' = Sending \cup {s} /\ s \notin Sending
      BY <2>5, <3>1 DEF Sending
    <3>3. IsFiniteSet(Sending') /\ Cardinality(Sending') = Cardinality(Sending) + 1
      BY <2>4, <3>2, FS_AddElement
    <3>4. QED
      BY <1>l, <2>4, <3>1, <3>3
  <2>8. CASE TaskSend(s)
    <3>1. task[s] = "send" /\ task' = [task EXCEPT ![s] = "read"] /\ taken' = taken
          /\ rx_recv_bytes' = Append(rx_recv_bytes, task_buf[s])
      BY <2>8 DEF TaskSend
    <3>2. Sending' = Sending \ {s} /\ s \in Sending
      BY <2>5, <3>1 DEF Sending
    <3>3. IsFiniteSet(Sending') /\ Cardinality(Sending') = Cardinality(Sending) - 1
      BY <2>4, <3>2, FS_RemoveElement
    <3>4. Len(rx_recv_bytes') = Len(rx_recv_bytes) + 1
      BY <1>0, <3>1, SeqOps DEF SeqTypes
    <3>5. QED
      BY <1>l, <2>4, <3>1, <3>3, <3>4
  <2>9. CASE TaskEnds(s)
    <3>1. task[s] = "read" /\ task' = [task EXCEPT ![s] = "ended"]
          /\ UNCHANGED <<rx_recv_bytes, taken>>
      BY <2>3, <2>9 DEF TaskEnds
    <3>2. Sending' = Sending
      BY <2>5, <3>1 DEF Sending
    <3>3. QED
      BY <2>4, <3>1, <3>2
  <2>10. QED
    BY <1>4, <2>6, <2>7, <2>8, <2>9
<1>5. CASE StreamRead
  <2>1. /\ reader = "read" /\ UNCHANGED <<kind, task, taken>>
        /\ rx_recv_bytes # <<>> /\ rx_recv_bytes' = Tail(rx_recv_bytes)
        /\ ReadLoopTakes(Head(rx_recv_bytes))
    BY <1>5 DEF StreamRead, sendVars
  <2>2. reader' = "read" /\ \E m : delivered' = Append(delivered, m)
    BY <2>1, DeliverIs
  <2>3. Len(delivered') = Len(delivered) + 1 /\ Len(rx_recv_bytes') = Len(rx_recv_bytes) - 1
    BY <1>0, <2>1, <2>2, SeqOps DEF SeqTypes
  <2>4. Sending' = Sending
    BY <2>1, Zenon DEF Sending
  <2>5. /\ IsFiniteSet(Sending) /\ Cardinality(Sending) \in Nat
        /\ taken = Len(delivered) + Len(rx_recv_bytes) + Cardinality(Sending)
    BY <2>1, FS_CardinalityType DEF NoneBehind
  <2>6. IsFiniteSet(Sending')
        /\ taken' = Len(delivered') + Len(rx_recv_bytes') + Cardinality(Sending')
    BY <1>l, <2>1, <2>3, <2>4, <2>5
  <2>7. QED
    BY <2>2, <2>6 DEF NoneBehind
<1>6. CASE ReadError
  <2>1. /\ UNCHANGED <<kind, delivered, taken, accept_loop, task>> /\ reader = "read"
        /\ reader' = "ended" /\ rx_recv_bytes = <<>> /\ accept_loop = "ended"
        /\ \A s \in Streams : task[s] \in {"none", "ended"}
    BY <1>6 DEF ReadError, sendVars, streamVars
  <2>2. Sending = {}
    BY <2>1 DEF Sending
  <2>3. Cardinality(Sending) = 0
    BY <2>2, FS_EmptySet
  <2>4. Len(delivered) = taken
    BY <1>l, <2>1, <2>3, EmptyIs DEF NoneBehind
  <2>5. QED
    BY <2>1, <2>4 DEF NoneBehind
<1>7. CASE WebSocketRead
  <2>1. socket # <<>> /\ kind' = kind
    BY <1>7 DEF WebSocketRead, sendVars
  <2>2. QED
    BY <1>0, <2>1 DEF OneLane
<1>8. CASE \E f \in datagrams, check \in BOOLEAN : DatagramRead(f, check)
  <2>1. datagrams # {} /\ kind' = kind
    BY <1>8 DEF DatagramRead, sendVars
  <2>2. QED
    BY <1>0, <2>1 DEF OneLane
<1>9. QED
  BY <1>1, <1>2, <1>3, <1>4, <1>5, <1>6, <1>7, <1>8, Steps, Zenon

-----------------------------------------------------------------------------
(* The end of a WebSocket *)

\* The frames with messages can be counted.
LEMMA FramesCount ==
    ASSUME NEW q, IsSeq(q)
    PROVE  IsFiniteSet(Binaries(q)) /\ Cardinality(Binaries(q)) \in Nat
<1>1. Len(q) \in Nat
  BY SeqOps
<1>2. IsFiniteSet(1 .. Len(q))
  BY <1>1, FS_Interval
<1>3. Binaries(q) \subseteq 1 .. Len(q)
  BY DEF Binaries
<1>4. QED
  BY <1>2, <1>3, FS_Subset, FS_CardinalityType

\* A queue without frames.
LEMMA NoFrame ==
    /\ Binaries(<<>>) = {} /\ Cardinality(Binaries(<<>>)) = 0
    /\ ~HasClose(<<>>) /\ CloseLast(<<>>)
<1>1. 1 .. Len(<<>>) = {}
  BY EmptyIs
<1>2. Binaries(<<>>) = {} /\ ~HasClose(<<>>) /\ CloseLast(<<>>)
  BY <1>1, Zenon DEF Binaries, HasClose, CloseLast
<1>3. QED
  BY <1>2, FS_EmptySet

\* A frame is put at the end of a queue.
LEMMA FrameAdded ==
    ASSUME NEW q, IsSeq(q), NEW f
    PROVE  LET p == Append(q, f)
           IN  /\ f.type = "binary" => Cardinality(Binaries(p)) = Cardinality(Binaries(q)) + 1
               /\ f.type # "binary" => Binaries(p) = Binaries(q)
               /\ HasClose(p) <=> HasClose(q) \/ f.type = "close"
               /\ CloseLast(q) /\ (f.type = "binary" => ~HasClose(q)) => CloseLast(p)
<1> DEFINE p == Append(q, f)
<1> DEFINE n == Len(q)
<1>1. /\ n \in Nat /\ Len(p) = n + 1 /\ p[n + 1] = f
      /\ \A i \in 1 .. n : p[i] = q[i]
  BY SeqOps
<1>2. /\ 1 .. Len(p) = (1 .. n) \cup {n + 1} /\ n + 1 \notin 1 .. n
      /\ \A i \in 1 .. n : i # n + 1
  BY <1>1
<1> HIDE DEF p
<1>3. ASSUME f.type = "binary" PROVE Cardinality(Binaries(p)) = Cardinality(Binaries(q)) + 1
  <2>1. Binaries(p) = Binaries(q) \cup {n + 1} /\ n + 1 \notin Binaries(q)
    BY <1>1, <1>2, <1>3 DEF Binaries
  <2>2. QED
    BY <2>1, FramesCount, FS_AddElement
<1>4. ASSUME f.type # "binary" PROVE Binaries(p) = Binaries(q)
  BY <1>1, <1>2, <1>4 DEF Binaries
<1>5. HasClose(p) <=> HasClose(q) \/ f.type = "close"
  BY <1>1, <1>2 DEF HasClose
<1>6. ASSUME CloseLast(q), f.type = "binary" => ~HasClose(q) PROVE CloseLast(p)
  <2> SUFFICES ASSUME NEW i \in 1 .. Len(p), NEW j \in 1 .. Len(p), i < j, p[i].type = "close"
               PROVE  p[j].type # "binary"
    BY DEF CloseLast
  <2>1. i \in 1 .. n /\ p[i] = q[i]
    BY <1>1
  <2>2. CASE j \in 1 .. n
    BY <1>1, <1>6, <2>1, <2>2 DEF CloseLast
  <2>3. CASE j = n + 1
    BY <1>1, <1>6, <2>1, <2>3 DEF HasClose
  <2>4. QED
    BY <1>2, <2>2, <2>3
<1>7. QED
  BY <1>3, <1>4, <1>5, <1>6 DEF p

\* The first frame is taken from a queue.
LEMMA FrameTaken ==
    ASSUME NEW q, IsSeq(q), q # <<>>
    PROVE  LET p == Tail(q)
           IN  /\ Head(q).type = "binary" => Cardinality(Binaries(q)) = Cardinality(Binaries(p)) + 1
               /\ Head(q).type # "binary" => Cardinality(Binaries(q)) = Cardinality(Binaries(p))
               /\ HasClose(q) <=> Head(q).type = "close" \/ HasClose(p)
               /\ CloseLast(q) => CloseLast(p)
               /\ CloseLast(q) /\ Head(q).type = "close" => Binaries(q) = {}
               /\ Binaries(q) = {} => Binaries(p) = {} /\ Head(q).type # "binary"
<1> DEFINE p == Tail(q)
<1> DEFINE n == Len(p)
<1>1. /\ n \in Nat /\ Len(q) = n + 1 /\ q[1] = Head(q) /\ IsSeq(p)
      /\ \A i \in 1 .. n : p[i] = q[i + 1]
  <2>1. /\ Len(q) \in Nat /\ Len(p) = Len(q) - 1 /\ Len(q) >= 1 /\ Head(q) = q[1] /\ IsSeq(p)
        /\ \A i \in 1 .. Len(q) - 1 : p[i] = q[i + 1]
    BY SeqOps
  <2>2. QED
    BY <2>1
<1>2. /\ 1 \in 1 .. Len(q) /\ \A i \in 1 .. n : i + 1 \in 1 .. Len(q)
      /\ \A i \in 1 .. Len(q) : i = 1 \/ (i - 1 \in 1 .. n /\ i = (i - 1) + 1)
  BY <1>1
<1> HIDE DEF p
<1> DEFINE rest == Binaries(q) \ {1}
<1>3. IsFiniteSet(Binaries(p)) /\ IsFiniteSet(Binaries(q)) /\ IsFiniteSet(rest)
      /\ Cardinality(Binaries(q)) \in Nat
  BY <1>1, FramesCount, FS_Subset
<1>4. Cardinality(rest) = Cardinality(Binaries(p))
  <2> DEFINE up == [i \in Binaries(p) |-> i + 1]
  <2>1. \A i \in Binaries(p) : i \in Nat /\ i + 1 \in rest
    BY <1>1, <1>2 DEF Binaries
  <2>2. \A k \in rest : k - 1 \in Binaries(p) /\ (k - 1) + 1 = k
    BY <1>1, <1>2 DEF Binaries
  <2> HIDE DEF rest
  <2>3. up \in [Binaries(p) -> rest]
    BY <2>1
  <2>4. \A i, j \in Binaries(p) : up[i] = up[j] => i = j
    BY <2>1
  <2>5. \A k \in rest : \E i \in Binaries(p) : up[i] = k
    BY <2>2
  <2>6. up \in Bijection(Binaries(p), rest)
    <3> HIDE DEF up
    <3>1. QED
      BY <2>3, <2>4, <2>5, Zenon DEF Bijection, Injection, Surjection, IsInjective
  <2>7. ExistsBijection(Binaries(p), rest)
    BY <2>6 DEF ExistsBijection
  <2>8. QED
    BY <1>3, <2>7, FS_Bijection
<1>5. ASSUME Head(q).type = "binary"
      PROVE  Cardinality(Binaries(q)) = Cardinality(Binaries(p)) + 1
  <2>1. 1 \in Binaries(q)
    BY <1>1, <1>2, <1>5 DEF Binaries
  <2>2. Cardinality(rest) = Cardinality(Binaries(q)) - 1
    BY <1>3, <2>1, FS_RemoveElement
  <2> HIDE DEF rest
  <2>3. QED
    BY <1>3, <1>4, <2>2
<1>6. ASSUME Head(q).type # "binary" PROVE Cardinality(Binaries(q)) = Cardinality(Binaries(p))
  <2>1. rest = Binaries(q)
    BY <1>1, <1>6 DEF Binaries
  <2>2. QED
    BY <1>4, <2>1
<1>7. HasClose(q) <=> Head(q).type = "close" \/ HasClose(p)
  <2>1. ASSUME HasClose(q) PROVE Head(q).type = "close" \/ HasClose(p)
    <3>1. PICK i \in 1 .. Len(q) : q[i].type = "close"
      BY <2>1 DEF HasClose
    <3>2. CASE i = 1
      BY <1>1, <3>1, <3>2
    <3>3. CASE i - 1 \in 1 .. n /\ i = (i - 1) + 1
      <4>1. p[i - 1] = q[i]
        BY <1>1, <3>3
      <4>2. QED
        BY <3>1, <3>3, <4>1 DEF HasClose
    <3>4. QED
      BY <1>2, <3>2, <3>3
  <2>2. ASSUME HasClose(p) PROVE HasClose(q)
    BY <1>1, <1>2, <2>2 DEF HasClose
  <2>3. ASSUME Head(q).type = "close" PROVE HasClose(q)
    BY <1>1, <1>2, <2>3 DEF HasClose
  <2>4. QED
    BY <2>1, <2>2, <2>3
<1>8. CloseLast(q) => CloseLast(p)
  <2> SUFFICES ASSUME CloseLast(q), NEW i \in 1 .. n, NEW j \in 1 .. n, i < j, p[i].type = "close"
               PROVE  p[j].type # "binary"
    BY DEF CloseLast
  <2>1. i + 1 \in 1 .. Len(q) /\ j + 1 \in 1 .. Len(q) /\ i + 1 < j + 1
    BY <1>1, <1>2
  <2>2. QED
    BY <1>1, <2>1 DEF CloseLast
<1>9. CloseLast(q) /\ Head(q).type = "close" => Binaries(q) = {}
  <2> SUFFICES ASSUME CloseLast(q), Head(q).type = "close", NEW j \in Binaries(q) PROVE FALSE
    OBVIOUS
  <2>1. j \in 1 .. Len(q) /\ q[j].type = "binary" /\ j # 1
    BY <1>1 DEF Binaries
  <2>2. 1 < j
    BY <1>1, <2>1
  <2>3. QED
    BY <1>1, <1>2, <2>1, <2>2 DEF CloseLast
<1>10. Binaries(q) = {} => Binaries(p) = {} /\ Head(q).type # "binary"
  BY <1>1, <1>2 DEF Binaries
<1>11. QED
  BY <1>5, <1>6, <1>7, <1>8, <1>9, <1>10 DEF p

\* CloseInv depends on these variables only.
LEMMA CloseSame ==
    ASSUME CloseInv, UNCHANGED <<tx_write_message, socket, sent, delivered>>,
           write_task' = write_task \/ write_task' = "ended",
           writer' = writer \/ writer' = "closed",
           reader' = reader \/ reader' \notin {"read", "close_frame"}
    PROVE  CloseInv'
<1>1. /\ CloseLast(tx_write_message') /\ CloseLast(socket')
      /\ HasClose(tx_write_message') \/ HasClose(socket') => writer = "closed"
      /\ HasClose(socket') => Binaries(tx_write_message') = {}
  BY DEF CloseInv
<1>2. CASE reader' = reader
  BY <1>1, <1>2 DEF CloseInv
<1>3. CASE reader' \notin {"read", "close_frame"}
  BY <1>1, <1>3 DEF CloseInv
<1>4. QED
  BY <1>2, <1>3

\* The other lanes have no frames.
LEMMA CloseOther == ASSUME LaneInv', kind' # "websocket", reader' # "close_frame" PROVE CloseInv'
<1>1. tx_write_message' = <<>> /\ socket' = <<>> /\ write_task' = "ended"
  BY DEF LaneInv, OneLane
<1>2. write_task' # "run"
  BY <1>1
<1>3. QED
  BY <1>1, <1>2, NoFrame, Zenon DEF CloseInv

\* What CloseInv says of the lengths is about numbers.
LEMMA CloseNumbers ==
    ASSUME SeqTypes
    PROVE  /\ Len(sent) \in Nat /\ Len(delivered) \in Nat
           /\ Cardinality(Binaries(socket)) \in Nat
           /\ Cardinality(Binaries(tx_write_message)) \in Nat
  BY SeqOps, FramesCount DEF SeqTypes

\* Frames move from the queue to the socket and from there to the reader in
\* order, and none is written after the close frame.
LEMMA CloseStep == ASSUME LaneInv, CloseInv, [Next]_vars PROVE CloseInv'
<1>0. SeqTypes /\ OneLane /\ LaneInv'
  BY LaneStep DEF LaneInv
<1>s. IsSeq(tx_write_message) /\ IsSeq(socket) /\ IsSeq(sent) /\ IsSeq(delivered)
  BY <1>0, Zenon DEF SeqTypes
<1>n. /\ Len(sent) \in Nat /\ Len(delivered) \in Nat
      /\ Cardinality(Binaries(socket)) \in Nat /\ Cardinality(Binaries(tx_write_message)) \in Nat
  BY <1>0, CloseNumbers
<1>1. CASE Idle
  BY <1>1, IdleIs, CloseSame
<1>2. CASE ReadError
  BY <1>2, CloseSame DEF ReadError, sendVars, wsVars
<1>3. CASE AcceptEnds \/ \E s \in Streams : Accept(s) \/ TaskRead(s) \/ TaskSend(s) \/ TaskEnds(s)
  <2>1. UNCHANGED <<tx_write_message, socket, sent, delivered, write_task, writer, reader>>
    BY <1>3 DEF AcceptEnds, Accept, TaskRead, TaskSend, TaskEnds, sendVars, wsVars, readVars
  <2>2. QED
    BY <2>1, CloseSame
<1>4. CASE \/ \E s \in Streams, len \in StreamLengths : StreamWrite(s, len)
           \/ \E len \in DatagramLengths : DatagramWrite(len)
  <2>1. kind' # "websocket" /\ reader' = reader /\ writer = "open"
    BY <1>4 DEF StreamWrite, DatagramWrite, WriteLoopSends, readVars
  <2>2. reader' # "close_frame"
    BY <2>1 DEF CloseInv
  <2>3. QED
    BY <1>0, <2>1, <2>2, CloseOther
<1>5. CASE StreamRead \/ \E f \in datagrams, check \in BOOLEAN : DatagramRead(f, check)
  <2>1. kind' = kind /\ (rx_recv_bytes # <<>> \/ datagrams # {})
    BY <1>5 DEF StreamRead, DatagramRead, sendVars
  <2>2. kind' # "websocket"
    BY <1>0, <2>1 DEF OneLane
  <2>3. reader' = "read"
    <3>1. CASE StreamRead
      BY <3>1 DEF StreamRead, ReadLoopTakes
    <3>2. CASE \E f \in datagrams, check \in BOOLEAN : DatagramRead(f, check)
      <4>1. PICK f \in datagrams, check \in BOOLEAN : DatagramRead(f, check)
        BY <3>2
      <4>2. UNCHANGED readVars \/ \E wire : ReadLoopTakes(wire)
        BY <4>1, Zenon DEF DatagramRead
      <4>3. reader = "read"
        BY <4>1 DEF DatagramRead
      <4>4. QED
        BY <4>2, <4>3 DEF ReadLoopTakes, readVars
    <3>3. QED
      BY <1>5, <3>1, <3>2
  <2>4. reader' # "close_frame"
    BY <2>3
  <2>5. QED
    BY <1>0, <2>2, <2>4, CloseOther
<1>6. ASSUME NEW len \in SocketLengths, WebSocketWrite(len) PROVE CloseInv'
  <2> DEFINE f == [type |-> "binary", data |-> Wire(len)]
  <2>1. /\ tx_write_message' = Append(tx_write_message, f) /\ f.type = "binary"
        /\ \E m : sent' = Append(sent, m)
        /\ writer = "open" /\ UNCHANGED <<socket, delivered, write_task, writer, reader>>
    BY <1>6 DEF WebSocketWrite, WriteLoopSends, readVars
  <2> HIDE DEF f
  <2>2. ~HasClose(tx_write_message) /\ ~HasClose(socket) /\ reader # "close_frame"
    BY <2>1 DEF CloseInv
  <2>3. /\ Cardinality(Binaries(tx_write_message')) = Cardinality(Binaries(tx_write_message)) + 1
        /\ ~HasClose(tx_write_message') /\ CloseLast(tx_write_message')
    <3>1. f.type # "close" /\ CloseLast(tx_write_message)
      BY <2>1 DEF CloseInv
    <3>2. QED
      BY <1>s, <2>1, <2>2, <3>1, FrameAdded
  <2>4. Len(sent') = Len(sent) + 1
    BY <1>s, <2>1, SeqOps
  <2>5. CloseLast(socket') /\ ~HasClose(socket') /\ reader' # "close_frame"
    BY <2>1, <2>2 DEF CloseInv
  <2>6. reader' = "read" /\ write_task' = "run"
          => Len(sent') = Len(delivered') + Cardinality(Binaries(socket'))
                                          + Cardinality(Binaries(tx_write_message'))
    <3>1. SUFFICES ASSUME reader = "read", write_task = "run"
                   PROVE  Len(sent') = Len(delivered') + Cardinality(Binaries(socket'))
                                          + Cardinality(Binaries(tx_write_message'))
      BY <2>1
    <3>2. Len(sent) = Len(delivered) + Cardinality(Binaries(socket))
                                     + Cardinality(Binaries(tx_write_message))
      BY <3>1 DEF CloseInv
    <3>3. QED
      BY <1>n, <2>1, <2>3, <2>4, <3>2
  <2>7. QED
    BY <2>3, <2>5, <2>6, Zenon DEF CloseInv
<1>7. CASE WriterClose \/ AnswerPing
  <2>1. UNCHANGED <<sent, delivered, socket, write_task, reader>>
    BY <1>7 DEF WriterClose, AnswerPing, sendVars, readVars
  <2>2. \/ /\ tx_write_message' = tx_write_message /\ writer' \in {writer, "closed"}
        \/ \E f : /\ tx_write_message' = Append(tx_write_message, f) /\ f.type # "binary"
                  /\ f.type = "close" => writer' = "closed"
                  /\ f.type # "close" => writer' = writer
    <3>1. CASE WriterClose /\ kind # "websocket"
      BY <3>1 DEF WriterClose
    <3>2. CASE WriterClose /\ kind = "websocket"
      <4> DEFINE f == [type |-> "close", data |-> <<>>]
      <4>1. f.type # "binary" /\ f.type = "close"
        OBVIOUS
      <4>2. tx_write_message' = Append(tx_write_message, f) /\ writer' = "closed"
        BY <3>2, Zenon DEF WriterClose
      <4> HIDE DEF f
      <4>3. QED
        BY <4>1, <4>2
    <3>3. CASE AnswerPing
      <4> DEFINE f == [type |-> "pong", data |-> <<>>]
      <4>1. f.type # "binary" /\ f.type # "close"
        OBVIOUS
      <4>2. tx_write_message' = Append(tx_write_message, f) /\ writer' = writer
        BY <3>3, Zenon DEF AnswerPing, sendVars
      <4> HIDE DEF f
      <4>3. QED
        BY <4>1, <4>2
    <3>4. QED
      BY <1>7, <3>1, <3>2, <3>3
  <2>3. CASE tx_write_message' = tx_write_message /\ writer' \in {writer, "closed"}
    BY <2>1, <2>3, CloseSame
  <2>4. ASSUME NEW f, tx_write_message' = Append(tx_write_message, f), f.type # "binary",
               f.type = "close" => writer' = "closed", f.type # "close" => writer' = writer
        PROVE  CloseInv'
    <3>1. /\ Binaries(tx_write_message') = Binaries(tx_write_message)
          /\ CloseLast(tx_write_message')
          /\ HasClose(tx_write_message') <=> HasClose(tx_write_message) \/ f.type = "close"
      <4>1. CloseLast(tx_write_message)
        BY DEF CloseInv
      <4>2. QED
        BY <1>s, <2>4, <4>1, FrameAdded
    <3>2. HasClose(tx_write_message') \/ HasClose(socket') \/ reader' = "close_frame"
            => writer' = "closed"
      BY <2>1, <2>4, <3>1 DEF CloseInv
    <3>3. QED
      BY <2>1, <3>1, <3>2 DEF CloseInv
  <2>5. QED
    BY <2>2, <2>3, <2>4
<1>8. CASE WriteTaskSends
  <2> DEFINE f == Head(tx_write_message)
  <2>1. /\ tx_write_message # <<>> /\ tx_write_message' = Tail(tx_write_message)
        /\ socket' = Append(socket, f) /\ write_task = "run"
        /\ UNCHANGED <<sent, delivered, write_task, writer, reader>>
    BY <1>8 DEF WriteTaskSends, sendVars, readVars
  <2>2. /\ f.type = "binary" => Cardinality(Binaries(tx_write_message))
                                = Cardinality(Binaries(tx_write_message')) + 1
        /\ f.type # "binary" => Cardinality(Binaries(tx_write_message))
                                = Cardinality(Binaries(tx_write_message'))
        /\ HasClose(tx_write_message) <=> f.type = "close" \/ HasClose(tx_write_message')
        /\ CloseLast(tx_write_message')
        /\ f.type = "close" => Binaries(tx_write_message) = {}
        /\ Binaries(tx_write_message) = {} => Binaries(tx_write_message') = {} /\ f.type # "binary"
    <3>1. CloseLast(tx_write_message)
      BY DEF CloseInv
    <3>2. QED
      BY <1>s, <2>1, <3>1, FrameTaken
  <2>3. /\ f.type = "binary"
             => Cardinality(Binaries(socket')) = Cardinality(Binaries(socket)) + 1
        /\ f.type # "binary" => Binaries(socket') = Binaries(socket)
        /\ HasClose(socket') <=> HasClose(socket) \/ f.type = "close"
        /\ CloseLast(socket) /\ (f.type = "binary" => ~HasClose(socket)) => CloseLast(socket')
    BY <1>s, <2>1, FrameAdded
  <2> HIDE DEF f
  <2>4. CloseLast(socket) /\ (HasClose(socket) => Binaries(tx_write_message) = {})
    BY DEF CloseInv
  <2>5. CloseLast(socket') /\ (HasClose(socket') => Binaries(tx_write_message) = {})
    BY <2>2, <2>3, <2>4, Zenon
  <2>6. HasClose(tx_write_message') \/ HasClose(socket') \/ reader' = "close_frame"
          => writer' = "closed"
    BY <2>1, <2>2, <2>3, Zenon DEF CloseInv
  <2>7. Cardinality(Binaries(socket)) + Cardinality(Binaries(tx_write_message))
        = Cardinality(Binaries(socket')) + Cardinality(Binaries(tx_write_message'))
    <3>1. Cardinality(Binaries(tx_write_message')) \in Nat
      BY <1>0, FramesCount DEF LaneInv, SeqTypes
    <3>2. QED
      BY <1>n, <2>2, <2>3, <3>1
  <2>8. /\ Cardinality(Binaries(tx_write_message')) \in Nat
        /\ Cardinality(Binaries(socket')) \in Nat
    BY <1>0, FramesCount DEF LaneInv, SeqTypes
  <2>9. reader' = "read" /\ write_task' = "run"
          => Len(sent') = Len(delivered') + Cardinality(Binaries(socket'))
                                          + Cardinality(Binaries(tx_write_message'))
    BY <1>n, <2>1, <2>7, <2>8 DEF CloseInv
  <2>10. reader' = "read" /\ HasClose(socket')
           => Len(sent') = Len(delivered') + Cardinality(Binaries(socket'))
    <3>1. SUFFICES ASSUME reader' = "read", HasClose(socket')
                   PROVE  Len(sent') = Len(delivered') + Cardinality(Binaries(socket'))
      OBVIOUS
    <3>2. Cardinality(Binaries(tx_write_message')) = 0
      BY <2>2, <2>5, <3>1, FS_EmptySet
    <3>3. QED
      BY <1>n, <2>1, <2>8, <2>9, <3>1, <3>2
  <2>11. reader' = "close_frame" => Len(sent') = Len(delivered')
    BY <2>1 DEF CloseInv
  <2>12. QED
    BY <2>2, <2>5, <2>6, <2>9, <2>10, <2>11, Zenon DEF CloseInv
<1>9. CASE WriteTaskEnds
  <2>1. /\ UNCHANGED <<sent, delivered, socket, writer, reader>>
        /\ tx_write_message' = <<>> /\ write_task' = "ended"
    BY <1>9 DEF WriteTaskEnds, sendVars, readVars
  <2>2. write_task' # "run"
    BY <2>1
  <2>3. /\ Binaries(tx_write_message') = {} /\ ~HasClose(tx_write_message')
        /\ CloseLast(tx_write_message')
    BY <2>1, NoFrame, Zenon
  <2>4. QED
    BY <2>1, <2>2, <2>3 DEF CloseInv
<1>10. CASE WebSocketRead
  <2> DEFINE f == Head(socket)
  <2>1. /\ socket # <<>> /\ socket' = Tail(socket) /\ reader = "read"
        /\ UNCHANGED <<sent, tx_write_message, write_task, writer>>
    BY <1>10 DEF WebSocketRead, sendVars
  <2>2. /\ f.type = "binary"
             => Cardinality(Binaries(socket)) = Cardinality(Binaries(socket')) + 1
        /\ f.type # "binary" => Cardinality(Binaries(socket)) = Cardinality(Binaries(socket'))
        /\ HasClose(socket) <=> f.type = "close" \/ HasClose(socket')
        /\ CloseLast(socket')
        /\ f.type = "close" => Binaries(socket) = {}
    <3>1. CloseLast(socket)
      BY DEF CloseInv
    <3>2. QED
      BY <1>s, <2>1, <3>1, FrameTaken
  <2>3. \/ f.type = "binary" /\ reader' = reader /\ \E m : delivered' = Append(delivered, m)
        \/ f.type = "close" /\ reader' = "close_frame" /\ delivered' = delivered
        \/ f.type = "pong" /\ reader' = reader /\ delivered' = delivered
    BY <1>10 DEF WebSocketRead, ReadLoopTakes, readVars
  <2> HIDE DEF f
  <2>4. Cardinality(Binaries(socket')) \in Nat
    BY <1>0, FramesCount DEF LaneInv, SeqTypes
  <2>5. CASE f.type = "close"
    <3>1. HasClose(socket) /\ Cardinality(Binaries(socket)) = 0
      BY <2>2, <2>5, FS_EmptySet
    <3>2. Len(sent) = Len(delivered) /\ writer = "closed"
      BY <1>n, <2>1, <3>1 DEF CloseInv
    <3>3. reader' = "close_frame" /\ delivered' = delivered
      BY <2>3, <2>5
    <3>4. reader' # "read"
      BY <3>3
    <3>5. Len(sent') = Len(delivered') /\ writer' = "closed"
      BY <2>1, <3>2, <3>3
    <3>6. /\ CloseLast(tx_write_message')
          /\ HasClose(socket') => Binaries(tx_write_message') = {}
      BY <2>1, <2>2 DEF CloseInv
    <3>7. QED
      BY <2>2, <3>4, <3>5, <3>6, Zenon DEF CloseInv
  <2>6. CASE f.type # "close"
    <3>1. reader' = reader /\ (HasClose(socket) <=> HasClose(socket'))
      BY <2>2, <2>3, <2>6
    <3>2. Len(delivered) + Cardinality(Binaries(socket))
          = Len(delivered') + Cardinality(Binaries(socket'))
      <4>1. CASE f.type = "binary"
        <5>1. Len(delivered') = Len(delivered) + 1
          BY <1>s, <2>3, <4>1, SeqOps
        <5>2. QED
          BY <1>n, <2>2, <2>4, <4>1, <5>1
      <4>2. CASE f.type = "pong"
        <5>1. f.type # "binary" /\ delivered' = delivered
          BY <2>3, <4>2
        <5>2. QED
          BY <2>2, <5>1
      <4>3. QED
        BY <2>3, <2>6, <4>1, <4>2
    <3>3. Len(delivered') \in Nat
      BY <1>0, SeqOps DEF LaneInv, SeqTypes
    <3>4. reader' # "close_frame"
      BY <2>1, <3>1
    <3>5. /\ CloseLast(tx_write_message')
          /\ HasClose(socket') => Binaries(tx_write_message') = {}
          /\ HasClose(tx_write_message') \/ HasClose(socket') => writer' = "closed"
      BY <2>1, <3>1 DEF CloseInv
    <3>6. write_task' = "run"
            => Len(sent') = Len(delivered') + Cardinality(Binaries(socket'))
                                            + Cardinality(Binaries(tx_write_message'))
      BY <1>n, <2>1, <2>4, <3>2, <3>3 DEF CloseInv
    <3>7. HasClose(socket') => Len(sent') = Len(delivered') + Cardinality(Binaries(socket'))
      BY <2>1, <3>1, <3>2 DEF CloseInv
    <3>8. QED
      BY <2>2, <3>4, <3>5, <3>6, <3>7, Zenon DEF CloseInv
  <2>7. QED
    BY <2>5, <2>6
<1>11. QED
  BY <1>1, <1>2, <1>3, <1>4, <1>5, <1>6, <1>7, <1>8, <1>9, <1>10, Steps, Zenon

\* The end is reported last, for every number of streams, capacity of the
\* channels and number of messages: see EndIsLast.
THEOREM EndsLast == Spec => []EndIsLast
<1>1. Init => LaneInv /\ NoneBehind /\ CloseInv
  <2> SUFFICES ASSUME Init PROVE LaneInv /\ NoneBehind /\ CloseInv
    OBVIOUS
  <2>1. /\ sent = <<>> /\ delivered = <<>> /\ rx_recv_bytes = <<>> /\ tx_write_message = <<>>
        /\ socket = <<>> /\ task = [s \in Streams |-> "none"] /\ taken = 0 /\ reader = "read"
    BY DEF Init
  <2>2. Sending = {}
    BY <2>1 DEF Sending
  <2>3. IsFiniteSet(Sending) /\ Cardinality(Sending) = 0
    BY <2>2, FS_EmptySet
  <2>4. NoneBehind
    BY <2>1, <2>3, EmptyIs DEF NoneBehind
  <2>5. reader # "close_frame" /\ Len(sent) = 0 /\ Len(delivered) = 0
    BY <2>1, EmptyIs
  <2>6. /\ CloseLast(tx_write_message) /\ CloseLast(socket)
        /\ ~HasClose(tx_write_message) /\ ~HasClose(socket)
        /\ Cardinality(Binaries(socket)) = 0 /\ Cardinality(Binaries(tx_write_message)) = 0
    BY <2>1, NoFrame, Zenon
  <2>7. CloseInv
    BY <2>5, <2>6 DEF CloseInv
  <2>8. QED
    BY <2>4, <2>7, LaneInit
<1>2. LaneInv /\ NoneBehind /\ CloseInv /\ [Next]_vars => (LaneInv /\ NoneBehind /\ CloseInv)'
  BY LaneStep, NoneBehindStep, CloseStep, Zenon
<1>3. NoneBehind /\ CloseInv => EndIsLast
  BY DEF NoneBehind, CloseInv, EndIsLast
<1>4. QED
  BY <1>1, <1>2, <1>3, PTL DEF Spec

-----------------------------------------------------------------------------
(* The dictionaries *)

\* A function on 1 .. n is a sequence.
LEMMA FunIsSeq ==
    ASSUME NEW n \in Nat, NEW q, q = [i \in 1 .. n |-> q[i]]
    PROVE  IsSeq(q) /\ Len(q) = n
<1> DEFINE S == {q[i] : i \in 1 .. n}
<1>1. \A i \in 1 .. n : q[i] \in S
  OBVIOUS
<1> HIDE DEF S
<1>2. q \in [1 .. n -> S]
  BY <1>1
<1>3. q \in Seq(S) /\ Len(q) = n
  BY <1>2
<1>4. QED
  BY <1>3, SeqIs

\* The concatenation of two sequences, and what the dictionary makes of the second.
LEMMA Pushed ==
    ASSUME NEW a, IsSeq(a), NEW b, IsSeq(b)
    PROVE  /\ IsSeq(a \o b)
           /\ PushMsg(LastOf(a, DictionarySize), b) = LastOf(a \o b, DictionarySize)
<1> DEFINE S == Range(a) \cup Range(b)
<1>1. a \in Seq(S) /\ b \in Seq(S)
  <2>1. a \in Seq(Range(a)) /\ b \in Seq(Range(b))
    BY DEF IsSeq
  <2>2. QED
    BY <2>1
<1> HIDE DEF S
<1>2. a \o b \in Seq(S)
  BY <1>1
<1>3. QED
  BY <1>1, <1>2, SeqIs, WindowKept

\* A dictionary after nothing was pushed.
LEMMA PushedNothing ==
    ASSUME NEW a, IsSeq(a)
    PROVE  PushMsg(LastOf(a, DictionarySize), <<>>) = LastOf(a, DictionarySize)
<1> DEFINE R == Range(a)
<1>1. a \in Seq(R)
  BY DEF IsSeq
<1> HIDE DEF R
<1>2. a \o <<>> = a
  BY <1>1
<1>3. PushMsg(LastOf(a, DictionarySize), <<>>) = LastOf(a \o <<>>, DictionarySize)
  BY Pushed, EmptyIs, Zenon
<1>4. QED
  BY <1>2, <1>3, Zenon

\* Context takeover is for a WebSocket, and the peer knows of it.
LEMMA Takeover ==
    ASSUME compression \in Compressions, Buildable(kind, compression),
           Converter(compression) = "context-takeover"
    PROVE  kind = "websocket" /\ SendConverter = "context-takeover"
           /\ RecvConverter = "context-takeover"
<1> DEFINE off == [enabled |-> FALSE, level |-> "none", window_bits |-> 0]
<1> DEFINE per == [enabled |-> TRUE, level |-> "some", window_bits |-> 0]
<1> DEFINE win == [enabled |-> TRUE, level |-> "some", window_bits |-> WindowBits]
<1>1. compression \in {off, per, win}
  <2>1. \A c : NewCompression = off /\ Enable(c) = per /\ EnableWithWindowBits(c) = win
               /\ Disable(c) = off
    BY Zenon DEF NewCompression, Enable, EnableWithWindowBits, Disable
  <2> HIDE DEF off, per, win
  <2>2. \A C : C \subseteq {off, per, win} => Configure(C) \subseteq {off, per, win}
    BY <2>1 DEF Configure
  <2>3. {NewCompression} \subseteq {off, per, win}
    BY <2>1
  <2>4. Configure({NewCompression}) \subseteq {off, per, win}
    BY <2>2, <2>3, Zenon
  <2>5. Compressions \subseteq {off, per, win}
    BY <2>2, <2>4, Zenon DEF Compressions
  <2>6. QED
    BY <2>5
<1>2. off.level = "none" /\ per.level # "none" /\ per.window_bits = 0
  OBVIOUS
<1>3. Converter(off) = "none" /\ Converter(per) = "per-message"
  BY <1>2, Zenon DEF Converter
<1>4. compression = win
  <2>1. Converter(off) # "context-takeover" /\ Converter(per) # "context-takeover"
    BY <1>3
  <2> HIDE DEF off, per, win
  <2>2. QED
    BY <1>1, <2>1
<1>5. win.enabled /\ win.window_bits # 0
  BY CompressionAssumption
<1>6. kind = "websocket"
  BY <1>4, <1>5, Zenon DEF Buildable, CompatWithContextTakeover
<1>7. NegotiationParams(win).comp = "context-takeover"
  <2>1. (IF ~win.enabled THEN "none"
         ELSE IF win.window_bits = 0 THEN "per-message" ELSE "context-takeover")
        = "context-takeover"
    BY <1>5, Zenon
  <2> HIDE DEF win
  <2>2. QED
    BY <2>1 DEF NegotiationParams
<1>8. RecvConverter = "context-takeover"
  BY <1>4, <1>7, Zenon DEF RecvConverter, PeerConverter
<1>9. QED
  BY <1>6, <1>8 DEF SendConverter

\* The frames of a queue are still made of messages after a step.
LEMMA MadeKept ==
    ASSUME NEW q, IsSeq(q), MadeOfMessages(q)
    PROVE  /\ \A f : (f.type = "binary" => IsSeq(Head(f.data).of))
                        => MadeOfMessages(Append(q, f))
           /\ q # <<>> => /\ MadeOfMessages(Tail(q))
                          /\ Head(q).type = "binary" => IsSeq(Head(Head(q).data).of)
<1>1. ASSUME NEW f, f.type = "binary" => IsSeq(Head(f.data).of)
      PROVE  MadeOfMessages(Append(q, f))
  <2> DEFINE p == Append(q, f)
  <2>1. /\ Len(q) \in Nat /\ Len(p) = Len(q) + 1 /\ p[Len(q) + 1] = f
        /\ \A i \in 1 .. Len(q) : p[i] = q[i]
    BY SeqOps
  <2> HIDE DEF p
  <2>2. ASSUME NEW i \in 1 .. Len(p), p[i].type = "binary" PROVE IsSeq(Head(p[i].data).of)
    <3>1. i \in 1 .. Len(q) \/ i = Len(q) + 1
      BY <2>1
    <3>2. CASE i \in 1 .. Len(q)
      <4>1. p[i] = q[i]
        BY <2>1, <3>2
      <4>2. QED
        BY <2>2, <3>2, <4>1 DEF MadeOfMessages
    <3>3. CASE i = Len(q) + 1
      <4>1. p[i] = f
        BY <2>1, <3>3
      <4>2. QED
        BY <1>1, <2>2, <4>1
    <3>4. QED
      BY <3>1, <3>2, <3>3
  <2>3. QED
    BY <2>2, Zenon DEF MadeOfMessages, p
<1>2. ASSUME q # <<>>
      PROVE  /\ MadeOfMessages(Tail(q))
             /\ Head(q).type = "binary" => IsSeq(Head(Head(q).data).of)
  <2> DEFINE p == Tail(q)
  <2>1. /\ Len(q) \in Nat /\ Len(p) = Len(q) - 1 /\ Len(q) >= 1 /\ Head(q) = q[1]
        /\ \A i \in 1 .. Len(q) - 1 : p[i] = q[i + 1]
    BY <1>2, SeqOps
  <2> HIDE DEF p
  <2>2. 1 \in 1 .. Len(q) /\ \A i \in 1 .. Len(p) : i + 1 \in 1 .. Len(q) /\ p[i] = q[i + 1]
    BY <2>1
  <2>3. MadeOfMessages(p)
    BY <2>2, Zenon DEF MadeOfMessages
  <2>4. Head(q).type = "binary" => IsSeq(Head(Head(q).data).of)
    BY <2>1, <2>2, Zenon DEF MadeOfMessages
  <2>5. QED
    BY <2>3, <2>4 DEF p
<1>3. QED
  BY <1>1, <1>2

\* What is extracted from a frame made of a message is a sequence of bytes.
LEMMA ExtractedIs ==
    ASSUME NEW converter, NEW dict, NEW wire, IsSeq(Head(wire).of),
           converter = "context-takeover"
    PROVE  IsSeq(Extract(converter, dict, wire))
<1>1. IsSeq(Corrupt)
  <2>1. Corrupt \in Seq({[corrupt |-> TRUE]})
    BY DEF Corrupt
  <2>2. QED
    BY <2>1, SeqIs
<1>2. converter # "none"
  OBVIOUS
<1>3. CASE wire = <<>>
  <2>1. Extract(converter, dict, wire) = <<>>
    BY <1>3, Zenon DEF Extract
  <2>2. QED
    BY <2>1, EmptyIs, Zenon
<1>4. CASE wire # <<>>
  <2>1. Extract(converter, dict, wire) = Inflate(dict, wire)
    BY <1>2, <1>4, Zenon DEF Extract
  <2>2. Inflate(dict, wire) = Head(wire).of \/ Inflate(dict, wire) = Corrupt
    BY Zenon DEF Inflate
  <2>3. QED
    BY <1>1, <2>1, <2>2, Zenon
<1>5. QED
  BY <1>3, <1>4

\* A new message, and what deflate makes of it.
LEMMA DeflatedIs ==
    ASSUME NEW len \in Nat, NEW dict
    PROVE  IsSeq(NewData(len)) /\ Head(Deflate(dict, NewData(len))).of = NewData(len)
<1> DEFINE data == NewData(len)
<1>1. IsSeq(data) /\ Len(data) = len
  <2>1. data = [i \in 1 .. len |-> data[i]]
    BY Zenon DEF NewData
  <2> HIDE DEF data
  <2>2. QED
    BY <2>1, FunIsSeq
<1> HIDE DEF data
<1> DEFINE n == Len(data) \div 2 + 1
<1> DEFINE wire == [i \in 1 .. n |-> [of |-> data, with |-> dict, at |-> i]]
<1>2. n \in Nat /\ 1 \in 1 .. n
  BY <1>1
<1>3. Deflate(dict, data) = wire
  BY Zenon DEF Deflate
<1>4. wire[1].of = data
  <2> HIDE DEF n
  <2>1. wire[1] = [of |-> data, with |-> dict, at |-> 1]
    BY <1>2
  <2>2. QED
    BY <2>1
<1>5. IsSeq(wire) /\ Len(wire) = n
  <2>1. wire = [i \in 1 .. n |-> wire[i]]
    OBVIOUS
  <2> HIDE DEF wire, n
  <2>2. QED
    BY <1>2, <2>1, FunIsSeq
<1> HIDE DEF wire
<1>6. Head(wire) = wire[1]
  <2>1. wire # <<>>
    BY <1>2, <1>5, EmptyIs
  <2>2. QED
    BY <1>5, <2>1, SeqOps
<1>7. QED
  BY <1>1, <1>3, <1>4, <1>6 DEF data

\* The dictionaries, without the condition.
Windows ==
    /\ dictionary = LastOf(compressed, DictionarySize)
    /\ ext_dictionary = LastOf(extracted, DictionarySize)

\* Every message that passes is pushed into both dictionaries, and nothing else.
LEMMA WindowStep ==
    ASSUME LaneInv, TakeoverFrames, DictionaryIsWindow, [Next]_vars
    PROVE  TakeoverFrames' /\ DictionaryIsWindow'
<1>c. UNCHANGED <<kind, compression>>
  <2>1. CASE Idle
    BY <2>1, IdleIs
  <2>2. CASE \/ \E s \in Streams, len \in StreamLengths : StreamWrite(s, len)
             \/ \E len \in SocketLengths : WebSocketWrite(len)
             \/ \E len \in DatagramLengths : DatagramWrite(len)
    BY <2>2 DEF StreamWrite, WebSocketWrite, DatagramWrite, WriteLoopSends
  <2>3. CASE \/ WriterClose \/ AnswerPing \/ WriteTaskSends \/ WriteTaskEnds \/ AcceptEnds
             \/ \E s \in Streams : Accept(s) \/ TaskRead(s) \/ TaskSend(s) \/ TaskEnds(s)
    BY <2>3 DEF WriterClose, AnswerPing, WriteTaskSends, WriteTaskEnds, AcceptEnds, Accept,
       TaskRead, TaskSend, TaskEnds, sendVars
  <2>4. CASE \/ StreamRead \/ WebSocketRead \/ ReadError
             \/ \E f \in datagrams, check \in BOOLEAN : DatagramRead(f, check)
    BY <2>4 DEF StreamRead, WebSocketRead, ReadError, DatagramRead, sendVars
  <2>5. QED
    BY <2>1, <2>2, <2>3, <2>4, Steps, Zenon
<1>b. (compression \in Compressions /\ Buildable(kind, compression))'
  BY <1>c DEF TakeoverFrames, Buildable, CompatWithContextTakeover
<1>0. SUFFICES ASSUME Converter(compression) = "context-takeover"
               PROVE  /\ IsSeq(compressed') /\ IsSeq(extracted')
                      /\ MadeOfMessages(socket') /\ MadeOfMessages(tx_write_message')
                      /\ Windows'
  BY <1>b, <1>c, Zenon DEF TakeoverFrames, DictionaryIsWindow, Windows
<1>k. /\ kind = "websocket" /\ SendConverter = "context-takeover"
      /\ RecvConverter = "context-takeover"
  BY <1>0, Takeover DEF TakeoverFrames
<1>s. /\ IsSeq(socket) /\ IsSeq(tx_write_message) /\ IsSeq(compressed) /\ IsSeq(extracted)
      /\ MadeOfMessages(socket) /\ MadeOfMessages(tx_write_message) /\ Windows
  BY <1>0, Zenon DEF TakeoverFrames, DictionaryIsWindow, Windows, LaneInv, SeqTypes
<1>o. rx_recv_bytes = <<>> /\ datagrams = {} /\ accept_loop = "ended"
      /\ \A s \in Streams : task[s] = "none"
  BY <1>k DEF LaneInv, OneLane
<1>1. ASSUME NEW len \in SocketLengths, WebSocketWrite(len)
      PROVE  /\ IsSeq(compressed') /\ IsSeq(extracted')
             /\ MadeOfMessages(socket') /\ MadeOfMessages(tx_write_message')
             /\ Windows'
  <2> DEFINE f == [type |-> "binary", data |-> Wire(len)]
  <2>1. /\ dictionary' = Remember(SendConverter, dictionary, NewData(len))
        /\ compressed' = compressed \o NewData(len)
        /\ tx_write_message' = Append(tx_write_message, f)
        /\ UNCHANGED <<socket, extracted, ext_dictionary>>
    BY <1>1 DEF WebSocketWrite, WriteLoopSends, readVars
  <2>2. len \in Nat
    BY LaneAssumption
  <2>3. f.data = Deflate(dictionary, NewData(len))
    <3>1. SendConverter # "none"
      BY <1>k
    <3>2. f.data = Wire(len)
      OBVIOUS
    <3>3. QED
      BY <3>1, <3>2, Zenon DEF Wire, Compress
  <2> HIDE DEF f
  <2>4. IsSeq(NewData(len)) /\ Head(f.data).of = NewData(len)
    BY <2>2, <2>3, DeflatedIs
  <2>5. MadeOfMessages(tx_write_message')
    BY <1>s, <2>1, <2>4, MadeKept
  <2>6. dictionary' = PushMsg(dictionary, NewData(len))
    BY <1>k, <2>1, Zenon DEF Remember
  <2>7. IsSeq(compressed') /\ dictionary' = LastOf(compressed', DictionarySize)
    <3>1. /\ IsSeq(compressed \o NewData(len))
          /\ PushMsg(LastOf(compressed, DictionarySize), NewData(len))
             = LastOf(compressed \o NewData(len), DictionarySize)
      BY <1>s, <2>4, Pushed
    <3>2. QED
      BY <1>s, <2>1, <2>6, <3>1, Zenon DEF Windows
  <2>8. QED
    BY <1>s, <2>1, <2>5, <2>7, Zenon DEF Windows
<1>2. CASE WebSocketRead
  <2>1. /\ socket # <<>> /\ socket' = Tail(socket)
        /\ UNCHANGED <<compressed, dictionary, tx_write_message>>
        /\ \/ Head(socket).type = "binary" /\ ReadLoopTakes(Head(socket).data)
           \/ UNCHANGED <<ext_dictionary, extracted>>
    BY <1>2 DEF WebSocketRead, sendVars, readVars
  <2>2. MadeOfMessages(socket')
    BY <1>s, <2>1, MadeKept
  <2>3. CASE UNCHANGED <<ext_dictionary, extracted>>
    BY <1>s, <2>1, <2>2, <2>3, Zenon DEF Windows
  <2>4. CASE Head(socket).type = "binary" /\ ReadLoopTakes(Head(socket).data)
    <3> DEFINE wire == Head(socket).data
    <3> DEFINE data == Extract(RecvConverter, ext_dictionary, wire)
    <3>1. extracted' = extracted \o data
          /\ ext_dictionary' = Remember(RecvConverter, ext_dictionary, data)
      BY <2>4, Zenon DEF ReadLoopTakes
    <3>2. IsSeq(Head(wire).of)
      BY <1>s, <2>1, <2>4, MadeKept
    <3> HIDE DEF wire
    <3>3. IsSeq(data)
      BY <1>k, <3>2, ExtractedIs
    <3> HIDE DEF data
    <3>4. ext_dictionary' = PushMsg(ext_dictionary, data)
      BY <1>k, <3>1, Zenon DEF Remember
    <3>5. /\ IsSeq(extracted \o data)
          /\ PushMsg(LastOf(extracted, DictionarySize), data)
             = LastOf(extracted \o data, DictionarySize)
      BY <1>s, <3>3, Pushed
    <3>6. IsSeq(extracted') /\ ext_dictionary' = LastOf(extracted', DictionarySize)
      BY <1>s, <3>1, <3>4, <3>5, Zenon DEF Windows
    <3>7. QED
      BY <1>s, <2>1, <2>2, <3>6, Zenon DEF Windows
  <2>5. QED
    BY <2>1, <2>3, <2>4
<1>3. CASE ReadCommand
  <2>1. /\ UNCHANGED <<compressed, dictionary, tx_write_message, socket, extracted>>
        /\ ext_dictionary' = Remember(RecvConverter, ext_dictionary,
                                      Extract(RecvConverter, ext_dictionary, <<>>))
    BY <1>3 DEF ReadCommand, sendVars, wsVars
  <2>2. Extract(RecvConverter, ext_dictionary, <<>>) = <<>>
    BY Zenon DEF Extract
  <2>3. ext_dictionary' = PushMsg(ext_dictionary, <<>>)
    BY <1>k, <2>1, <2>2, Zenon DEF Remember
  <2>4. PushMsg(LastOf(extracted, DictionarySize), <<>>) = LastOf(extracted, DictionarySize)
    BY <1>s, PushedNothing
  <2>5. ext_dictionary' = ext_dictionary
    BY <1>s, <2>3, <2>4, Zenon DEF Windows
  <2>6. QED
    BY <1>s, <2>1, <2>5, Zenon DEF Windows
<1>4. CASE Idle /\ ~ReadCommand
  <2>1. UNCHANGED <<compressed, dictionary, tx_write_message, socket, extracted>>
    BY <1>4, IdleIs
  <2>2. ext_dictionary' = ext_dictionary
    BY <1>4 DEF Idle, WriteError, CloserClose, ConnLost, DatagramLost, FramesExpire, ReadCancelled,
       vars, readVars
  <2>3. QED
    BY <1>s, <2>1, <2>2, Zenon DEF Windows
<1>5. CASE WriterClose \/ AnswerPing
  <2>1. UNCHANGED <<compressed, dictionary, socket, extracted, ext_dictionary>>
    BY <1>5 DEF WriterClose, AnswerPing, sendVars, readVars
  <2>2. \E f : tx_write_message' = Append(tx_write_message, f) /\ f.type # "binary"
    <3>1. CASE WriterClose
      <4> DEFINE f == [type |-> "close", data |-> <<>>]
      <4>1. f.type # "binary"
        OBVIOUS
      <4>2. tx_write_message' = Append(tx_write_message, f)
        BY <1>k, <3>1, Zenon DEF WriterClose
      <4> HIDE DEF f
      <4>3. QED
        BY <4>1, <4>2
    <3>2. CASE AnswerPing
      <4> DEFINE f == [type |-> "pong", data |-> <<>>]
      <4>1. f.type # "binary"
        OBVIOUS
      <4>2. tx_write_message' = Append(tx_write_message, f)
        BY <3>2, Zenon DEF AnswerPing
      <4> HIDE DEF f
      <4>3. QED
        BY <4>1, <4>2
    <3>3. QED
      BY <1>5, <3>1, <3>2
  <2>3. MadeOfMessages(tx_write_message')
    BY <1>s, <2>2, MadeKept
  <2>4. QED
    BY <1>s, <2>1, <2>3, Zenon DEF Windows
<1>6. CASE WriteTaskSends
  <2>1. /\ tx_write_message # <<>> /\ tx_write_message' = Tail(tx_write_message)
        /\ socket' = Append(socket, Head(tx_write_message))
        /\ UNCHANGED <<compressed, dictionary, extracted, ext_dictionary>>
    BY <1>6 DEF WriteTaskSends, sendVars, readVars
  <2>2. /\ MadeOfMessages(tx_write_message')
        /\ Head(tx_write_message).type = "binary"
             => IsSeq(Head(Head(tx_write_message).data).of)
    BY <1>s, <2>1, MadeKept
  <2>3. MadeOfMessages(socket')
    BY <1>s, <2>1, <2>2, MadeKept
  <2>4. QED
    BY <1>s, <2>1, <2>2, <2>3, Zenon DEF Windows
<1>7. CASE WriteTaskEnds
  <2>1. /\ tx_write_message' = <<>>
        /\ UNCHANGED <<compressed, dictionary, socket, extracted, ext_dictionary>>
    BY <1>7 DEF WriteTaskEnds, sendVars, readVars
  <2>2. 1 .. Len(<<>>) = {}
    BY EmptyIs
  <2>3. MadeOfMessages(tx_write_message')
    BY <2>1, <2>2, Zenon DEF MadeOfMessages
  <2>4. QED
    BY <1>s, <2>1, <2>3, Zenon DEF Windows
<1>8. CASE ReadError
  <2>1. UNCHANGED <<compressed, dictionary, tx_write_message, socket, extracted, ext_dictionary>>
    BY <1>8 DEF ReadError, sendVars, wsVars
  <2>2. QED
    BY <1>s, <2>1, Zenon DEF Windows
\* The rest are steps of the other lanes.
<1>9. /\ ~\E s \in Streams, len \in StreamLengths : StreamWrite(s, len)
      /\ ~\E len \in DatagramLengths : DatagramWrite(len)
  BY <1>k DEF StreamWrite, DatagramWrite
<1>10. /\ ~AcceptEnds /\ ~StreamRead
       /\ ~\E s \in Streams : Accept(s) \/ TaskRead(s) \/ TaskSend(s) \/ TaskEnds(s)
       /\ ~\E f \in datagrams, check \in BOOLEAN : DatagramRead(f, check)
  BY <1>o DEF AcceptEnds, StreamRead, Accept, TaskRead, TaskSend, TaskEnds
<1>11. QED
  BY <1>1, <1>2, <1>3, <1>4, <1>5, <1>6, <1>7, <1>8, <1>9, <1>10, Steps, Zenon

\* With context takeover the two dictionaries are the windows of what was
\* compressed and extracted, for every size of the window and all lengths of
\* messages: see DictionaryIsWindow.
THEOREM DictionariesAreWindows == Spec => []DictionaryIsWindow
<1>1. Init => LaneInv /\ TakeoverFrames /\ DictionaryIsWindow
  <2> SUFFICES ASSUME Init PROVE TakeoverFrames /\ DictionaryIsWindow
    BY LaneInit
  <2>1. /\ compression \in Compressions /\ Buildable(kind, compression)
        /\ compressed = <<>> /\ extracted = <<>> /\ dictionary = <<>> /\ ext_dictionary = <<>>
        /\ socket = <<>> /\ tx_write_message = <<>>
    BY DEF Init
  <2>2. 1 .. Len(<<>>) = {}
    BY EmptyIs
  <2>3. MadeOfMessages(<<>>)
    BY <2>2, Zenon DEF MadeOfMessages
  <2>4. LastOf(<<>>, DictionarySize) = <<>>
    <3>1. Len(<<>>) <= DictionarySize
      BY EmptyIs, DictionaryAssumption
    <3>2. QED
      BY <3>1, Zenon DEF LastOf
  <2>5. QED
    BY <2>1, <2>3, <2>4, EmptyIs, Zenon DEF TakeoverFrames, DictionaryIsWindow
<1>2. /\ LaneInv /\ TakeoverFrames /\ DictionaryIsWindow /\ [Next]_vars
      => (LaneInv /\ TakeoverFrames /\ DictionaryIsWindow)'
  BY LaneStep, WindowStep, Zenon
<1>3. QED
  BY <1>1, <1>2, PTL DEF Spec
=============================================================================
