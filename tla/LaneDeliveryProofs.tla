------------------------- MODULE LaneDeliveryProofs -------------------------
(***************************************************************************)
(* What arrives at the end of a lane, for every number of streams,          *)
(* messages, lengths, window, segment size and capacities: only what was    *)
(* written, each message once and whole; on a stream or a WebSocket in      *)
(* order and without a gap; and as datagrams all of whose segments arrive.  *)
(***************************************************************************)
EXTENDS LaneProofs

-----------------------------------------------------------------------------
(* The codec *)

\* What deflate makes of a message gives the message back.
LEMMA Deflated ==
    ASSUME NEW dict, NEW data, IsSeq(data)
    PROVE  /\ IsSeq(Deflate(dict, data)) /\ Len(Deflate(dict, data)) > 0
           /\ Inflate(dict, Deflate(dict, data)) = data
<1> DEFINE n == Len(data) \div 2 + 1
<1> DEFINE wire == [i \in 1 .. n |-> [of |-> data, with |-> dict, at |-> i]]
<1>1. n \in Nat /\ 1 \in 1 .. n /\ n > 0
  BY SeqOps
<1>2. Deflate(dict, data) = wire
  BY Zenon DEF Deflate
<1>3. wire[1].of = data /\ "of" \in DOMAIN wire[1]
  <2> HIDE DEF n
  <2>1. wire[1] = [of |-> data, with |-> dict, at |-> 1]
    BY <1>1
  <2>2. QED
    BY <2>1
<1>4. IsSeq(wire) /\ Len(wire) = n
  <2>1. wire = [i \in 1 .. n |-> wire[i]]
    OBVIOUS
  <2> HIDE DEF wire, n
  <2>2. QED
    BY <1>1, <2>1, FunIsSeq
<1> HIDE DEF wire
<1>5. Head(wire) = wire[1]
  <2>1. wire # <<>>
    BY <1>1, <1>4, EmptyIs
  <2>2. QED
    BY <1>4, <2>1, SeqOps
<1>6. Inflate(dict, wire) = data
  BY <1>2, <1>3, <1>5, Zenon DEF Inflate, IsDeflated
<1>7. QED
  BY <1>1, <1>2, <1>4, <1>6

\* extract() with the dictionary of compress() gives the message back.
LEMMA Extracts ==
    ASSUME NEW converter, NEW dict, NEW data, IsSeq(data), Len(data) > 0
    PROVE  /\ IsSeq(Compress(converter, dict, data)) /\ Len(Compress(converter, dict, data)) > 0
           /\ Extract(converter, dict, Compress(converter, dict, data)) = data
<1>1. CASE converter = "none"
  <2>1. Compress(converter, dict, data) = data /\ Extract(converter, dict, data) = data
    BY <1>1, Zenon DEF Compress, Extract
  <2>2. QED
    BY <2>1
<1>2. CASE converter # "none"
  <2>1. Compress(converter, dict, data) = Deflate(dict, data)
    BY <1>2, Zenon DEF Compress
  <2> DEFINE wire == Deflate(dict, data)
  <2>2. IsSeq(wire) /\ Len(wire) > 0 /\ Inflate(dict, wire) = data
    BY Deflated
  <2> HIDE DEF wire
  <2>3. wire # <<>>
    BY <2>2, EmptyIs
  <2>4. Extract(converter, dict, wire) = data
    BY <1>2, <2>2, <2>3, Zenon DEF Extract
  <2>5. QED
    BY <2>1, <2>2, <2>4 DEF wire
<1>3. QED
  BY <1>1, <1>2

\* The peer's converter is the sender's, and only a WebSocket has a window.
LEMMA SameConverter ==
    ASSUME compression \in Compressions, Buildable(kind, compression)
    PROVE  /\ RecvConverter = SendConverter
           /\ kind # "websocket" => SendConverter # "context-takeover"
<1> DEFINE off == [enabled |-> FALSE, level |-> "none", window_bits |-> 0]
<1> DEFINE per == [enabled |-> TRUE, level |-> "some", window_bits |-> 0]
<1> DEFINE win == [enabled |-> TRUE, level |-> "some", window_bits |-> WindowBits]
<1>1. compression \in {off, per, win}
  <2>1. \A c : NewCompression = off /\ Enable(c) = per /\ EnableWithWindowBits(c) = win
               /\ Disable(c) = off
    BY Zenon DEF NewCompression, Enable, EnableWithWindowBits, Disable
  <2> HIDE DEF off, per, win
  <2>2. \A C : C \subseteq {off, per, win} => Configure(C) \subseteq {off, per, win}
    BY <2>1 DEF Configure
  <2>3. {NewCompression} \subseteq {off, per, win}
    BY <2>1
  <2>4. Configure({NewCompression}) \subseteq {off, per, win}
    BY <2>2, <2>3, Zenon
  <2>5. Compressions \subseteq {off, per, win}
    BY <2>2, <2>4, Zenon DEF Compressions
  <2>6. QED
    BY <2>5
<1>2. /\ off.level = "none" /\ ~off.enabled /\ per.level # "none" /\ per.window_bits = 0
      /\ per.enabled /\ win.level # "none" /\ win.enabled /\ win.window_bits # 0
  BY CompressionAssumption
<1>3. /\ Converter(off) = "none" /\ Converter(per) = "per-message"
      /\ Converter(win) = "context-takeover"
  BY <1>2, Zenon DEF Converter
<1> HIDE DEF off, per, win
<1>4. /\ NegotiationParams(off).comp = "none" /\ NegotiationParams(per).comp = "per-message"
      /\ NegotiationParams(win).comp = "context-takeover"
  <2>1. \A c : NegotiationParams(c).comp =
            IF ~c.enabled THEN "none"
            ELSE IF c.window_bits = 0 THEN "per-message" ELSE "context-takeover"
    BY DEF NegotiationParams
  <2>2. QED
    BY <1>2, <2>1, Zenon
<1>5. RecvConverter = SendConverter
  <2>1. Converter(compression) = NegotiationParams(compression).comp
    BY <1>1, <1>3, <1>4
  <2>2. QED
    BY <2>1 DEF RecvConverter, SendConverter, PeerConverter
<1>6. kind # "websocket" => SendConverter # "context-takeover"
  BY Takeover DEF SendConverter
<1>7. QED
  BY <1>5, <1>6

-----------------------------------------------------------------------------
(* What was written *)

\* The dictionary that message n was or will be compressed with.
DictionaryAt(n) == IF n <= Len(sent) THEN sent[n].with ELSE dictionary

\* What the write loop handed to the transport.
Wires == [n \in 1 .. Len(sent) |-> Compress(SendConverter, sent[n].with, sent[n].data)]

\* A message tells its number.  The Compressor's dictionary goes from one message
\* to the next; there is none without context takeover.
SentInv ==
    /\ \A n \in 1 .. Len(sent) :
           /\ IsSeq(sent[n].data) /\ Len(sent[n].data) > 0 /\ sent[n].data[1].msg = n
           /\ DictionaryAt(n + 1) = Remember(SendConverter, sent[n].with, sent[n].data)
    /\ kind # "websocket" => /\ dictionary = <<>> /\ ext_dictionary = <<>>
                             /\ \A n \in 1 .. Len(sent) : sent[n].with = <<>>

\* The dictionaries and the history of what passes them.
HistoryInv == LaneInv /\ TakeoverFrames /\ DictionaryIsWindow /\ SentInv

\* Every step writes a message, reads one, or does neither.
LEMMA Moves ==
    ASSUME [Next]_vars
    PROVE  /\ UNCHANGED <<kind, compression>>
           /\ \/ /\ \E s \in Streams, len \in Nat \ {0} : WriteLoopSends(s, len)
                 /\ UNCHANGED <<ext_dictionary, delivered>>
              \/ (\E wire : ReadLoopTakes(wire)) /\ UNCHANGED <<sent, dictionary>>
              \/ /\ UNCHANGED <<sent, dictionary, delivered>>
                 /\ ext_dictionary' = ext_dictionary \/ ReadCommand
<1> DEFINE Writes == \E s \in Streams, len \in Nat \ {0} : WriteLoopSends(s, len)
<1> DEFINE Reads == \E wire : ReadLoopTakes(wire)
<1>0. OneStream \in Streams
  BY LaneAssumption DEF OneStream
<1>1. CASE Idle
  <2>1. UNCHANGED <<kind, compression, sent, dictionary, delivered>>
    BY <1>1, IdleIs
  <2>2. ext_dictionary' = ext_dictionary \/ ReadCommand
    BY <1>1 DEF Idle, WriteError, CloserClose, ConnLost, DatagramLost, FramesExpire, ReadCancelled,
       vars, readVars
  <2>3. QED
    BY <2>1, <2>2
<1>2. ASSUME NEW s \in Streams, NEW len \in StreamLengths, StreamWrite(s, len)
      PROVE  Writes /\ UNCHANGED <<kind, compression, ext_dictionary, delivered>>
  <2>1. len \in Nat \ {0}
    BY LaneAssumption
  <2>2. WriteLoopSends(s, len) /\ UNCHANGED <<kind, compression, ext_dictionary, delivered>>
    BY <1>2 DEF StreamWrite, WriteLoopSends, readVars
  <2>3. QED
    BY <2>1, <2>2
<1>3. ASSUME NEW len \in SocketLengths, WebSocketWrite(len)
      PROVE  Writes /\ UNCHANGED <<kind, compression, ext_dictionary, delivered>>
  <2>1. len \in Nat \ {0}
    BY LaneAssumption
  <2>2. WriteLoopSends(OneStream, len)
        /\ UNCHANGED <<kind, compression, ext_dictionary, delivered>>
    BY <1>3 DEF WebSocketWrite, WriteLoopSends, readVars
  <2>3. QED
    BY <1>0, <2>1, <2>2
<1>4. ASSUME NEW len \in DatagramLengths, DatagramWrite(len)
      PROVE  Writes /\ UNCHANGED <<kind, compression, ext_dictionary, delivered>>
  <2>1. len \in Nat \ {0}
    BY LaneAssumption
  <2>2. WriteLoopSends(OneStream, len)
        /\ UNCHANGED <<kind, compression, ext_dictionary, delivered>>
    BY <1>4 DEF DatagramWrite, WriteLoopSends, readVars
  <2>3. QED
    BY <1>0, <2>1, <2>2
<1>5. CASE \/ WriterClose \/ AnswerPing \/ WriteTaskSends \/ WriteTaskEnds \/ AcceptEnds
           \/ \E s \in Streams : Accept(s) \/ TaskRead(s) \/ TaskSend(s) \/ TaskEnds(s)
           \/ ReadError
  BY <1>5 DEF WriterClose, AnswerPing, WriteTaskSends, WriteTaskEnds, AcceptEnds, Accept,
     TaskRead, TaskSend, TaskEnds, ReadError, sendVars, readVars
<1>6. CASE \/ StreamRead \/ WebSocketRead
           \/ \E f \in datagrams, check \in BOOLEAN : DatagramRead(f, check)
  <2>1. UNCHANGED <<kind, compression, sent, dictionary>>
    BY <1>6 DEF StreamRead, WebSocketRead, DatagramRead, sendVars
  <2>2. Reads \/ UNCHANGED <<ext_dictionary, delivered>>
    <3>1. CASE StreamRead
      BY <3>1, Zenon DEF StreamRead
    <3>2. CASE WebSocketRead
      BY <3>2 DEF WebSocketRead, readVars
    <3>3. CASE \E f \in datagrams, check \in BOOLEAN : DatagramRead(f, check)
      <4>1. PICK f \in datagrams, check \in BOOLEAN : DatagramRead(f, check)
        BY <3>3
      <4>2. UNCHANGED readVars \/ \E wire : ReadLoopTakes(wire)
        BY <4>1, Zenon DEF DatagramRead
      <4>3. QED
        BY <4>2 DEF readVars
    <3>4. QED
      BY <1>6, <3>1, <3>2, <3>3
  <2>3. QED
    BY <2>1, <2>2
<1>7. QED
  BY <1>1, <1>2, <1>3, <1>4, <1>5, <1>6, Steps, Zenon

\* A command leaves the dictionary of the Extractor as it is.
LEMMA CommandIs ==
    ASSUME TakeoverFrames, DictionaryIsWindow, ReadCommand
    PROVE  ext_dictionary' = ext_dictionary
<1>1. ext_dictionary' = Remember(RecvConverter, ext_dictionary,
                                 Extract(RecvConverter, ext_dictionary, <<>>))
  BY DEF ReadCommand
<1>2. Extract(RecvConverter, ext_dictionary, <<>>) = <<>>
  BY Zenon DEF Extract
<1>3. CASE RecvConverter # "context-takeover"
  BY <1>1, <1>3, Zenon DEF Remember
<1>4. CASE RecvConverter = "context-takeover"
  <2>1. Converter(compression) = "context-takeover"
    BY <1>4, SameConverter DEF TakeoverFrames, SendConverter
  <2>2. IsSeq(extracted) /\ ext_dictionary = LastOf(extracted, DictionarySize)
    BY <2>1, Zenon DEF TakeoverFrames, DictionaryIsWindow
  <2>3. ext_dictionary' = PushMsg(ext_dictionary, <<>>)
    BY <1>1, <1>2, <1>4, Zenon DEF Remember
  <2>4. PushMsg(LastOf(extracted, DictionarySize), <<>>) = LastOf(extracted, DictionarySize)
    BY <2>2, PushedNothing
  <2>5. QED
    BY <2>2, <2>3, <2>4, Zenon
<1>5. QED
  BY <1>3, <1>4

\* A new message.
LEMMA NewIs ==
    ASSUME NEW len \in Nat \ {0}, IsSeq(sent)
    PROVE  /\ IsSeq(NewData(len)) /\ Len(NewData(len)) = len /\ Len(NewData(len)) > 0
           /\ NewData(len)[1].msg = Len(sent) + 1
<1> DEFINE data == NewData(len)
<1>1. IsSeq(data) /\ Len(data) = len
  <2>1. data = [i \in 1 .. len |-> data[i]]
    BY Zenon DEF NewData
  <2> HIDE DEF data
  <2>2. QED
    BY <2>1, FunIsSeq
<1>2. data[1] = [msg |-> Len(sent) + 1, at |-> 1]
  BY DEF NewData
<1>3. data[1].msg = Len(sent) + 1
  <2>1. [msg |-> Len(sent) + 1, at |-> 1].msg = Len(sent) + 1
    OBVIOUS
  <2> HIDE DEF data
  <2>2. QED
    BY <1>2, <2>1, Zenon
<1> HIDE DEF data
<1>4. QED
  BY <1>1, <1>3 DEF data

\* The wire of every message, and that it can be extracted.
LEMMA WiresAre ==
    ASSUME LaneInv, SentInv
    PROVE  /\ Len(sent) \in Nat /\ IsSeq(Wires) /\ Len(Wires) = Len(sent)
           /\ \A n \in 1 .. Len(sent) :
                  /\ Wires[n] = Compress(SendConverter, sent[n].with, sent[n].data)
                  /\ IsSeq(Wires[n]) /\ Len(Wires[n]) > 0
                  /\ Extract(SendConverter, sent[n].with, Wires[n]) = sent[n].data
<1>1. IsSeq(sent)
  BY DEF LaneInv, SeqTypes
<1>2. Len(sent) \in Nat
  BY <1>1, SeqOps
<1>3. IsSeq(Wires) /\ Len(Wires) = Len(sent)
  <2>1. Wires = [n \in 1 .. Len(sent) |-> Wires[n]]
    BY Zenon DEF Wires
  <2>2. QED
    BY <1>2, <2>1, FunIsSeq
<1>4. ASSUME NEW n \in 1 .. Len(sent)
      PROVE  /\ Wires[n] = Compress(SendConverter, sent[n].with, sent[n].data)
             /\ IsSeq(Wires[n]) /\ Len(Wires[n]) > 0
             /\ Extract(SendConverter, sent[n].with, Wires[n]) = sent[n].data
  <2>1. Wires[n] = Compress(SendConverter, sent[n].with, sent[n].data)
    BY Zenon DEF Wires
  <2>2. IsSeq(sent[n].data) /\ Len(sent[n].data) > 0
    BY DEF SentInv
  <2>3. QED
    BY <2>1, <2>2, Extracts
<1>5. QED
  BY <1>2, <1>3, <1>4

\* What a write adds.
LEMMA WriteIs ==
    ASSUME LaneInv, SentInv, UNCHANGED compression,
           NEW s, NEW len \in Nat \ {0}, WriteLoopSends(s, len)
    PROVE  /\ Len(sent) \in Nat /\ Len(sent') = Len(sent) + 1
           /\ \A n \in 1 .. Len(sent) : sent'[n] = sent[n]
           /\ sent'[Len(sent) + 1].stream = s /\ sent'[Len(sent) + 1].with = dictionary
           /\ sent'[Len(sent) + 1].data = NewData(len)
           /\ dictionary' = Remember(SendConverter, dictionary, NewData(len))
           /\ IsSeq(Wires) /\ Len(Wires) = Len(sent) /\ Wires' = Append(Wires, Wire(len))
           /\ IsSeq(Wire(len)) /\ Len(Wire(len)) > 0
<1> DEFINE m == [stream |-> s, data |-> NewData(len), with |-> dictionary]
<1>0. IsSeq(sent)
  BY DEF LaneInv, SeqTypes
<1>1. sent' = Append(sent, m) /\ dictionary' = Remember(SendConverter, dictionary, NewData(len))
  BY DEF WriteLoopSends
<1>2. m.stream = s /\ m.data = NewData(len) /\ m.with = dictionary
  OBVIOUS
<1> HIDE DEF m
<1>3. /\ Len(sent) \in Nat /\ Len(sent') = Len(sent) + 1 /\ sent'[Len(sent) + 1] = m
      /\ \A n \in 1 .. Len(sent) : sent'[n] = sent[n]
  BY <1>0, <1>1, SeqOps
<1>4. IsSeq(Wire(len)) /\ Len(Wire(len)) > 0
  <2>1. IsSeq(NewData(len)) /\ Len(NewData(len)) > 0
    BY <1>0, NewIs
  <2>2. QED
    BY <2>1, Extracts DEF Wire
<1>5. IsSeq(Wires) /\ Len(Wires) = Len(sent)
  BY WiresAre
<1>6. Wires' = Append(Wires, Wire(len))
  <2> DEFINE W == Append(Wires, Wire(len))
  <2>1. /\ IsSeq(W) /\ Len(W) = Len(sent) + 1 /\ W[Len(sent) + 1] = Wire(len)
        /\ \A n \in 1 .. Len(sent) : W[n] = Wires[n]
    BY <1>5, SeqOps
  <2>2. SendConverter' = SendConverter
    BY DEF SendConverter
  <2> HIDE DEF W
  <2>3. ASSUME NEW n \in 1 .. Len(sent')
        PROVE  W[n] = Compress(SendConverter', sent'[n].with, sent'[n].data)
    <3>1. CASE n \in 1 .. Len(sent)
      <4>1. W[n] = Wires[n] /\ sent'[n] = sent[n]
        BY <1>3, <2>1, <3>1
      <4>2. Wires[n] = Compress(SendConverter, sent[n].with, sent[n].data)
        BY <3>1, WiresAre
      <4>3. QED
        BY <2>2, <4>1, <4>2, Zenon
    <3>2. CASE n = Len(sent) + 1
      BY <1>2, <1>3, <2>1, <2>2, <3>2, Zenon DEF Wire
    <3>3. QED
      BY <1>3, <3>1, <3>2
  <2>4. W = [n \in 1 .. Len(sent') |-> W[n]]
    BY <1>3, <2>1 DEF IsSeq
  <2>5. Wires' = [n \in 1 .. Len(sent') |-> W[n]]
    BY <2>3, Zenon DEF Wires
  <2>6. QED
    BY <2>4, <2>5 DEF W
<1>7. QED
  BY <1>1, <1>2, <1>3, <1>4, <1>5, <1>6

\* A step that writes nothing leaves what was written.
LEMMA NoWrite ==
    ASSUME UNCHANGED <<compression, sent, dictionary>>
    PROVE  /\ SendConverter' = SendConverter /\ RecvConverter' = RecvConverter
           /\ Wires' = Wires /\ \A n : DictionaryAt(n)' = DictionaryAt(n)
<1>1. SendConverter' = SendConverter /\ RecvConverter' = RecvConverter
  BY DEF SendConverter, RecvConverter
<1>2. Wires' = Wires
  BY <1>1, Zenon DEF Wires
<1>3. \A n : DictionaryAt(n)' = DictionaryAt(n)
  BY Zenon DEF DictionaryAt
<1>4. QED
  BY <1>1, <1>2, <1>3

\* The history stays in order.
LEMMA SentStep ==
    ASSUME HistoryInv, [Next]_vars PROVE SentInv'
<1>0. /\ LaneInv /\ TakeoverFrames /\ DictionaryIsWindow /\ SentInv
      /\ UNCHANGED <<kind, compression>>
  BY Moves DEF HistoryInv
<1>k. /\ RecvConverter = SendConverter
      /\ kind # "websocket" => SendConverter # "context-takeover"
  BY <1>0, SameConverter DEF TakeoverFrames
<1>1. CASE /\ \E s \in Streams, len \in Nat \ {0} : WriteLoopSends(s, len)
           /\ UNCHANGED <<ext_dictionary, delivered>>
  <2>1. PICK s \in Streams, len \in Nat \ {0} : WriteLoopSends(s, len)
    BY <1>1
  <2>2. /\ Len(sent) \in Nat /\ Len(sent') = Len(sent) + 1
        /\ \A n \in 1 .. Len(sent) : sent'[n] = sent[n]
        /\ sent'[Len(sent) + 1].with = dictionary
        /\ sent'[Len(sent) + 1].data = NewData(len)
        /\ dictionary' = Remember(SendConverter, dictionary, NewData(len))
    BY <1>0, <2>1, WriteIs
  <2>3. SendConverter' = SendConverter
    BY <1>0 DEF SendConverter
  <2>4. /\ IsSeq(NewData(len)) /\ Len(NewData(len)) > 0
        /\ NewData(len)[1].msg = Len(sent) + 1
    BY <1>0, NewIs DEF LaneInv, SeqTypes
  <2>5. ASSUME NEW n \in 1 .. Len(sent')
        PROVE  /\ IsSeq(sent'[n].data) /\ Len(sent'[n].data) > 0 /\ sent'[n].data[1].msg = n
               /\ DictionaryAt(n + 1)' = Remember(SendConverter, sent'[n].with, sent'[n].data)
    <3>1. CASE n \in 1 .. Len(sent)
      <4>1. sent'[n] = sent[n]
        BY <2>2, <3>1
      <4>2. /\ IsSeq(sent[n].data) /\ Len(sent[n].data) > 0 /\ sent[n].data[1].msg = n
            /\ DictionaryAt(n + 1) = Remember(SendConverter, sent[n].with, sent[n].data)
        BY <1>0, <3>1 DEF SentInv
      <4>3. DictionaryAt(n + 1)' = DictionaryAt(n + 1)
        <5>1. CASE n + 1 \in 1 .. Len(sent)
          <6>1. n + 1 <= Len(sent) /\ n + 1 <= Len(sent') /\ sent'[n + 1] = sent[n + 1]
            BY <2>2, <5>1
          <6>2. QED
            BY <6>1, Zenon DEF DictionaryAt
        <5>2. CASE n = Len(sent)
          <6>1. ~(n + 1 <= Len(sent)) /\ n + 1 <= Len(sent')
                /\ sent'[n + 1].with = dictionary
            BY <2>2, <5>2
          <6>2. QED
            BY <6>1, Zenon DEF DictionaryAt
        <5>3. QED
          BY <2>2, <3>1, <5>1, <5>2
      <4>4. QED
        BY <4>1, <4>2, <4>3, Zenon
    <3>2. CASE n = Len(sent) + 1
      <4>1. sent'[n].with = dictionary /\ sent'[n].data = NewData(len)
        BY <2>2, <3>2
      <4>2. ~(n + 1 <= Len(sent'))
        BY <2>2, <3>2
      <4>3. DictionaryAt(n + 1)' = dictionary'
        BY <4>2, Zenon DEF DictionaryAt
      <4>4. QED
        BY <2>2, <2>4, <3>2, <4>1, <4>3, Zenon
    <3>3. QED
      BY <2>2, <3>1, <3>2
  <2>6. ASSUME kind # "websocket"
        PROVE  /\ dictionary' = <<>> /\ ext_dictionary' = <<>>
               /\ \A n \in 1 .. Len(sent') : sent'[n].with = <<>>
    <3>1. /\ dictionary = <<>> /\ ext_dictionary = <<>>
          /\ \A n \in 1 .. Len(sent) : sent[n].with = <<>>
      BY <1>0, <2>6, Zenon DEF SentInv
    <3>2. dictionary' = <<>>
      BY <1>k, <2>2, <2>6, <3>1, Zenon DEF Remember
    <3>3. ASSUME NEW n \in 1 .. Len(sent') PROVE sent'[n].with = <<>>
      <4>1. n \in 1 .. Len(sent) \/ n = Len(sent) + 1
        BY <2>2
      <4>2. QED
        BY <2>2, <3>1, <4>1, Zenon
    <3>4. QED
      BY <1>1, <3>1, <3>2, <3>3, Zenon
  <2>7. QED
    BY <1>0, <2>3, <2>5, <2>6, Zenon DEF SentInv
<1>2. CASE UNCHANGED <<sent, dictionary>>
  <2>1. SendConverter' = SendConverter /\ \A n : DictionaryAt(n)' = DictionaryAt(n)
    BY <1>0, <1>2, NoWrite
  <2>2. kind # "websocket" => ext_dictionary' = <<>>
    <3>1. SUFFICES ASSUME kind # "websocket" PROVE ext_dictionary' = <<>>
      OBVIOUS
    <3>2. ext_dictionary = <<>>
      BY <1>0, <3>1, Zenon DEF SentInv
    <3>3. RecvConverter # "context-takeover"
      BY <1>k, <3>1
    <3>4. CASE \E wire : ReadLoopTakes(wire)
      BY <3>2, <3>3, <3>4, Zenon DEF ReadLoopTakes, Remember
    <3>5. CASE ReadCommand
      BY <3>2, <3>3, <3>5, Zenon DEF ReadCommand, Remember
    <3>6. CASE ext_dictionary' = ext_dictionary
      BY <3>2, <3>6
    <3>7. QED
      BY <3>4, <3>5, <3>6, Moves
  <2>3. QED
    BY <1>0, <1>2, <2>1, <2>2, Zenon DEF SentInv
<1>3. QED
  BY <1>1, <1>2, Moves

\* The history in a step.
LEMMA HistoryStep == ASSUME HistoryInv, [Next]_vars PROVE HistoryInv'
  BY LaneStep, WindowStep, SentStep, Zenon DEF HistoryInv

\* The history at the start.
LEMMA HistoryInit == ASSUME Init PROVE HistoryInv
<1>1. /\ compression \in Compressions /\ Buildable(kind, compression)
      /\ compressed = <<>> /\ extracted = <<>> /\ dictionary = <<>> /\ ext_dictionary = <<>>
      /\ socket = <<>> /\ tx_write_message = <<>> /\ sent = <<>>
  BY DEF Init
<1>2. 1 .. Len(<<>>) = {}
  BY EmptyIs
<1>3. MadeOfMessages(<<>>)
  BY <1>2, Zenon DEF MadeOfMessages
<1>4. LastOf(<<>>, DictionarySize) = <<>>
  <2>1. Len(<<>>) <= DictionarySize
    BY EmptyIs, DictionaryAssumption
  <2>2. QED
    BY <2>1, Zenon DEF LastOf
<1>5. TakeoverFrames /\ DictionaryIsWindow
  BY <1>1, <1>3, <1>4, EmptyIs, Zenon DEF TakeoverFrames, DictionaryIsWindow
<1>6. SentInv
  BY <1>1, <1>2, Zenon DEF SentInv
<1>7. QED
  BY <1>5, <1>6, LaneInit DEF HistoryInv

-----------------------------------------------------------------------------
(* What was delivered *)

\* The messages that were delivered.
Got == {NumberOf(k) : k \in 1 .. Len(delivered)}

\* Messages m and n were written to the same stream.
SameStream(m, n) == sent[m].stream = sent[n].stream

\* Each is one that was written, none came twice and, except as datagrams, none
\* before one that it follows.
DeliveredInv ==
    /\ \A k \in 1 .. Len(delivered) : /\ NumberOf(k) \in 1 .. Len(sent)
                                      /\ delivered[k] = sent[NumberOf(k)].data
    /\ \A k, l \in 1 .. Len(delivered) : NumberOf(k) = NumberOf(l) => k = l
    /\ kind # "datagram" =>
           \A j \in 1 .. Len(delivered) : \A n \in 1 .. NumberOf(j) - 1 :
               SameStream(n, NumberOf(j)) => \E i \in 1 .. j - 1 : NumberOf(i) = n

\* What reaches the decoder next, if the Extractor has the right dictionary.
LEMMA Delivers ==
    ASSUME HistoryInv, DeliveredInv, UNCHANGED <<kind, compression, sent>>,
           NEW n \in 1 .. Len(sent), n \notin Got, ReadLoopTakes(Wires[n]),
           ext_dictionary = sent[n].with,
           kind # "datagram" => \A m \in 1 .. n - 1 : SameStream(m, n) => m \in Got
    PROVE  /\ DeliveredInv' /\ Got' = Got \cup {n}
           /\ Len(delivered) \in Nat /\ Len(delivered') = Len(delivered) + 1
           /\ \A k \in 1 .. Len(delivered) : NumberOf(k)' = NumberOf(k)
           /\ delivered'[Len(delivered) + 1][1].msg = n
           /\ ext_dictionary' = Remember(SendConverter, sent[n].with, sent[n].data)
<1>0. LaneInv /\ SentInv /\ TakeoverFrames /\ IsSeq(delivered)
  BY DEF HistoryInv, LaneInv, SeqTypes
<1>1. /\ delivered' = Append(delivered, sent[n].data)
      /\ ext_dictionary' = Remember(SendConverter, sent[n].with, sent[n].data)
  <2>1. RecvConverter = SendConverter
    BY <1>0, SameConverter DEF TakeoverFrames
  <2>2. Extract(SendConverter, sent[n].with, Wires[n]) = sent[n].data
    BY <1>0, WiresAre
  <2>3. QED
    BY <2>1, <2>2, Zenon DEF ReadLoopTakes
<1>2. /\ Len(delivered) \in Nat /\ Len(delivered') = Len(delivered) + 1
      /\ delivered'[Len(delivered) + 1] = sent[n].data
      /\ \A k \in 1 .. Len(delivered) : delivered'[k] = delivered[k]
  BY <1>0, <1>1, SeqOps
<1>3. \A k \in 1 .. Len(delivered) : NumberOf(k)' = NumberOf(k)
  BY <1>2, Zenon DEF NumberOf
<1>4. delivered'[Len(delivered) + 1][1].msg = n
  <2>1. sent[n].data[1].msg = n
    BY <1>0 DEF SentInv
  <2>2. QED
    BY <1>2, <2>1, Zenon
<1> DEFINE D == 1 .. Len(delivered)
<1>e. PICK e : e = Len(delivered) + 1
  OBVIOUS
<1>n. NumberOf(e)' = n
  BY <1>4, <1>e, Zenon DEF NumberOf
<1>5. /\ 1 .. Len(delivered') = D \cup {e} /\ \A k \in D : k # e
      /\ \A k \in D : 1 .. k - 1 \subseteq D
      /\ 1 .. e - 1 = D
  BY <1>2, <1>e
<1> HIDE DEF D
<1>6. Got' = Got \cup {n}
  <2>1. \A x : x \in Got' <=> \E k \in D \cup {e} : x = NumberOf(k)'
    BY <1>5, Zenon DEF Got
  <2>2. \A x : x \in Got <=> \E k \in D : x = NumberOf(k)
    BY Zenon DEF Got, D
  <2>3. \A k \in D : NumberOf(k)' = NumberOf(k)
    BY <1>3 DEF D
  <2>4. QED
    BY <1>n, <2>1, <2>2, <2>3
<1>7. \A k \in D : NumberOf(k) # n
  BY Zenon DEF Got, D
<1>8. \A k \in D : NumberOf(k) \in 1 .. Len(sent) /\ delivered[k] = sent[NumberOf(k)].data
  BY Zenon DEF DeliveredInv, D
<1>9. \A k \in D \cup {e} : /\ NumberOf(k)' \in 1 .. Len(sent')
                            /\ delivered'[k] = sent'[NumberOf(k)'].data
  <2>1. delivered'[e] = sent[n].data
    BY <1>2, <1>e
  <2>2. QED
    BY <1>2, <1>3, <1>8, <1>n, <2>1, Zenon DEF D
<1>10. \A k, l \in D \cup {e} : NumberOf(k)' = NumberOf(l)' => k = l
  <2>1. \A k, l \in D : NumberOf(k) = NumberOf(l) => k = l
    BY Zenon DEF DeliveredInv, D
  <2>2. \A k \in D : NumberOf(k)' = NumberOf(k)
    BY <1>3 DEF D
  <2>3. QED
    BY <1>7, <1>n, <2>1, <2>2, Zenon
<1>11. ASSUME kind # "datagram", NEW j \in D \cup {e}, NEW m \in 1 .. NumberOf(j)' - 1,
              SameStream(m, NumberOf(j))'
       PROVE  \E i \in 1 .. j - 1 : NumberOf(i)' = m
  <2>1. CASE j \in D
    <3>1. NumberOf(j)' = NumberOf(j)
      BY <1>3, <2>1 DEF D
    <3>2. m \in 1 .. NumberOf(j) - 1
      BY <1>11, <3>1
    <3>3. SameStream(m, NumberOf(j))
      BY <1>11, <3>1, Zenon DEF SameStream
    <3>4. PICK i \in 1 .. j - 1 : NumberOf(i) = m
      BY <1>11, <2>1, <3>2, <3>3, Zenon DEF DeliveredInv, D
    <3>5. NumberOf(i)' = m
      BY <1>3, <1>5, <2>1, <3>4, Zenon DEF D
    <3>6. QED
      BY <3>5
  <2>2. CASE j = e
    <3>1. NumberOf(j)' = n
      BY <1>n, <2>2
    <3>2. m \in 1 .. n - 1
      BY <1>11, <3>1
    <3>3. SameStream(m, n)
      BY <1>11, <3>1, Zenon DEF SameStream
    <3>4. m \in Got
      BY <1>11, <3>2, <3>3
    <3>5. PICK i \in D : NumberOf(i) = m
      BY <3>4, Zenon DEF Got, D
    <3>6. NumberOf(i)' = m /\ i \in 1 .. e - 1
      BY <1>3, <1>5, <3>5, Zenon DEF D
    <3>7. QED
      BY <2>2, <3>6
  <2>3. QED
    BY <2>1, <2>2, <1>11
<1>12. DeliveredInv'
  <2>1. 1 .. Len(delivered') = D \cup {e}
    BY <1>5
  <2>2. QED
    BY <1>9, <1>10, <1>11, <2>1, Zenon DEF DeliveredInv
<1>13. QED
  BY <1>1, <1>2, <1>3, <1>4, <1>6, <1>12

\* A step that delivers nothing.
LEMMA NotDelivers ==
    ASSUME HistoryInv, DeliveredInv, [Next]_vars, UNCHANGED delivered
    PROVE  DeliveredInv' /\ Got' = Got /\ \A k : NumberOf(k)' = NumberOf(k)
<1>1. \A k : NumberOf(k)' = NumberOf(k)
  BY Zenon DEF NumberOf
<1>2. Got' = Got
  BY <1>1, Zenon DEF Got
<1>3. kind' = kind
  BY Moves
<1>4. /\ 1 .. Len(sent) \subseteq 1 .. Len(sent')
      /\ \A n \in 1 .. Len(sent) : sent'[n] = sent[n]
  <2>0. LaneInv /\ SentInv /\ UNCHANGED compression
    BY Moves DEF HistoryInv
  <2>1. CASE sent' = sent
    BY <2>1
  <2>2. CASE \E s \in Streams, len \in Nat \ {0} : WriteLoopSends(s, len)
    <3>1. PICK s \in Streams, len \in Nat \ {0} : WriteLoopSends(s, len)
      BY <2>2
    <3>2. /\ Len(sent) \in Nat /\ Len(sent') = Len(sent) + 1
          /\ \A n \in 1 .. Len(sent) : sent'[n] = sent[n]
      BY <2>0, <3>1, WriteIs
    <3>3. QED
      BY <3>2
  <2>3. QED
    BY <2>1, <2>2, Moves
<1>5. ASSUME NEW k \in 1 .. Len(delivered)
      PROVE  /\ NumberOf(k) \in 1 .. Len(sent') /\ delivered[k] = sent'[NumberOf(k)].data
             /\ \A n \in 1 .. NumberOf(k) - 1 : sent'[n] = sent[n]
             /\ sent'[NumberOf(k)] = sent[NumberOf(k)]
  <2>1. NumberOf(k) \in 1 .. Len(sent) /\ delivered[k] = sent[NumberOf(k)].data
    BY Zenon DEF DeliveredInv
  <2>2. sent'[NumberOf(k)] = sent[NumberOf(k)]
    BY <1>4, <2>1
  <2>3. Len(sent) \in Nat
    BY SeqOps DEF HistoryInv, LaneInv, SeqTypes
  <2>4. 1 .. NumberOf(k) - 1 \subseteq 1 .. Len(sent)
    BY <2>1, <2>3
  <2>5. QED
    BY <1>4, <2>1, <2>2, <2>4, Zenon
<1>6. ASSUME kind # "datagram", NEW j \in 1 .. Len(delivered), NEW n \in 1 .. NumberOf(j) - 1,
             SameStream(n, NumberOf(j))'
      PROVE  \E i \in 1 .. j - 1 : NumberOf(i) = n
  <2>1. SameStream(n, NumberOf(j))
    BY <1>1, <1>5, <1>6, Zenon DEF SameStream
  <2>2. QED
    BY <1>6, <2>1, Zenon DEF DeliveredInv
<1>7. DeliveredInv'
  <2>1. \A k \in 1 .. Len(delivered') : /\ NumberOf(k)' \in 1 .. Len(sent')
                                        /\ delivered'[k] = sent'[NumberOf(k)'].data
    BY <1>1, <1>5, Zenon
  <2>2. \A k, l \in 1 .. Len(delivered') : NumberOf(k)' = NumberOf(l)' => k = l
    BY <1>1, Zenon DEF DeliveredInv
  <2>3. kind' # "datagram" =>
            \A j \in 1 .. Len(delivered') : \A n \in 1 .. NumberOf(j)' - 1 :
                SameStream(n, NumberOf(j))' => \E i \in 1 .. j - 1 : NumberOf(i)' = n
    BY <1>1, <1>3, <1>6, Zenon
  <2>4. QED
    BY <2>1, <2>2, <2>3, Zenon DEF DeliveredInv
<1>8. QED
  BY <1>1, <1>2, <1>7

\* What the invariant says of the two properties.
LEMMA DeliveredIs ==
    ASSUME LaneInv, DeliveredInv PROVE DeliveredIsSent /\ InOrderWithoutGap
<1>1. DOMAIN delivered = 1 .. Len(delivered) /\ DOMAIN sent = 1 .. Len(sent)
  <2>1. IsSeq(sent) /\ IsSeq(delivered)
    BY DEF LaneInv, SeqTypes
  <2>2. QED
    BY <2>1 DEF IsSeq
<1>2. Range(delivered) \subseteq {sent[n].data : n \in DOMAIN sent}
  <2>1. \A k \in DOMAIN delivered : \E n \in DOMAIN sent : delivered[k] = sent[n].data
    BY <1>1, Zenon DEF DeliveredInv
  <2>2. \A x \in Range(delivered) : \E k \in DOMAIN delivered : x = delivered[k]
    BY Zenon DEF Range
  <2>3. QED
    BY <2>1, <2>2, Zenon
<1>3. IsInjective(delivered)
  <2> SUFFICES ASSUME NEW k \in DOMAIN delivered, NEW l \in DOMAIN delivered,
                      delivered[k] = delivered[l]
               PROVE  k = l
    BY Zenon DEF IsInjective
  <2>1. NumberOf(k) = NumberOf(l)
    BY Zenon DEF NumberOf
  <2>2. QED
    BY <1>1, <2>1, Zenon DEF DeliveredInv
<1>4. InOrderWithoutGap
  BY <1>1, Zenon DEF InOrderWithoutGap, DeliveredInv, SameStream
<1>5. QED
  BY <1>2, <1>3, <1>4 DEF DeliveredIsSent

-----------------------------------------------------------------------------
(* WebSocket *)

\* c counts the messages up to each frame of q.
Counts(c, q, W) ==
    /\ c \in [0 .. Len(q) -> 0 .. Len(W)]
    /\ \A i \in 1 .. Len(q) :
           /\ q[i].type = "binary" => c[i] = c[i - 1] + 1 /\ q[i].data = W[c[i]]
           /\ q[i].type # "binary" => c[i] = c[i - 1]

\* The frames of q carry the messages a + 1 to b of W.
Carries(q, a, b, W) == \E c : Counts(c, q, W) /\ c[0] = a /\ c[Len(q)] = b

\* Nothing carries nothing.
LEMMA CarriesNone ==
    ASSUME NEW W, NEW a \in 0 .. Len(W) PROVE Carries(<<>>, a, a, W)
<1> DEFINE c == [i \in {0} |-> a]
<1>1. 0 .. Len(<<>>) = {0} /\ 1 .. Len(<<>>) = {}
  BY EmptyIs
<1>2. c \in [0 .. Len(<<>>) -> 0 .. Len(W)] /\ c[0] = a /\ c[Len(<<>>)] = a
  BY <1>1, EmptyIs
<1> HIDE DEF c
<1>3. Counts(c, <<>>, W)
  BY <1>1, <1>2, Zenon DEF Counts
<1>4. QED
  BY <1>2, <1>3 DEF Carries

\* What is carried is among the messages.
LEMMA CarriesRange ==
    ASSUME NEW q, IsSeq(q), NEW W, NEW a, NEW b, Carries(q, a, b, W)
    PROVE  a \in 0 .. Len(W) /\ b \in 0 .. Len(W)
<1>1. PICK c : Counts(c, q, W) /\ c[0] = a /\ c[Len(q)] = b
  BY DEF Carries
<1>2. Len(q) \in Nat
  BY SeqOps
<1>3. 0 \in 0 .. Len(q) /\ Len(q) \in 0 .. Len(q)
  BY <1>2
<1>4. c \in [0 .. Len(q) -> 0 .. Len(W)]
  BY <1>1, Zenon DEF Counts
<1>5. QED
  BY <1>1, <1>3, <1>4

\* A message more to write.
LEMMA CarriesMore ==
    ASSUME NEW q, IsSeq(q), NEW W, IsSeq(W), NEW a, NEW b, Carries(q, a, b, W), NEW x
    PROVE  Carries(q, a, b, Append(W, x))
<1> DEFINE V == Append(W, x)
<1>1. PICK c : Counts(c, q, W) /\ c[0] = a /\ c[Len(q)] = b
  BY DEF Carries
<1>2. Len(W) \in Nat /\ Len(V) = Len(W) + 1 /\ \A i \in 1 .. Len(W) : V[i] = W[i]
  BY SeqOps
<1>3. Len(q) \in Nat
  BY SeqOps
<1> HIDE DEF V
<1>4. c \in [0 .. Len(q) -> 0 .. Len(W)]
  BY <1>1, Zenon DEF Counts
<1>5. c \in [0 .. Len(q) -> 0 .. Len(V)]
  BY <1>2, <1>4
<1>6. ASSUME NEW i \in 1 .. Len(q), q[i].type = "binary"
      PROVE  c[i] = c[i - 1] + 1 /\ q[i].data = V[c[i]]
  <2>1. c[i] = c[i - 1] + 1 /\ q[i].data = W[c[i]]
    BY <1>1, <1>6, Zenon DEF Counts
  <2>2. i - 1 \in 0 .. Len(q) /\ i \in 0 .. Len(q)
    BY <1>3
  <2>3. c[i] \in 1 .. Len(W)
    BY <1>2, <1>4, <2>1, <2>2
  <2>4. QED
    BY <1>2, <2>1, <2>3
<1>7. \A i \in 1 .. Len(q) : q[i].type # "binary" => c[i] = c[i - 1]
  BY <1>1, Zenon DEF Counts
<1>8. Counts(c, q, V)
  BY <1>5, <1>6, <1>7, Zenon DEF Counts
<1>9. QED
  BY <1>1, <1>8 DEF Carries, V

\* A frame more in the queue.
LEMMA CarriesAppend ==
    ASSUME NEW q, IsSeq(q), NEW W, IsSeq(W), NEW a, NEW b, Carries(q, a, b, W), NEW f
    PROVE  /\ f.type = "binary" /\ b + 1 <= Len(W) /\ f.data = W[b + 1]
                => Carries(Append(q, f), a, b + 1, W)
           /\ f.type # "binary" => Carries(Append(q, f), a, b, W)
<1> DEFINE p == Append(q, f)
<1>1. PICK c : Counts(c, q, W) /\ c[0] = a /\ c[Len(q)] = b
  BY DEF Carries
<1>2. /\ Len(q) \in Nat /\ Len(p) = Len(q) + 1 /\ p[Len(q) + 1] = f
      /\ \A i \in 1 .. Len(q) : p[i] = q[i]
  BY SeqOps
<1> HIDE DEF p
<1>3. Len(W) \in Nat /\ b \in 0 .. Len(W)
  BY CarriesRange, SeqOps
<1>4. c \in [0 .. Len(q) -> 0 .. Len(W)]
  BY <1>1, Zenon DEF Counts
<1>5. ASSUME NEW e \in 0 .. Len(W),
             f.type = "binary" => e = b + 1 /\ f.data = W[e],
             f.type # "binary" => e = b
      PROVE  Carries(p, a, e, W)
  <2> DEFINE d == [i \in 0 .. Len(p) |-> IF i <= Len(q) THEN c[i] ELSE e]
  <2>1. /\ \A i \in 0 .. Len(q) : i \in 0 .. Len(p) /\ i <= Len(q)
        /\ Len(q) + 1 \in 0 .. Len(p) /\ ~(Len(q) + 1 <= Len(q))
        /\ \A i \in 0 .. Len(p) : i \in 0 .. Len(q) \/ i = Len(q) + 1
    BY <1>2
  <2>2. (\A i \in 0 .. Len(q) : d[i] = c[i]) /\ d[Len(q) + 1] = e
    BY <2>1, Zenon
  <2>3. d \in [0 .. Len(p) -> 0 .. Len(W)]
    <3>1. \A i \in 0 .. Len(p) : d[i] \in 0 .. Len(W)
      BY <1>4, <1>5, <2>1, <2>2
    <3>2. QED
      BY <3>1, Zenon
  <2> HIDE DEF d
  <2>4. ASSUME NEW i \in 1 .. Len(p)
        PROVE  /\ p[i].type = "binary" => d[i] = d[i - 1] + 1 /\ p[i].data = W[d[i]]
               /\ p[i].type # "binary" => d[i] = d[i - 1]
    <3>1. CASE i \in 1 .. Len(q)
      <4>1. i \in 0 .. Len(q) /\ i - 1 \in 0 .. Len(q)
        BY <1>2, <3>1
      <4>2. d[i] = c[i] /\ d[i - 1] = c[i - 1] /\ p[i] = q[i]
        BY <1>2, <2>2, <3>1, <4>1
      <4>3. QED
        BY <1>1, <3>1, <4>2, Zenon DEF Counts
    <3>2. CASE i = Len(q) + 1
      <4>1. i - 1 = Len(q) /\ Len(q) \in 0 .. Len(q)
        BY <1>2, <3>2
      <4>2. d[i] = e /\ d[i - 1] = b /\ p[i] = f
        BY <1>1, <1>2, <2>2, <3>2, <4>1
      <4>3. QED
        BY <1>5, <4>2, Zenon
    <3>3. QED
      BY <1>2, <3>1, <3>2
  <2>5. Counts(d, p, W)
    BY <2>3, <2>4, Zenon DEF Counts
  <2>6. 0 \in 0 .. Len(q) /\ Len(p) = Len(q) + 1
    BY <1>2
  <2>7. d[0] = a /\ d[Len(p)] = e
    BY <1>1, <2>2, <2>6, Zenon
  <2>8. QED
    BY <2>5, <2>7 DEF Carries
<1>6. ASSUME f.type = "binary", b + 1 <= Len(W), f.data = W[b + 1]
      PROVE  Carries(p, a, b + 1, W)
  <2>1. b + 1 \in 0 .. Len(W)
    BY <1>3, <1>6
  <2>2. QED
    BY <1>5, <1>6, <2>1
<1>7. ASSUME f.type # "binary" PROVE Carries(p, a, b, W)
  BY <1>3, <1>5, <1>7
<1>8. QED
  BY <1>6, <1>7 DEF p

\* A frame less.
LEMMA CarriesTail ==
    ASSUME NEW q, IsSeq(q), q # <<>>, NEW W, IsSeq(W), NEW a, NEW b, Carries(q, a, b, W)
    PROVE  /\ Head(q).type = "binary" =>
                  /\ a + 1 \in 1 .. Len(W) /\ Head(q).data = W[a + 1]
                  /\ Carries(Tail(q), a + 1, b, W)
           /\ Head(q).type # "binary" => Carries(Tail(q), a, b, W)
<1> DEFINE p == Tail(q)
<1>1. PICK c : Counts(c, q, W) /\ c[0] = a /\ c[Len(q)] = b
  BY DEF Carries
<1>2. /\ Len(q) \in Nat /\ Len(p) = Len(q) - 1 /\ Len(q) >= 1 /\ Head(q) = q[1]
      /\ \A i \in 1 .. Len(q) - 1 : p[i] = q[i + 1]
  BY SeqOps
<1> HIDE DEF p
<1>3. Len(W) \in Nat /\ a \in 0 .. Len(W)
  BY CarriesRange, SeqOps
<1>4. c \in [0 .. Len(q) -> 0 .. Len(W)]
  BY <1>1, Zenon DEF Counts
<1>5. /\ Head(q).type = "binary" => c[1] = a + 1 /\ Head(q).data = W[a + 1]
      /\ Head(q).type # "binary" => c[1] = a
  <2>1. 1 \in 1 .. Len(q) /\ 1 - 1 = 0
    BY <1>2
  <2>2. /\ q[1].type = "binary" => c[1] = c[1 - 1] + 1 /\ q[1].data = W[c[1]]
        /\ q[1].type # "binary" => c[1] = c[1 - 1]
    BY <1>1, <2>1, Zenon DEF Counts
  <2>3. c[1 - 1] = a
    BY <1>1, <2>1
  <2>4. QED
    BY <1>2, <2>2, <2>3, Zenon
<1>6. c[1] \in 0 .. Len(W)
  <2>1. 1 \in 0 .. Len(q)
    BY <1>2
  <2>2. QED
    BY <1>4, <2>1
<1>7. Carries(p, c[1], b, W)
  <2> DEFINE d == [i \in 0 .. Len(p) |-> c[i + 1]]
  <2>1. \A i \in 0 .. Len(p) : d[i] = c[i + 1]
    OBVIOUS
  <2>2. d \in [0 .. Len(p) -> 0 .. Len(W)]
    <3>1. \A i \in 0 .. Len(p) : i + 1 \in 0 .. Len(q)
      BY <1>2
    <3>2. \A i \in 0 .. Len(p) : c[i + 1] \in 0 .. Len(W)
      BY <1>4, <3>1
    <3>3. QED
      BY <3>2
  <2> HIDE DEF d
  <2>3. ASSUME NEW i \in 1 .. Len(p)
        PROVE  /\ p[i].type = "binary" => d[i] = d[i - 1] + 1 /\ p[i].data = W[d[i]]
               /\ p[i].type # "binary" => d[i] = d[i - 1]
    <3>1. /\ i \in 0 .. Len(p) /\ i - 1 \in 0 .. Len(p) /\ (i - 1) + 1 = i
          /\ i + 1 \in 1 .. Len(q) /\ (i + 1) - 1 = i /\ i \in 1 .. Len(q) - 1
      BY <1>2
    <3>2. d[i] = c[i + 1] /\ d[i - 1] = c[i] /\ p[i] = q[i + 1]
      <4>1. d[i - 1] = c[(i - 1) + 1]
        BY <2>1, <3>1
      <4>2. QED
        BY <1>2, <2>1, <3>1, <4>1
    <3>3. /\ q[i + 1].type = "binary" => c[i + 1] = c[(i + 1) - 1] + 1
                                         /\ q[i + 1].data = W[c[i + 1]]
          /\ q[i + 1].type # "binary" => c[i + 1] = c[(i + 1) - 1]
      BY <1>1, <3>1, Zenon DEF Counts
    <3>4. QED
      BY <3>1, <3>2, <3>3, Zenon
  <2>4. Counts(d, p, W)
    BY <2>2, <2>3, Zenon DEF Counts
  <2>5. 0 \in 0 .. Len(p) /\ Len(p) \in 0 .. Len(p) /\ Len(p) + 1 = Len(q) /\ 0 + 1 = 1
    BY <1>2
  <2>6. d[0] = c[1] /\ d[Len(p)] = b
    BY <1>1, <2>1, <2>5, Zenon
  <2>7. QED
    BY <2>4, <2>6 DEF Carries
<1>8. ASSUME Head(q).type = "binary"
      PROVE  a + 1 \in 1 .. Len(W) /\ Head(q).data = W[a + 1] /\ Carries(p, a + 1, b, W)
  <2>1. c[1] = a + 1 /\ Head(q).data = W[a + 1]
    BY <1>5, <1>8
  <2>2. a + 1 \in 1 .. Len(W)
    BY <1>3, <1>6, <2>1
  <2>3. QED
    BY <1>7, <2>1, <2>2
<1>9. ASSUME Head(q).type # "binary" PROVE Carries(p, a, b, W)
  BY <1>5, <1>7, <1>9
<1>10. QED
  BY <1>8, <1>9 DEF p

\* A write leaves the dictionaries of the messages before it.
LEMMA DictionaryKept ==
    ASSUME LaneInv, SentInv, UNCHANGED compression, NEW s, NEW len \in Nat \ {0},
           WriteLoopSends(s, len), NEW n \in 1 .. Len(sent) + 1
    PROVE  DictionaryAt(n)' = DictionaryAt(n)
<1>1. /\ Len(sent) \in Nat /\ Len(sent') = Len(sent) + 1
      /\ \A i \in 1 .. Len(sent) : sent'[i] = sent[i]
      /\ sent'[Len(sent) + 1].with = dictionary
  BY WriteIs
<1>2. n <= Len(sent')
  BY <1>1
<1>3. CASE n \in 1 .. Len(sent)
  <2>1. n <= Len(sent) /\ sent'[n] = sent[n]
    BY <1>1, <1>3
  <2>2. QED
    BY <1>2, <2>1, Zenon DEF DictionaryAt
<1>4. CASE n = Len(sent) + 1
  <2>1. ~(n <= Len(sent)) /\ sent'[n].with = dictionary
    BY <1>1, <1>4
  <2>2. QED
    BY <1>2, <2>1, Zenon DEF DictionaryAt
<1>5. QED
  BY <1>1, <1>3, <1>4

\* What the socket and, while the task runs, the queue carry.
Queued(m) ==
    /\ Carries(socket, Len(delivered), m, Wires)
    /\ write_task = "run" => Carries(tx_write_message, m, Len(sent), Wires)

\* The socket carries the messages that follow the delivered ones, and the queue
\* those after them, up to the last one.
SocketInv ==
    kind = "websocket" =>
        /\ \A k \in 1 .. Len(delivered) : NumberOf(k) = k
        /\ ext_dictionary = DictionaryAt(Len(delivered) + 1)
        /\ \E m : Queued(m)

\* The messages pass through the queue and the socket in order.
LEMMA SocketStep ==
    ASSUME HistoryInv, DeliveredInv, SocketInv, [Next]_vars, kind = "websocket"
    PROVE  DeliveredInv' /\ SocketInv'
<1>0. /\ LaneInv /\ SentInv /\ TakeoverFrames /\ DictionaryIsWindow
      /\ UNCHANGED <<kind, compression>>
  BY Moves DEF HistoryInv
<1>s. IsSeq(socket) /\ IsSeq(tx_write_message) /\ IsSeq(delivered) /\ IsSeq(sent)
  BY <1>0 DEF LaneInv, SeqTypes
<1>o. rx_recv_bytes = <<>> /\ datagrams = {} /\ accept_loop = "ended"
      /\ \A s \in Streams : task[s] = "none"
  BY <1>0 DEF LaneInv, OneLane
<1>w. /\ Len(sent) \in Nat /\ IsSeq(Wires) /\ Len(Wires) = Len(sent) /\ Len(delivered) \in Nat
  BY <1>0, <1>s, WiresAre, SeqOps
<1>i. /\ \A k \in 1 .. Len(delivered) : NumberOf(k) = k
      /\ ext_dictionary = DictionaryAt(Len(delivered) + 1)
      /\ \E m : Queued(m)
  BY Zenon DEF SocketInv
<1>m. PICK m : Queued(m)
  BY <1>i
<1>q. /\ Carries(socket, Len(delivered), m, Wires)
      /\ write_task = "run" => Carries(tx_write_message, m, Len(sent), Wires)
  BY <1>m DEF Queued
<1>1. ASSUME NEW len \in SocketLengths, WebSocketWrite(len)
      PROVE  DeliveredInv' /\ SocketInv'
  <2> DEFINE f == [type |-> "binary", data |-> Wire(len)]
  <2>1. /\ tx_write_message' = Append(tx_write_message, f) /\ write_task = "run"
        /\ UNCHANGED <<socket, write_task, delivered, ext_dictionary>>
        /\ WriteLoopSends(OneStream, len)
    BY <1>1 DEF WebSocketWrite, readVars
  <2>2. f.type = "binary" /\ f.data = Wire(len)
    OBVIOUS
  <2> HIDE DEF f
  <2>3. len \in Nat \ {0}
    BY LaneAssumption
  <2> DEFINE W == Append(Wires, Wire(len))
  <2>4. Len(sent') = Len(sent) + 1 /\ Wires' = W
    BY <1>0, <2>1, <2>3, WriteIs
  <2>5. IsSeq(W) /\ Len(W) = Len(sent) + 1 /\ W[Len(sent) + 1] = Wire(len)
    BY <1>w, SeqOps
  <2>6. /\ Carries(socket, Len(delivered), m, W)
        /\ Carries(tx_write_message, m, Len(sent), W)
    BY <1>q, <1>s, <1>w, <2>1, CarriesMore
  <2> HIDE DEF W
  <2>7. Carries(Append(tx_write_message, f), m, Len(sent) + 1, W)
    <3>1. Len(sent) + 1 <= Len(W)
      BY <1>w, <2>5
    <3>2. QED
      BY <1>s, <2>2, <2>5, <2>6, <3>1, CarriesAppend
  <2>8. Queued(m)'
    BY <2>1, <2>4, <2>6, <2>7, Zenon DEF Queued
  <2>9. Len(delivered) + 1 \in 1 .. Len(sent) + 1
    <3>1. Len(delivered) \in 0 .. Len(Wires)
      BY <1>q, <1>s, CarriesRange
    <3>2. QED
      BY <1>w, <3>1
  <2>10. ext_dictionary' = DictionaryAt(Len(delivered) + 1)'
    <3>1. PICK n : n = Len(delivered) + 1
      OBVIOUS
    <3>2. DictionaryAt(n)' = DictionaryAt(n)
      BY <1>0, <2>1, <2>3, <2>9, <3>1, DictionaryKept
    <3>3. QED
      BY <1>i, <2>1, <3>1, <3>2, Zenon
  <2>11. DeliveredInv' /\ \A k : NumberOf(k)' = NumberOf(k)
    BY <2>1, NotDelivers
  <2>12. QED
    BY <1>i, <2>1, <2>8, <2>10, <2>11, Zenon DEF SocketInv
<1>n. ASSUME UNCHANGED <<sent, dictionary, delivered>>,
             ext_dictionary' = ext_dictionary, \E n : Queued(n)'
      PROVE  DeliveredInv' /\ SocketInv'
  <2>1. DeliveredInv' /\ \A k : NumberOf(k)' = NumberOf(k)
    BY <1>n, NotDelivers
  <2>2. \A n : DictionaryAt(n)' = DictionaryAt(n)
    BY <1>0, <1>n, NoWrite
  <2>3. QED
    BY <1>i, <1>n, <2>1, <2>2, Zenon DEF SocketInv
<1>2. CASE WebSocketRead
  <2>1. /\ socket # <<>> /\ socket' = Tail(socket)
        /\ UNCHANGED <<sent, dictionary, tx_write_message, write_task>>
    BY <1>2 DEF WebSocketRead, sendVars
  <2>2. Wires' = Wires
    BY <1>0, <2>1, NoWrite
  <2>3. CASE Head(socket).type = "binary"
    <3>p. PICK n : n = Len(delivered) + 1
      OBVIOUS
    <3>1. /\ n \in 1 .. Len(Wires) /\ Head(socket).data = Wires[n]
          /\ Carries(Tail(socket), n, m, Wires)
      BY <1>q, <1>s, <1>w, <2>1, <2>3, <3>p, CarriesTail
    <3>2. ReadLoopTakes(Wires[n])
      <4>1. Head(socket).type # "close" /\ Head(socket).type # "pong"
        BY <2>3
      <4>2. ReadLoopTakes(Head(socket).data)
        BY <1>2, <4>1, Zenon DEF WebSocketRead
      <4>3. QED
        BY <3>1, <4>2, Zenon
    <3>3. n \in 1 .. Len(sent) /\ n <= Len(sent) /\ n \notin 1 .. Len(delivered)
          /\ 1 .. n - 1 = 1 .. Len(delivered)
      BY <1>w, <3>1, <3>p
    <3>4. ext_dictionary = sent[n].with
      BY <1>i, <3>3, <3>p, Zenon DEF DictionaryAt
    <3>5. n \notin Got /\ \A k \in 1 .. n - 1 : k \in Got
      BY <1>i, <3>3, Zenon DEF Got
    <3>6. /\ DeliveredInv' /\ Len(delivered') = n
          /\ \A k \in 1 .. Len(delivered) : NumberOf(k)' = NumberOf(k)
          /\ delivered'[n][1].msg = n
          /\ ext_dictionary' = Remember(SendConverter, sent[n].with, sent[n].data)
      BY <1>0, <2>1, <3>2, <3>3, <3>4, <3>5, <3>p, Delivers
    <3>7. ASSUME NEW k \in 1 .. Len(delivered') PROVE NumberOf(k)' = k
      <4>1. k \in 1 .. Len(delivered) \/ k = n
        BY <1>w, <3>6, <3>p
      <4>2. NumberOf(n)' = n
        BY <3>6, Zenon DEF NumberOf
      <4>3. QED
        BY <1>i, <3>6, <4>1, <4>2, Zenon
    <3>8. ext_dictionary' = DictionaryAt(n + 1)'
      <4>1. DictionaryAt(n + 1) = Remember(SendConverter, sent[n].with, sent[n].data)
        BY <1>0, <3>3, Zenon DEF SentInv
      <4>2. PICK e : e = n + 1
        OBVIOUS
      <4>3. DictionaryAt(e)' = DictionaryAt(e)
        BY <1>0, <2>1, NoWrite
      <4>4. QED
        BY <3>6, <4>1, <4>2, <4>3, Zenon
    <3>9. Queued(m)'
      BY <1>q, <2>1, <2>2, <3>1, <3>6, Zenon DEF Queued
    <3>10. QED
      BY <3>6, <3>7, <3>8, <3>9, Zenon DEF SocketInv
  <2>4. CASE Head(socket).type # "binary"
    <3>1. Carries(Tail(socket), Len(delivered), m, Wires)
      BY <1>q, <1>s, <1>w, <2>1, <2>4, CarriesTail
    <3>2. UNCHANGED <<delivered, ext_dictionary>>
      BY <1>2, <2>4 DEF WebSocketRead, readVars
    <3>3. Queued(m)'
      BY <1>q, <2>1, <2>2, <3>1, <3>2, Zenon DEF Queued
    <3>4. QED
      BY <1>n, <2>1, <3>2, <3>3
  <2>5. QED
    BY <2>3, <2>4
<1>3. CASE WriteTaskSends
  <2>1. /\ tx_write_message # <<>> /\ tx_write_message' = Tail(tx_write_message)
        /\ socket' = Append(socket, Head(tx_write_message)) /\ write_task = "run"
        /\ UNCHANGED <<sent, dictionary, delivered, ext_dictionary, write_task>>
    BY <1>3 DEF WriteTaskSends, sendVars, readVars
  <2>2. Wires' = Wires
    BY <1>0, <2>1, NoWrite
  <2> DEFINE f == Head(tx_write_message)
  <2>3. CASE f.type = "binary"
    <3>1. /\ m + 1 \in 1 .. Len(Wires) /\ f.data = Wires[m + 1]
          /\ Carries(Tail(tx_write_message), m + 1, Len(sent), Wires)
      BY <1>q, <1>s, <1>w, <2>1, <2>3, CarriesTail
    <3> HIDE DEF f
    <3>2. m + 1 <= Len(Wires)
      BY <3>1
    <3>3. Carries(Append(socket, f), Len(delivered), m + 1, Wires)
      BY <1>q, <1>s, <1>w, <2>3, <3>1, <3>2, CarriesAppend
    <3>4. Queued(m + 1)'
      BY <2>1, <2>2, <3>1, <3>3, Zenon DEF Queued, f
    <3>5. QED
      BY <1>n, <2>1, <3>4
  <2>4. CASE f.type # "binary"
    <3>1. Carries(Tail(tx_write_message), m, Len(sent), Wires)
      BY <1>q, <1>s, <1>w, <2>1, <2>4, CarriesTail
    <3> HIDE DEF f
    <3>2. Carries(Append(socket, f), Len(delivered), m, Wires)
      BY <1>q, <1>s, <1>w, <2>4, CarriesAppend
    <3>3. Queued(m)'
      BY <2>1, <2>2, <3>1, <3>2, Zenon DEF Queued, f
    <3>4. QED
      BY <1>n, <2>1, <3>3
  <2>5. QED
    BY <2>3, <2>4
<1>4. CASE WriteTaskEnds
  <2>1. UNCHANGED <<sent, dictionary, delivered, ext_dictionary, socket>>
        /\ write_task' # "run"
    BY <1>4 DEF WriteTaskEnds, sendVars, readVars
  <2>2. Wires' = Wires
    BY <1>0, <2>1, NoWrite
  <2>3. Queued(m)'
    BY <1>q, <2>1, <2>2, Zenon DEF Queued
  <2>4. QED
    BY <1>n, <2>1, <2>3
<1>5. CASE WriterClose \/ AnswerPing
  <2>1. UNCHANGED <<sent, dictionary, delivered, ext_dictionary, socket, write_task>>
    BY <1>5 DEF WriterClose, AnswerPing, sendVars, readVars
  <2>2. Wires' = Wires
    BY <1>0, <2>1, NoWrite
  <2>3. \E f : tx_write_message' = Append(tx_write_message, f) /\ f.type # "binary"
    <3>1. CASE WriterClose
      <4> DEFINE f == [type |-> "close", data |-> <<>>]
      <4>1. f.type # "binary"
        OBVIOUS
      <4>2. tx_write_message' = Append(tx_write_message, f)
        BY <3>1, Zenon DEF WriterClose
      <4> HIDE DEF f
      <4>3. QED
        BY <4>1, <4>2
    <3>2. CASE AnswerPing
      <4> DEFINE f == [type |-> "pong", data |-> <<>>]
      <4>1. f.type # "binary"
        OBVIOUS
      <4>2. tx_write_message' = Append(tx_write_message, f)
        BY <3>2, Zenon DEF AnswerPing
      <4> HIDE DEF f
      <4>3. QED
        BY <4>1, <4>2
    <3>3. QED
      BY <1>5, <3>1, <3>2
  <2>4. PICK f : tx_write_message' = Append(tx_write_message, f) /\ f.type # "binary"
    BY <2>3
  <2>5. write_task = "run" => Carries(Append(tx_write_message, f), m, Len(sent), Wires)
    BY <1>q, <1>s, <1>w, <2>4, CarriesAppend
  <2>6. Queued(m)'
    BY <1>q, <2>1, <2>2, <2>4, <2>5, Zenon DEF Queued
  <2>7. QED
    BY <1>n, <2>1, <2>6
<1>6. CASE Idle \/ ReadError
  <2>1. UNCHANGED <<sent, dictionary, delivered, socket, tx_write_message, write_task>>
    <3>1. CASE Idle
      BY <3>1, IdleIs
    <3>2. CASE ReadError
      BY <3>2 DEF ReadError, sendVars, wsVars
    <3>3. QED
      BY <1>6, <3>1, <3>2
  <2>2. ext_dictionary' = ext_dictionary
    <3>1. CASE ReadCommand
      BY <1>0, <3>1, CommandIs
    <3>2. CASE ~ReadCommand
      BY <1>6, <3>2 DEF Idle, WriteError, CloserClose, ConnLost, DatagramLost, FramesExpire,
         ReadCancelled, ReadError, vars, readVars
    <3>3. QED
      BY <3>1, <3>2
  <2>3. Wires' = Wires
    BY <1>0, <2>1, NoWrite
  <2>4. Queued(m)'
    BY <1>q, <2>1, <2>3, Zenon DEF Queued
  <2>5. QED
    BY <1>n, <2>1, <2>2, <2>4
\* The rest are steps of the other lanes.
<1>9. /\ ~\E s \in Streams, len \in StreamLengths : StreamWrite(s, len)
      /\ ~\E len \in DatagramLengths : DatagramWrite(len)
  BY DEF StreamWrite, DatagramWrite
<1>10. /\ ~AcceptEnds /\ ~StreamRead
       /\ ~\E s \in Streams : Accept(s) \/ TaskRead(s) \/ TaskSend(s) \/ TaskEnds(s)
       /\ ~\E f \in datagrams, check \in BOOLEAN : DatagramRead(f, check)
  BY <1>o DEF AcceptEnds, StreamRead, Accept, TaskRead, TaskSend, TaskEnds
<1>11. QED
  BY <1>1, <1>2, <1>3, <1>4, <1>5, <1>6, <1>9, <1>10, Steps, Zenon

-----------------------------------------------------------------------------
(* Streams *)

\* One sequence after another.
LEMMA Joining ==
    ASSUME NEW a, IsSeq(a), NEW b, IsSeq(b)
    PROVE  /\ IsSeq(a \o b) /\ Len(a \o b) = Len(a) + Len(b)
           /\ \A i \in 1 .. Len(a) : (a \o b)[i] = a[i]
           /\ \A i \in 1 .. Len(b) : (a \o b)[Len(a) + i] = b[i]
<1> DEFINE S == Range(a) \cup Range(b)
<1> DEFINE q == a \o b
<1>1. a \in Seq(S) /\ b \in Seq(S)
  <2>1. a \in Seq(Range(a)) /\ b \in Seq(Range(b))
    BY DEF IsSeq
  <2>2. QED
    BY <2>1
<1> HIDE DEF S
<1>2. /\ q \in Seq(S) /\ Len(q) = Len(a) + Len(b)
      /\ \A i \in 1 .. Len(q) : q[i] = IF i <= Len(a) THEN a[i] ELSE b[i - Len(a)]
  BY <1>1, Joins
<1>3. Len(a) \in Nat /\ Len(b) \in Nat
  BY <1>1
<1> HIDE DEF q
<1>4. ASSUME NEW i \in 1 .. Len(a) PROVE q[i] = a[i]
  <2>1. i \in 1 .. Len(q) /\ i <= Len(a)
    BY <1>2, <1>3
  <2>2. QED
    BY <1>2, <2>1
<1>5. ASSUME NEW i \in 1 .. Len(b) PROVE q[Len(a) + i] = b[i]
  <2>1. Len(a) + i \in 1 .. Len(q) /\ ~(Len(a) + i <= Len(a)) /\ (Len(a) + i) - Len(a) = i
    BY <1>2, <1>3
  <2>2. q[Len(a) + i] = b[(Len(a) + i) - Len(a)]
    BY <1>2, <2>1
  <2>3. QED
    BY <2>1, <2>2
<1>6. IsSeq(q)
  BY <1>2, SeqIs
<1>7. QED
  BY <1>2, <1>4, <1>5, <1>6 DEF q

\* A sequence of one element.
LEMMA Single == \A x : IsSeq(<<x>>) /\ Len(<<x>>) = 1 /\ <<x>>[1] = x
<1> SUFFICES ASSUME NEW x PROVE IsSeq(<<x>>) /\ Len(<<x>>) = 1 /\ <<x>>[1] = x
  OBVIOUS
<1>1. <<x>> \in Seq({x}) /\ Len(<<x>>) = 1 /\ <<x>>[1] = x
  OBVIOUS
<1>2. QED
  BY <1>1, SeqIs

\* The elements i to j of a sequence.
LEMMA Between ==
    ASSUME NEW q, IsSeq(q), NEW i \in Nat, NEW j \in Nat, 1 <= i, i <= j + 1, j <= Len(q)
    PROVE  /\ IsSeq(SubSeq(q, i, j)) /\ Len(SubSeq(q, i, j)) = j - i + 1
           /\ \A k \in 1 .. j - i + 1 : SubSeq(q, i, j)[k] = q[i + k - 1]
<1> DEFINE S == Range(q)
<1>1. q \in Seq(S)
  BY DEF IsSeq
<1> HIDE DEF S
<1>2. Len(q) \in Nat
  BY <1>1
<1> DEFINE p == SubSeq(q, i, j)
<1>3. /\ p \in Seq(S) /\ Len(p) = j - i + 1
      /\ \A k \in 1 .. j - i + 1 : p[k] = q[i + k - 1]
  BY <1>1, <1>2
<1> HIDE DEF p
<1>4. IsSeq(p)
  BY <1>3, SeqIs
<1>5. QED
  BY <1>3, <1>4 DEF p

\* Sequences that agree are the same.
LEMMA SameSeq ==
    ASSUME NEW a, IsSeq(a), NEW b, IsSeq(b), Len(a) = Len(b),
           \A i \in 1 .. Len(a) : a[i] = b[i]
    PROVE  a = b
<1>1. a = [i \in 1 .. Len(a) |-> a[i]] /\ b = [i \in 1 .. Len(b) |-> b[i]]
  BY DEF IsSeq
<1>2. QED
  BY <1>1

\* Bytes b are the messages ns of W, each after its length; message i ends at c[i].
Framing(c, b, ns, W) ==
    /\ c \in [0 .. Len(ns) -> 0 .. Len(b)] /\ c[0] = 0 /\ c[Len(ns)] = Len(b)
    /\ \A i, j \in 0 .. Len(ns) : i <= j => c[i] <= c[j]
    /\ \A i \in 1 .. Len(ns) :
           /\ ns[i] \in 1 .. Len(W) /\ c[i] = c[i - 1] + 1 + Len(W[ns[i]])
           /\ b[c[i - 1] + 1] = Len(W[ns[i]])
           /\ \A j \in 1 .. Len(W[ns[i]]) : b[c[i - 1] + 1 + j] = W[ns[i]][j]

Framed(b, ns, W) == \E c : Framing(c, b, ns, W)

\* No bytes, no message.
LEMMA FramedNone == \A W : Framed(<<>>, <<>>, W)
<1> SUFFICES ASSUME NEW W PROVE Framed(<<>>, <<>>, W)
  OBVIOUS
<1> DEFINE c == [i \in {0} |-> 0]
<1>1. 0 .. Len(<<>>) = {0} /\ 1 .. Len(<<>>) = {} /\ Len(<<>>) = 0
  BY EmptyIs
<1>2. c \in [{0} -> {0}] /\ c[0] = 0 /\ 0 <= 0
  OBVIOUS
<1> HIDE DEF c
<1>3. /\ c \in [0 .. Len(<<>>) -> 0 .. Len(<<>>)] /\ c[0] = 0 /\ c[Len(<<>>)] = Len(<<>>)
      /\ \A i, j \in 0 .. Len(<<>>) : i <= j => c[i] <= c[j]
  BY <1>1, <1>2
<1>4. Framing(c, <<>>, <<>>, W)
  BY <1>1, <1>3, Zenon DEF Framing
<1>5. QED
  BY <1>4 DEF Framed

\* A message more to choose from.
LEMMA FramedMore ==
    ASSUME NEW W, IsSeq(W), NEW x, NEW b, NEW ns, Framed(b, ns, W)
    PROVE  Framed(b, ns, Append(W, x))
<1> DEFINE V == Append(W, x)
<1>1. PICK c : Framing(c, b, ns, W)
  BY DEF Framed
<1>2. Len(W) \in Nat /\ Len(V) = Len(W) + 1 /\ \A i \in 1 .. Len(W) : V[i] = W[i]
  BY SeqOps
<1> HIDE DEF V
<1>3. ASSUME NEW i \in 1 .. Len(ns)
      PROVE  ns[i] \in 1 .. Len(W) /\ ns[i] \in 1 .. Len(V) /\ V[ns[i]] = W[ns[i]]
  <2>1. ns[i] \in 1 .. Len(W)
    BY <1>1, Zenon DEF Framing
  <2>2. QED
    BY <1>2, <2>1
<1>4. Framing(c, b, ns, V)
  <2>1. ASSUME NEW i \in 1 .. Len(ns)
        PROVE  /\ ns[i] \in 1 .. Len(V) /\ c[i] = c[i - 1] + 1 + Len(V[ns[i]])
               /\ b[c[i - 1] + 1] = Len(V[ns[i]])
               /\ \A j \in 1 .. Len(V[ns[i]]) : b[c[i - 1] + 1 + j] = V[ns[i]][j]
    <3>1. /\ c[i] = c[i - 1] + 1 + Len(W[ns[i]])
          /\ b[c[i - 1] + 1] = Len(W[ns[i]])
          /\ \A j \in 1 .. Len(W[ns[i]]) : b[c[i - 1] + 1 + j] = W[ns[i]][j]
      BY <1>1, Zenon DEF Framing
    <3>2. QED
      BY <1>3, <3>1, Zenon
  <2>2. /\ c \in [0 .. Len(ns) -> 0 .. Len(b)] /\ c[0] = 0 /\ c[Len(ns)] = Len(b)
        /\ \A i, j \in 0 .. Len(ns) : i <= j => c[i] <= c[j]
    BY <1>1, Zenon DEF Framing
  <2>3. QED
    BY <2>1, <2>2, Zenon DEF Framing
<1>5. QED
  BY <1>4 DEF Framed, V

\* A message more in the stream.
LEMMA FramedAppend ==
    ASSUME NEW b, IsSeq(b), NEW ns, IsSeq(ns), NEW W, Framed(b, ns, W),
           NEW n \in 1 .. Len(W), IsSeq(W[n])
    PROVE  /\ IsSeq(b \o <<Len(W[n])>> \o W[n])
           /\ Framed(b \o <<Len(W[n])>> \o W[n], Append(ns, n), W)
<1> DEFINE w == W[n]
<1> DEFINE h == b \o <<Len(w)>>
<1> DEFINE p == h \o w
<1> DEFINE ms == Append(ns, n)
<1>0. IsSeq(w) /\ Len(w) \in Nat /\ Len(b) \in Nat
  BY SeqOps
<1> HIDE DEF w
<1>1. /\ IsSeq(h) /\ Len(h) = Len(b) + 1 /\ h[Len(b) + 1] = Len(w)
      /\ \A i \in 1 .. Len(b) : h[i] = b[i]
  <2> DEFINE l == <<Len(w)>>
  <2>1. IsSeq(l) /\ Len(l) = 1 /\ l[1] = Len(w) /\ 1 \in 1 .. 1
    BY Single
  <2> HIDE DEF l
  <2>2. /\ IsSeq(b \o l) /\ Len(b \o l) = Len(b) + Len(l)
        /\ \A i \in 1 .. Len(b) : (b \o l)[i] = b[i]
        /\ \A i \in 1 .. Len(l) : (b \o l)[Len(b) + i] = l[i]
    <3>1. IsSeq(l)
      BY <2>1
    <3>2. QED
      BY <3>1, Joining
  <2>3. h = b \o l
    BY DEF l
  <2> HIDE DEF h
  <2>4. QED
    BY <2>1, <2>2, <2>3
<1> HIDE DEF h
<1>2. /\ IsSeq(p) /\ Len(p) = Len(b) + 1 + Len(w)
      /\ \A i \in 1 .. Len(h) : p[i] = h[i]
      /\ \A i \in 1 .. Len(w) : p[Len(h) + i] = w[i]
  <2>1. /\ IsSeq(p) /\ Len(p) = Len(h) + Len(w)
        /\ \A i \in 1 .. Len(h) : p[i] = h[i]
        /\ \A i \in 1 .. Len(w) : p[Len(h) + i] = w[i]
    <3>1. IsSeq(h) /\ IsSeq(w)
      BY <1>0, <1>1
    <3>2. QED
      BY <3>1, Joining
  <2> HIDE DEF p
  <2>2. QED
    BY <1>1, <2>1
<1> HIDE DEF p
<1>3. /\ \A i \in 1 .. Len(b) : p[i] = b[i]
      /\ p[Len(b) + 1] = Len(w)
      /\ \A i \in 1 .. Len(w) : p[Len(b) + 1 + i] = w[i]
  BY <1>0, <1>1, <1>2
<1>4. /\ Len(ns) \in Nat /\ Len(ms) = Len(ns) + 1 /\ ms[Len(ns) + 1] = n
      /\ \A i \in 1 .. Len(ns) : ms[i] = ns[i]
  BY SeqOps
<1> HIDE DEF ms
<1>5. PICK c : Framing(c, b, ns, W)
  BY DEF Framed
<1>6. /\ c \in [0 .. Len(ns) -> 0 .. Len(b)] /\ c[0] = 0 /\ c[Len(ns)] = Len(b)
      /\ \A i, j \in 0 .. Len(ns) : i <= j => c[i] <= c[j]
  BY <1>5, Zenon DEF Framing
<1> DEFINE d == [i \in 0 .. Len(ms) |-> IF i <= Len(ns) THEN c[i] ELSE Len(p)]
<1>7. /\ \A i \in 0 .. Len(ns) : i \in 0 .. Len(ms) /\ i <= Len(ns)
      /\ Len(ns) + 1 \in 0 .. Len(ms) /\ ~(Len(ns) + 1 <= Len(ns))
      /\ \A i \in 0 .. Len(ms) : i \in 0 .. Len(ns) \/ i = Len(ns) + 1
  BY <1>4
<1>8. (\A i \in 0 .. Len(ns) : d[i] = c[i]) /\ d[Len(ns) + 1] = Len(p)
  BY <1>7, Zenon
<1>9. d \in [0 .. Len(ms) -> 0 .. Len(p)]
  <2>1. \A i \in 0 .. Len(ns) : c[i] \in 0 .. Len(p)
    BY <1>0, <1>2, <1>6
  <2>2. Len(p) \in 0 .. Len(p)
    BY <1>0, <1>2
  <2>3. \A i \in 0 .. Len(ms) : d[i] \in 0 .. Len(p)
    BY <1>7, <1>8, <2>1, <2>2, Zenon
  <2>4. QED
    BY <2>3, Zenon
<1> HIDE DEF d
<1>10. d[0] = 0 /\ d[Len(ms)] = Len(p)
  <2>1. 0 \in 0 .. Len(ns)
    BY <1>4
  <2>2. QED
    BY <1>4, <1>6, <1>8, <2>1, Zenon
<1>11. ASSUME NEW i \in 0 .. Len(ms), NEW j \in 0 .. Len(ms), i <= j PROVE d[i] <= d[j]
  <2>1. CASE j \in 0 .. Len(ns)
    <3>1. i \in 0 .. Len(ns)
      BY <1>4, <1>11, <2>1
    <3>2. QED
      BY <1>6, <1>8, <1>11, <2>1, <3>1
  <2>2. CASE j = Len(ns) + 1
    <3>1. d[i] \in 0 .. Len(p) /\ d[j] = Len(p)
      BY <1>8, <1>9, <2>2
    <3>2. QED
      BY <3>1
  <2>3. QED
    BY <1>7, <2>1, <2>2
<1>12. ASSUME NEW i \in 1 .. Len(ms)
       PROVE  /\ ms[i] \in 1 .. Len(W) /\ d[i] = d[i - 1] + 1 + Len(W[ms[i]])
              /\ p[d[i - 1] + 1] = Len(W[ms[i]])
              /\ \A j \in 1 .. Len(W[ms[i]]) : p[d[i - 1] + 1 + j] = W[ms[i]][j]
  <2>1. CASE i \in 1 .. Len(ns)
    <3>1. i \in 0 .. Len(ns) /\ i - 1 \in 0 .. Len(ns)
      BY <1>4, <2>1
    <3>2. d[i] = c[i] /\ d[i - 1] = c[i - 1] /\ ms[i] = ns[i]
      BY <1>4, <1>8, <2>1, <3>1
    <3> DEFINE k == c[i - 1]
    <3> DEFINE v == W[ns[i]]
    <3>3. /\ ns[i] \in 1 .. Len(W) /\ c[i] = k + 1 + Len(v)
          /\ b[k + 1] = Len(v) /\ \A j \in 1 .. Len(v) : b[k + 1 + j] = v[j]
      BY <1>5, <2>1, Zenon DEF Framing
    <3>4. k \in 0 .. Len(b) /\ c[i] \in 0 .. Len(b)
      BY <1>6, <3>1
    <3>n. Len(v) \in Int
      BY <3>3, <3>4
    <3> HIDE DEF k, v
    <3>5. k + 1 \in 1 .. Len(b) /\ \A j \in 1 .. Len(v) : k + 1 + j \in 1 .. Len(b)
      BY <1>0, <3>3, <3>4, <3>n
    <3>6. p[k + 1] = Len(v) /\ \A j \in 1 .. Len(v) : p[k + 1 + j] = v[j]
      BY <1>3, <3>3, <3>5, Zenon
    <3>7. QED
      BY <3>2, <3>3, <3>6, Zenon DEF k, v
  <2>2. CASE i = Len(ns) + 1
    <3>1. i - 1 = Len(ns) /\ Len(ns) \in 0 .. Len(ns)
      BY <1>4, <2>2
    <3>2. d[i] = Len(p) /\ d[i - 1] = Len(b) /\ ms[i] = n
      BY <1>4, <1>6, <1>8, <2>2, <3>1, Zenon
    <3>3. QED
      BY <1>2, <1>3, <3>2, Zenon DEF w
  <2>3. QED
    BY <1>4, <2>1, <2>2
<1>13. Framing(d, p, ms, W)
  BY <1>9, <1>10, <1>11, <1>12, Zenon DEF Framing
<1>14. QED
  BY <1>2, <1>13 DEF Framed, ms, p, h, w

\* A message less: as many bytes as its length says are the message.
LEMMA FramedTake ==
    ASSUME NEW b, IsSeq(b), NEW ns, IsSeq(ns), NEW W, Framed(b, ns, W), b # <<>>,
           \A i \in 1 .. Len(W) : IsSeq(W[i])
    PROVE  /\ ns # <<>> /\ Head(b) \in Nat
           /\ Len(b) > Head(b) =>
                  /\ SubSeq(b, 2, Head(b) + 1) = W[Head(ns)]
                  /\ IsSeq(SubSeq(b, Head(b) + 2, Len(b)))
                  /\ Framed(SubSeq(b, Head(b) + 2, Len(b)), Tail(ns), W)
<1>1. PICK c : Framing(c, b, ns, W)
  BY DEF Framed
<1>2. /\ c \in [0 .. Len(ns) -> 0 .. Len(b)] /\ c[0] = 0 /\ c[Len(ns)] = Len(b)
      /\ \A i, j \in 0 .. Len(ns) : i <= j => c[i] <= c[j]
  BY <1>1, Zenon DEF Framing
<1>3. Len(b) \in Nat /\ Len(b) >= 1 /\ Head(b) = b[1]
  BY SeqOps
<1>4. ns # <<>>
  <2>1. Len(ns) # 0
    BY <1>2, <1>3
  <2>2. QED
    BY <2>1, EmptyIs
<1> DEFINE ms == Tail(ns)
<1>5. /\ Len(ns) \in Nat /\ Len(ns) >= 1 /\ Head(ns) = ns[1] /\ Len(ms) = Len(ns) - 1
      /\ \A i \in 1 .. Len(ns) - 1 : ms[i] = ns[i + 1]
  BY <1>4, SeqOps
<1> HIDE DEF ms
<1> DEFINE w == W[ns[1]]
<1> DEFINE l == Len(w)
<1>6. 1 \in 1 .. Len(ns) /\ 1 - 1 = 0 /\ 0 + 1 = 1
  BY <1>5
<1>7. ns[1] \in 1 .. Len(W) /\ c[1] = 1 + l /\ b[1] = l /\ \A j \in 1 .. l : b[1 + j] = w[j]
  <2>1. /\ ns[1] \in 1 .. Len(W) /\ c[1] = c[1 - 1] + 1 + l /\ b[c[1 - 1] + 1] = l
        /\ \A j \in 1 .. l : b[c[1 - 1] + 1 + j] = w[j]
    BY <1>1, <1>6, Zenon DEF Framing
  <2>2. c[1 - 1] = 0
    BY <1>2, <1>6
  <2> HIDE DEF l, w
  <2>3. QED
    BY <1>6, <2>1, <2>2, Zenon
<1>8. IsSeq(w) /\ l \in Nat
  BY <1>7, SeqOps
<1> HIDE DEF l, w
<1>9. Head(b) = l
  BY <1>3, <1>7
<1>10. SUFFICES ASSUME Len(b) > l
                PROVE  /\ SubSeq(b, 2, l + 1) = w
                       /\ IsSeq(SubSeq(b, l + 2, Len(b)))
                       /\ Framed(SubSeq(b, l + 2, Len(b)), ms, W)
  BY <1>4, <1>5, <1>8, <1>9 DEF ms, w
<1>11. SubSeq(b, 2, l + 1) = w
  <2> DEFINE v == SubSeq(b, 2, l + 1)
  <2>1. 2 \in Nat /\ l + 1 \in Nat /\ 1 <= 2 /\ 2 <= (l + 1) + 1 /\ l + 1 <= Len(b)
        /\ (l + 1) - 2 + 1 = l
    BY <1>3, <1>8, <1>10
  <2>2. IsSeq(v) /\ Len(v) = l /\ \A k \in 1 .. l : v[k] = b[2 + k - 1]
    BY <2>1, Between
  <2> HIDE DEF v
  <2>3. \A k \in 1 .. l : 2 + k - 1 = 1 + k
    BY <1>8
  <2>4. \A k \in 1 .. l : v[k] = w[k]
    BY <1>7, <2>2, <2>3
  <2>5. Len(w) = l
    BY DEF l
  <2>6. v = w
    BY <1>8, <2>2, <2>4, <2>5, SameSeq
  <2>7. QED
    BY <2>6 DEF v
<1> DEFINE p == SubSeq(b, l + 2, Len(b))
<1>12. IsSeq(p) /\ Len(p) = Len(b) - (l + 1)
       /\ \A k \in 1 .. Len(p) : p[k] = b[l + 1 + k]
  <2>1. /\ l + 2 \in Nat /\ 1 <= l + 2 /\ l + 2 <= Len(b) + 1 /\ Len(b) <= Len(b)
        /\ Len(b) - (l + 2) + 1 = Len(b) - (l + 1)
    BY <1>3, <1>8, <1>10
  <2>2. /\ IsSeq(p) /\ Len(p) = Len(b) - (l + 2) + 1
        /\ \A k \in 1 .. Len(b) - (l + 2) + 1 : p[k] = b[l + 2 + k - 1]
    BY <1>3, <2>1, Between
  <2> HIDE DEF p
  <2>3. \A k \in 1 .. Len(p) : l + 2 + k - 1 = l + 1 + k
    BY <1>8
  <2>4. QED
    BY <2>1, <2>2, <2>3
<1> HIDE DEF p
<1> DEFINE d == [i \in 0 .. Len(ms) |-> c[i + 1] - (l + 1)]
<1>13. \A i \in 0 .. Len(ms) : i + 1 \in 0 .. Len(ns) /\ i + 1 \in 1 .. Len(ns) /\ 1 <= i + 1
  BY <1>5
<1>14. \A i \in 0 .. Len(ms) : /\ c[i + 1] \in 0 .. Len(b) /\ c[i + 1] >= l + 1
                               /\ d[i] = c[i + 1] - (l + 1)
  <2>1. 1 \in 0 .. Len(ns) /\ c[1] = l + 1
    BY <1>5, <1>7, <1>8
  <2>2. QED
    BY <1>2, <1>13, <2>1
<1> HIDE DEF d
<1>15. d \in [0 .. Len(ms) -> 0 .. Len(p)]
  <2>1. \A i \in 0 .. Len(ms) : d[i] \in 0 .. Len(p)
    BY <1>3, <1>8, <1>12, <1>14
  <2>2. d = [i \in 0 .. Len(ms) |-> d[i]]
    BY DEF d
  <2>3. QED
    BY <2>1, <2>2
<1>16. d[0] = 0 /\ d[Len(ms)] = Len(p)
  <2>1. /\ 0 \in 0 .. Len(ms) /\ Len(ms) \in 0 .. Len(ms) /\ Len(ms) + 1 = Len(ns)
        /\ c[1] = l + 1 /\ 0 + 1 = 1
    BY <1>5, <1>7, <1>8
  <2>2. d[0] = c[1] - (l + 1) /\ d[Len(ms)] = c[Len(ns)] - (l + 1)
    BY <1>14, <2>1
  <2>3. QED
    BY <1>2, <1>8, <1>12, <2>1, <2>2
<1>17. ASSUME NEW i \in 0 .. Len(ms), NEW j \in 0 .. Len(ms), i <= j PROVE d[i] <= d[j]
  <2>1. i + 1 <= j + 1
    BY <1>5, <1>17
  <2>2. c[i + 1] <= c[j + 1]
    BY <1>2, <1>13, <2>1
  <2>3. d[i] = c[i + 1] - (l + 1) /\ d[j] = c[j + 1] - (l + 1)
    BY <1>14
  <2>4. c[i + 1] \in Int /\ c[j + 1] \in Int
    BY <1>14
  <2>5. \A x, y \in Int : x <= y => x - (l + 1) <= y - (l + 1)
    BY <1>8
  <2>6. QED
    BY <2>2, <2>3, <2>4, <2>5, Zenon
<1>18. ASSUME NEW i \in 1 .. Len(ms)
       PROVE  /\ ms[i] \in 1 .. Len(W) /\ d[i] = d[i - 1] + 1 + Len(W[ms[i]])
              /\ p[d[i - 1] + 1] = Len(W[ms[i]])
              /\ \A j \in 1 .. Len(W[ms[i]]) : p[d[i - 1] + 1 + j] = W[ms[i]][j]
  <2>1. /\ i \in 0 .. Len(ms) /\ i - 1 \in 0 .. Len(ms) /\ (i - 1) + 1 = i
        /\ i + 1 \in 1 .. Len(ns) /\ (i + 1) - 1 = i /\ i \in 1 .. Len(ns) - 1
    BY <1>5
  <2> DEFINE k == c[i]
  <2> DEFINE v == W[ns[i + 1]]
  <2>2. ms[i] = ns[i + 1]
    BY <1>5, <2>1
  <2>3. /\ ns[i + 1] \in 1 .. Len(W) /\ c[i + 1] = c[(i + 1) - 1] + 1 + Len(v)
        /\ b[c[(i + 1) - 1] + 1] = Len(v)
        /\ \A j \in 1 .. Len(v) : b[c[(i + 1) - 1] + 1 + j] = v[j]
    BY <1>1, <2>1, Zenon DEF Framing
  <2>4. /\ c[i + 1] = k + 1 + Len(v) /\ b[k + 1] = Len(v)
        /\ \A j \in 1 .. Len(v) : b[k + 1 + j] = v[j]
    BY <2>1, <2>3
  <2>5. Len(v) \in Nat
    BY <2>3, SeqOps
  <2>6. /\ d[i - 1] = k - (l + 1) /\ d[i] = c[i + 1] - (l + 1) /\ k \in Nat /\ k >= l + 1
        /\ c[i + 1] \in 0 .. Len(b)
    <3>1. d[i - 1] = c[(i - 1) + 1] - (l + 1) /\ c[(i - 1) + 1] >= l + 1
          /\ c[(i - 1) + 1] \in 0 .. Len(b)
      BY <1>14, <2>1
    <3>2. d[i] = c[i + 1] - (l + 1) /\ c[i + 1] \in 0 .. Len(b)
      BY <1>14, <2>1
    <3>3. QED
      BY <1>3, <2>1, <3>1, <3>2
  <2> HIDE DEF k, v
  <2>7. /\ d[i] = d[i - 1] + 1 + Len(v)
        /\ d[i - 1] + 1 \in 1 .. Len(p) /\ l + 1 + (d[i - 1] + 1) = k + 1
        /\ \A j \in 1 .. Len(v) : /\ d[i - 1] + 1 + j \in 1 .. Len(p)
                                  /\ l + 1 + (d[i - 1] + 1 + j) = k + 1 + j
    BY <1>3, <1>8, <1>12, <2>4, <2>5, <2>6
  <2>8. p[d[i - 1] + 1] = Len(v)
    <3>1. p[d[i - 1] + 1] = b[l + 1 + (d[i - 1] + 1)]
      BY <1>12, <2>7
    <3>2. QED
      BY <2>4, <2>7, <3>1
  <2>9. ASSUME NEW j \in 1 .. Len(v) PROVE p[d[i - 1] + 1 + j] = v[j]
    <3>1. p[d[i - 1] + 1 + j] = b[l + 1 + (d[i - 1] + 1 + j)]
      BY <1>12, <2>7
    <3>2. b[k + 1 + j] = v[j] /\ l + 1 + (d[i - 1] + 1 + j) = k + 1 + j
      BY <2>4, <2>7
    <3>3. QED
      BY <3>1, <3>2, Zenon
  <2>10. QED
    BY <2>2, <2>3, <2>7, <2>8, <2>9, Zenon DEF v
<1>19. Framing(d, p, ms, W)
  BY <1>15, <1>16, <1>17, <1>18, Zenon DEF Framing
<1>20. QED
  BY <1>11, <1>12, <1>19 DEF Framed, p

\* The number of the message that the wire w carries.
NumberIn(w) == Extract(RecvConverter, <<>>, w)[1].msg

\* The messages that were written to stream s, those that wait in the channel,
\* the one that the task of s has read, and all that have left stream s.
OnStream(s) == {n \in 1 .. Len(sent) : sent[n].stream = s}
InChannel == {NumberIn(rx_recv_bytes[i]) : i \in 1 .. Len(rx_recv_bytes)}
Done == Got \cup InChannel
Past(s) == IF task[s] = "send" THEN Done \cup {NumberIn(task_buf[s])} ELSE Done

\* The i-th element of the channel is a message that was not delivered, and what
\* it follows was delivered or is in front of it.
Waiting(i) ==
    LET n == NumberIn(rx_recv_bytes[i])
    IN  /\ n \in 1 .. Len(sent) /\ rx_recv_bytes[i] = Wires[n] /\ n \notin Got
        /\ \A j \in 1 .. Len(rx_recv_bytes) : n = NumberIn(rx_recv_bytes[j]) => i = j
        /\ \A m \in OnStream(sent[n].stream) :
               m < n => m \in Got \/ \E j \in 1 .. i - 1 : m = NumberIn(rx_recv_bytes[j])

\* The task of stream s holds a message that is next on its stream.
Holding(s) ==
    LET n == NumberIn(task_buf[s])
    IN  /\ n \in OnStream(s) /\ task_buf[s] = Wires[n] /\ n \notin Done
        /\ \A m \in OnStream(s) : m < n => m \in Done

\* The bytes of stream s are the messages ns: in order, and all that have not left.
Pending(s, ns) ==
    /\ IsSeq(ns) /\ Framed(stream_bytes[s], ns, Wires)
    /\ \A i, j \in 1 .. Len(ns) : i < j => ns[i] < ns[j]
    /\ \A i \in 1 .. Len(ns) : ns[i] \in OnStream(s) /\ ns[i] \notin Past(s)
    /\ \A m \in OnStream(s) : m \in Past(s) \/ \E i \in 1 .. Len(ns) : ns[i] = m

\* While the reader reads, every message is in one place: in the bytes of its
\* stream, with the task, in the channel or delivered.
StreamParts ==
    /\ stream_bytes = [s \in Streams |-> stream_bytes[s]]
    /\ task_buf = [s \in Streams |-> task_buf[s]]
    /\ \A s \in Streams : IsSeq(stream_bytes[s])
    /\ \A i \in 1 .. Len(rx_recv_bytes) : Waiting(i)
    /\ \A s \in Streams : task[s] = "send" => Holding(s)
    /\ \A s \in Streams : \E ns : Pending(s, ns)

StreamInv == kind = "stream" /\ reader = "read" => StreamParts

\* A wire tells its number.
LEMMA WireNumber ==
    ASSUME HistoryInv, kind # "websocket"
    PROVE  \A n \in 1 .. Len(sent) : NumberIn(Wires[n]) = n /\ ext_dictionary = sent[n].with
<1> SUFFICES ASSUME NEW n \in 1 .. Len(sent)
             PROVE  NumberIn(Wires[n]) = n /\ ext_dictionary = sent[n].with
  OBVIOUS
<1>1. LaneInv /\ SentInv /\ RecvConverter = SendConverter
  BY SameConverter DEF HistoryInv, TakeoverFrames
<1>2. sent[n].with = <<>> /\ ext_dictionary = <<>> /\ sent[n].data[1].msg = n
  BY <1>1, Zenon DEF SentInv
<1>3. Extract(SendConverter, sent[n].with, Wires[n]) = sent[n].data
  BY <1>1, WiresAre
<1>4. QED
  BY <1>1, <1>2, <1>3, Zenon DEF NumberIn

\* A step that leaves the channel and what was delivered.
LEMMA ChannelSame ==
    ASSUME UNCHANGED <<compression, sent, dictionary, delivered, rx_recv_bytes>>
    PROVE  /\ Wires' = Wires /\ \A w : NumberIn(w)' = NumberIn(w)
           /\ Got' = Got /\ Done' = Done /\ \A s : OnStream(s)' = OnStream(s)
           /\ \A i : Waiting(i) => Waiting(i)'
<1>1. Wires' = Wires /\ RecvConverter' = RecvConverter
  BY NoWrite
<1>2. \A w : NumberIn(w)' = NumberIn(w)
  BY <1>1, Zenon DEF NumberIn
<1>3. /\ Got' = Got /\ InChannel' = InChannel /\ Done' = Done
      /\ \A s : OnStream(s)' = OnStream(s)
  <2>1. \A k : NumberOf(k)' = NumberOf(k)
    BY Zenon DEF NumberOf
  <2>2. Got' = Got
    BY <2>1, Zenon DEF Got
  <2>3. InChannel' = InChannel
    BY <1>2, Zenon DEF InChannel
  <2>4. \A s : OnStream(s)' = OnStream(s)
    BY Zenon DEF OnStream
  <2>5. QED
    BY <2>2, <2>3, <2>4, Zenon DEF Done
<1>4. ASSUME NEW i, Waiting(i) PROVE Waiting(i)'
  <2> DEFINE n == NumberIn(rx_recv_bytes[i])
  <2>1. /\ n \in 1 .. Len(sent) /\ rx_recv_bytes[i] = Wires[n] /\ n \notin Got
        /\ \A j \in 1 .. Len(rx_recv_bytes) : n = NumberIn(rx_recv_bytes[j]) => i = j
        /\ \A m \in OnStream(sent[n].stream) :
               m < n => m \in Got \/ \E j \in 1 .. i - 1 : m = NumberIn(rx_recv_bytes[j])
    BY <1>4, Zenon DEF Waiting
  <2>2. \A j : NumberIn(rx_recv_bytes[j])' = NumberIn(rx_recv_bytes[j])
    BY <1>2, Zenon
  <2>3. n' = n
    BY <2>2
  <2>4. OnStream(sent[n].stream)' = OnStream(sent[n].stream)
    BY <1>3, <2>3, Zenon
  <2> HIDE DEF n
  <2>5. /\ n' \in 1 .. Len(sent') /\ rx_recv_bytes'[i] = Wires'[n'] /\ n' \notin Got'
        /\ \A j \in 1 .. Len(rx_recv_bytes') : n' = NumberIn(rx_recv_bytes[j])' => i = j
    BY <1>1, <1>3, <2>1, <2>2, <2>3, Zenon
  <2>6. \A m \in OnStream(sent[n].stream)' :
               m < n' => m \in Got' \/ \E j \in 1 .. i - 1 : m = NumberIn(rx_recv_bytes[j])'
    BY <1>3, <2>1, <2>2, <2>3, <2>4, Zenon
  <2>7. QED
    BY <2>5, <2>6, Zenon DEF Waiting, n
<1>5. QED
  BY <1>1, <1>2, <1>3, <1>4

\* A step that changes none of the places.
LEMMA StreamSame ==
    ASSUME StreamParts, UNCHANGED <<compression, sent, dictionary, delivered, rx_recv_bytes,
                                    task_buf, stream_bytes>>,
           \A s \in Streams : task'[s] = "send" <=> task[s] = "send"
    PROVE  StreamParts'
<1>1. /\ Wires' = Wires /\ \A w : NumberIn(w)' = NumberIn(w)
      /\ Done' = Done /\ \A s : OnStream(s)' = OnStream(s)
      /\ \A i : Waiting(i) => Waiting(i)'
  BY ChannelSame
<1>4. \A s \in Streams : Past(s)' = Past(s)
  <2> SUFFICES ASSUME NEW s \in Streams PROVE Past(s)' = Past(s)
    OBVIOUS
  <2>1. CASE task[s] = "send"
    BY <1>1, <2>1, Zenon DEF Past
  <2>2. CASE task[s] # "send"
    BY <1>1, <2>2, Zenon DEF Past
  <2>3. QED
    BY <2>1, <2>2
<1>5. \A i \in 1 .. Len(rx_recv_bytes) : Waiting(i)'
  BY <1>1, Zenon DEF StreamParts
<1>6. \A s \in Streams : task'[s] = "send" => Holding(s)'
  BY <1>1, Zenon DEF StreamParts, Holding
<1>7. ASSUME NEW s \in Streams PROVE \E ns : Pending(s, ns)'
  <2>1. PICK ns : Pending(s, ns)
    BY Zenon DEF StreamParts
  <2>2. Past(s)' = Past(s) /\ OnStream(s)' = OnStream(s)
    BY <1>1, <1>4
  <2>3. Pending(s, ns)'
    BY <1>1, <2>1, <2>2, Zenon DEF Pending
  <2>4. QED
    BY <2>3
<1>8. QED
  BY <1>5, <1>6, <1>7, Zenon DEF StreamParts

\* What has left a stream was written.
LEMMA PastWritten ==
    ASSUME StreamParts, DeliveredInv
    PROVE  /\ Got \subseteq 1 .. Len(sent) /\ InChannel \subseteq 1 .. Len(sent)
           /\ \A s \in Streams : Past(s) \subseteq 1 .. Len(sent)
<1>1. Got \subseteq 1 .. Len(sent)
  <2>1. \A k \in 1 .. Len(delivered) : NumberOf(k) \in 1 .. Len(sent)
    BY Zenon DEF DeliveredInv
  <2>2. QED
    BY <2>1, Zenon DEF Got
<1>2. InChannel \subseteq 1 .. Len(sent)
  <2>1. \A i \in 1 .. Len(rx_recv_bytes) : NumberIn(rx_recv_bytes[i]) \in 1 .. Len(sent)
    BY Zenon DEF StreamParts, Waiting
  <2>2. QED
    BY <2>1, Zenon DEF InChannel
<1>3. ASSUME NEW s \in Streams PROVE Past(s) \subseteq 1 .. Len(sent)
  <2>1. Done \subseteq 1 .. Len(sent)
    BY <1>1, <1>2, Zenon DEF Done
  <2>2. CASE task[s] = "send"
    <3>1. NumberIn(task_buf[s]) \in 1 .. Len(sent)
      BY <2>2, Zenon DEF StreamParts, Holding, OnStream
    <3>2. Past(s) = Done \cup {NumberIn(task_buf[s])}
      BY <2>2, Zenon DEF Past
    <3>3. QED
      BY <2>1, <3>1, <3>2, Zenon
  <2>3. CASE task[s] # "send"
    BY <2>1, <2>3, Zenon DEF Past
  <2>4. QED
    BY <2>2, <2>3
<1>4. QED
  BY <1>1, <1>2, <1>3

\* A message is written to a stream.
LEMMA StreamWriteStep ==
    ASSUME HistoryInv, DeliveredInv, StreamParts, UNCHANGED compression,
           NEW s \in Streams, NEW len \in StreamLengths, StreamWrite(s, len)
    PROVE  StreamParts'
<1>0. LaneInv /\ SentInv /\ len \in Nat \ {0}
  BY LaneAssumption DEF HistoryInv
<1>1. /\ UNCHANGED <<delivered, rx_recv_bytes, task_buf, task>>
      /\ stream_bytes' = [stream_bytes EXCEPT ![s] = @ \o <<Len(Wire(len))>> \o Wire(len)]
      /\ WriteLoopSends(s, len)
  BY DEF StreamWrite, readVars
<1> DEFINE N == Len(sent)
<1> DEFINE w == Wire(len)
<1> DEFINE W == Append(Wires, w)
<1>2. /\ N \in Nat /\ Len(sent') = N + 1 /\ \A n \in 1 .. N : sent'[n] = sent[n]
      /\ sent'[N + 1].stream = s
      /\ IsSeq(Wires) /\ Len(Wires) = N /\ Wires' = W
      /\ IsSeq(w)
  BY <1>0, <1>1, WriteIs
<1>3. IsSeq(W) /\ Len(W) = N + 1 /\ W[N + 1] = w /\ \A n \in 1 .. N : W[n] = Wires[n]
  BY <1>2, SeqOps
<1>4. \A n \in 1 .. N : IsSeq(Wires[n])
  BY <1>0, WiresAre
<1> HIDE DEF N, w, W
<1>5. RecvConverter' = RecvConverter
  BY DEF RecvConverter
<1>6. \A x : NumberIn(x)' = NumberIn(x)
  BY <1>5, Zenon DEF NumberIn
<1>7. Got' = Got /\ InChannel' = InChannel /\ Done' = Done
  <2>1. \A k : NumberOf(k)' = NumberOf(k)
    BY <1>1, Zenon DEF NumberOf
  <2>2. Got' = Got
    BY <1>1, <2>1, Zenon DEF Got
  <2>3. InChannel' = InChannel
    BY <1>1, <1>6, Zenon DEF InChannel
  <2>4. QED
    BY <2>2, <2>3, Zenon DEF Done
<1>8. \A r \in Streams : Past(r)' = Past(r) /\ Past(r) \subseteq 1 .. N
  <2> SUFFICES ASSUME NEW r \in Streams PROVE Past(r)' = Past(r) /\ Past(r) \subseteq 1 .. N
    OBVIOUS
  <2>1. Past(r) \subseteq 1 .. N
    BY PastWritten DEF N
  <2>2. CASE task[r] = "send"
    BY <1>1, <1>6, <1>7, <2>1, <2>2, Zenon DEF Past
  <2>3. CASE task[r] # "send"
    BY <1>1, <1>7, <2>1, <2>3, Zenon DEF Past
  <2>4. QED
    BY <2>2, <2>3
<1>9. /\ OnStream(s)' = OnStream(s) \cup {N + 1}
      /\ \A r : r # s => OnStream(r)' = OnStream(r)
      /\ \A r : /\ OnStream(r) \subseteq 1 .. N
                /\ \A m \in OnStream(r)' : m \in OnStream(r) \/ m = N + 1
  <2>1. 1 .. Len(sent') = 1 .. N \cup {N + 1} /\ N + 1 \notin 1 .. N
    BY <1>2
  <2>2. \A r, m : m \in OnStream(r)' <=> m \in 1 .. Len(sent') /\ sent'[m].stream = r
    BY Zenon DEF OnStream
  <2>3. \A r, m : m \in OnStream(r) <=> m \in 1 .. N /\ sent[m].stream = r
    BY Zenon DEF OnStream, N
  <2>4. \A r, m : m \in OnStream(r)' <=> m \in OnStream(r) \/ (m = N + 1 /\ r = s)
    BY <1>2, <2>1, <2>2, <2>3, Zenon
  <2>5. OnStream(s)' = OnStream(s) \cup {N + 1}
    BY <2>4
  <2>6. \A r : r # s => OnStream(r)' = OnStream(r)
    BY <2>4
  <2>7. \A r : OnStream(r) \subseteq 1 .. N
    BY <2>3
  <2>8. QED
    BY <2>4, <2>5, <2>6, <2>7, Zenon
<1>10. ASSUME NEW i \in 1 .. Len(rx_recv_bytes) PROVE Waiting(i)'
  <2> DEFINE n == NumberIn(rx_recv_bytes[i])
  <2>1. /\ n \in 1 .. N /\ rx_recv_bytes[i] = Wires[n] /\ n \notin Got
        /\ \A j \in 1 .. Len(rx_recv_bytes) : n = NumberIn(rx_recv_bytes[j]) => i = j
        /\ \A m \in OnStream(sent[n].stream) :
               m < n => m \in Got \/ \E j \in 1 .. i - 1 : m = NumberIn(rx_recv_bytes[j])
    BY Zenon DEF StreamParts, Waiting, N
  <2>2. \A j : NumberIn(rx_recv_bytes[j])' = NumberIn(rx_recv_bytes[j])
    BY <1>1, <1>6, Zenon
  <2>3. n' = n
    BY <2>2
  <2> HIDE DEF n
  <2>4. n \in 1 .. Len(sent') /\ ~(N + 1 < n)
    BY <1>2, <2>1
  <2>5. /\ n' \in 1 .. Len(sent') /\ rx_recv_bytes'[i] = Wires'[n'] /\ n' \notin Got'
        /\ \A j \in 1 .. Len(rx_recv_bytes') : n' = NumberIn(rx_recv_bytes[j])' => i = j
    BY <1>1, <1>2, <1>3, <1>7, <2>1, <2>2, <2>3, <2>4, Zenon
  <2>6. \A m \in OnStream(sent[n].stream)' : m < n => m \in OnStream(sent[n].stream)
    <3>1. PICK r : r = sent[n].stream
      OBVIOUS
    <3>2. OnStream(sent[n].stream)' = OnStream(r)'
      BY <1>2, <2>1, <2>3, <3>1, Zenon
    <3>3. QED
      BY <1>9, <2>4, <3>1, <3>2, Zenon
  <2>7. ASSUME NEW m \in OnStream(sent[n].stream)', m < n'
        PROVE  m \in Got' \/ \E j \in 1 .. i - 1 : m = NumberIn(rx_recv_bytes[j])'
    <3>1. m < n
      BY <2>3, <2>7, Zenon
    <3>2. m \in Got \/ \E j \in 1 .. i - 1 : m = NumberIn(rx_recv_bytes[j])
      BY <2>1, <2>6, <3>1, Zenon
    <3>3. QED
      BY <1>7, <2>2, <3>2, Zenon
  <2>8. QED
    BY <2>5, <2>7, Zenon DEF Waiting, n
<1>11. ASSUME NEW r \in Streams, task'[r] = "send" PROVE Holding(r)'
  <2> DEFINE n == NumberIn(task_buf[r])
  <2>1. /\ n \in OnStream(r) /\ task_buf[r] = Wires[n] /\ n \notin Done
        /\ \A m \in OnStream(r) : m < n => m \in Done
    BY <1>1, <1>11, Zenon DEF StreamParts, Holding
  <2>2. n' = n
    BY <1>1, <1>6, Zenon
  <2> HIDE DEF n
  <2>3. n \in 1 .. N /\ ~(N + 1 < n)
    BY <1>2, <1>9, <2>1
  <2>4. n \in OnStream(r)' /\ \A m \in OnStream(r)' : m < n => m \in OnStream(r)
    BY <1>9, <2>1, <2>3, Zenon
  <2>5. QED
    BY <1>1, <1>2, <1>3, <1>7, <2>1, <2>2, <2>3, <2>4, Zenon DEF Holding, n
<1>12. \A r \in Streams : r # s => stream_bytes'[r] = stream_bytes[r]
  BY <1>1 DEF StreamParts
<1>13. stream_bytes'[s] = stream_bytes[s] \o <<Len(w)>> \o w
  <2>1. s \in DOMAIN stream_bytes
    BY DEF StreamParts
  <2>2. QED
    BY <1>1, <2>1 DEF w
<1>14. \A r \in Streams : IsSeq(stream_bytes[r])
  BY Zenon DEF StreamParts
<1>15. ASSUME NEW r \in Streams, r # s PROVE \E ns : Pending(r, ns)'
  <2>1. PICK ns : Pending(r, ns)
    BY Zenon DEF StreamParts
  <2>2. Framed(stream_bytes[r], ns, Wires)
    BY <2>1, Zenon DEF Pending
  <2>3. Framed(stream_bytes[r], ns, W)
    BY <1>2, <2>2, FramedMore DEF W
  <2>4. Pending(r, ns)'
    BY <1>2, <1>8, <1>9, <1>12, <1>15, <2>1, <2>3, Zenon DEF Pending
  <2>5. QED
    BY <2>4
<1>16. IsSeq(stream_bytes'[s]) /\ \E ns : Pending(s, ns)'
  <2>1. PICK ns : Pending(s, ns)
    BY Zenon DEF StreamParts
  <2>2. /\ IsSeq(ns) /\ Framed(stream_bytes[s], ns, Wires)
        /\ \A i, j \in 1 .. Len(ns) : i < j => ns[i] < ns[j]
        /\ \A i \in 1 .. Len(ns) : ns[i] \in OnStream(s) /\ ns[i] \notin Past(s)
        /\ \A m \in OnStream(s) : m \in Past(s) \/ \E i \in 1 .. Len(ns) : ns[i] = m
    BY <2>1, Zenon DEF Pending
  <2>3. Framed(stream_bytes[s], ns, W)
    BY <1>2, <2>2, FramedMore DEF W
  <2>n. PICK n : n = N + 1
    OBVIOUS
  <2>a. PICK ms : ms = Append(ns, n)
    OBVIOUS
  <2>4. /\ IsSeq(ms) /\ Len(ns) \in Nat /\ Len(ms) = Len(ns) + 1 /\ ms[Len(ns) + 1] = n
        /\ \A i \in 1 .. Len(ns) : ms[i] = ns[i]
    BY <2>2, <2>a, SeqOps
  <2>5. n \in 1 .. Len(W) /\ W[n] = w
    BY <1>2, <1>3, <2>n
  <2>6. IsSeq(stream_bytes'[s]) /\ Framed(stream_bytes'[s], ms, W)
    <3>1. /\ IsSeq(stream_bytes[s] \o <<Len(W[n])>> \o W[n])
          /\ Framed(stream_bytes[s] \o <<Len(W[n])>> \o W[n], ms, W)
      <4>1. IsSeq(stream_bytes[s]) /\ IsSeq(W[n])
        BY <1>2, <1>14, <2>5
      <4>2. QED
        BY <2>2, <2>3, <2>5, <2>a, <4>1, FramedAppend
    <3>2. QED
      BY <1>13, <2>5, <3>1, Zenon
  <2>7. /\ \A i \in 1 .. Len(ms) : i \in 1 .. Len(ns) \/ i = Len(ns) + 1
        /\ Len(ns) + 1 \in 1 .. Len(ms) /\ 1 .. Len(ns) \subseteq 1 .. Len(ms)
    BY <2>4
  <2>8. n \notin 1 .. N /\ \A i \in 1 .. Len(ns) : ns[i] \in 1 .. N /\ ns[i] < n
    <3>1. \A i \in 1 .. Len(ns) : ns[i] \in 1 .. N
      BY <1>9, <2>2
    <3>2. QED
      BY <1>2, <2>n, <3>1
  <2>9. ASSUME NEW i \in 1 .. Len(ms), NEW j \in 1 .. Len(ms), i < j PROVE ms[i] < ms[j]
    <3>1. i \in 1 .. Len(ns)
      BY <2>4, <2>9
    <3>2. CASE j \in 1 .. Len(ns)
      BY <2>2, <2>4, <2>9, <3>1, <3>2
    <3>3. CASE j = Len(ns) + 1
      BY <2>4, <2>8, <3>1, <3>3
    <3>4. QED
      BY <2>7, <3>2, <3>3
  <2>10. ASSUME NEW i \in 1 .. Len(ms) PROVE ms[i] \in OnStream(s)' /\ ms[i] \notin Past(s)'
    <3>1. CASE i \in 1 .. Len(ns)
      BY <1>8, <1>9, <2>2, <2>4, <3>1, Zenon
    <3>2. CASE i = Len(ns) + 1
      BY <1>8, <1>9, <2>4, <2>8, <2>n, <3>2, Zenon
    <3>3. QED
      BY <2>7, <3>1, <3>2
  <2>11. ASSUME NEW m \in OnStream(s)' PROVE m \in Past(s)' \/ \E i \in 1 .. Len(ms) : ms[i] = m
    <3>1. CASE m \in OnStream(s)
      BY <1>8, <2>2, <2>4, <2>7, <3>1, Zenon
    <3>2. CASE m = N + 1
      BY <2>4, <2>7, <2>n, <3>2, Zenon
    <3>3. QED
      BY <1>9, <3>1, <3>2
  <2>12. Pending(s, ms)'
    BY <1>2, <2>4, <2>6, <2>9, <2>10, <2>11, Zenon DEF Pending
  <2>13. QED
    BY <2>6, <2>12
<1>17. /\ stream_bytes' = [r \in Streams |-> stream_bytes'[r]]
       /\ task_buf' = [r \in Streams |-> task_buf'[r]]
  BY <1>1 DEF StreamParts
<1>18. \A r \in Streams : IsSeq(stream_bytes'[r])
  BY <1>12, <1>14, <1>16, Zenon
<1>19. \A r \in Streams : \E ns : Pending(r, ns)'
  BY <1>15, <1>16, Zenon
<1>20. QED
  BY <1>1, <1>10, <1>11, <1>17, <1>18, <1>19, Zenon DEF StreamParts

\* A task reads a message from its stream.
LEMMA TaskReadStep ==
    ASSUME HistoryInv, DeliveredInv, StreamParts, kind # "websocket",
           NEW s \in Streams, TaskRead(s)
    PROVE  StreamParts'
<1>0. LaneInv /\ SentInv /\ task \in [Streams -> {"none", "read", "send", "ended"}]
  BY DEF HistoryInv, LaneInv, SeqTypes
<1> DEFINE b == stream_bytes[s]
<1>1. /\ task[s] = "read" /\ b # <<>> /\ Len(b) > Head(b)
      /\ task_buf' = [task_buf EXCEPT ![s] = SubSeq(b, 2, Head(b) + 1)]
      /\ stream_bytes' = [stream_bytes EXCEPT ![s] = SubSeq(b, Head(b) + 2, Len(b))]
      /\ task' = [task EXCEPT ![s] = "send"]
      /\ UNCHANGED <<compression, sent, dictionary, delivered, rx_recv_bytes>>
  BY DEF TaskRead, sendVars, readVars
<1>2. /\ Wires' = Wires /\ \A w : NumberIn(w)' = NumberIn(w)
      /\ Done' = Done /\ \A r : OnStream(r)' = OnStream(r)
      /\ \A i : Waiting(i) => Waiting(i)'
  BY <1>1, ChannelSame
<1>3. IsSeq(b) /\ \A i \in 1 .. Len(Wires) : IsSeq(Wires[i])
  <2>1. IsSeq(b)
    BY Zenon DEF StreamParts
  <2>2. QED
    BY <1>0, <2>1, WiresAre
<1>4. PICK ns : Pending(s, ns)
  BY Zenon DEF StreamParts
<1>5. /\ IsSeq(ns) /\ Framed(b, ns, Wires)
      /\ \A i, j \in 1 .. Len(ns) : i < j => ns[i] < ns[j]
      /\ \A i \in 1 .. Len(ns) : ns[i] \in OnStream(s) /\ ns[i] \notin Done
      /\ \A m \in OnStream(s) : m \in Done \/ \E i \in 1 .. Len(ns) : ns[i] = m
  <2>1. Past(s) = Done
    BY <1>1 DEF Past
  <2>2. QED
    BY <1>4, <2>1, Zenon DEF Pending
<1> DEFINE ms == Tail(ns)
<1>6. /\ ns # <<>> /\ SubSeq(b, 2, Head(b) + 1) = Wires[Head(ns)]
      /\ IsSeq(SubSeq(b, Head(b) + 2, Len(b)))
      /\ Framed(SubSeq(b, Head(b) + 2, Len(b)), ms, Wires)
  BY <1>1, <1>3, <1>5, FramedTake
<1>7. /\ IsSeq(ms) /\ Len(ns) \in Nat /\ Len(ns) >= 1 /\ Len(ms) = Len(ns) - 1 /\ Head(ns) = ns[1]
      /\ \A i \in 1 .. Len(ns) - 1 : ms[i] = ns[i + 1]
  BY <1>5, <1>6, SeqOps
<1>n. PICK n : n = ns[1]
  OBVIOUS
<1>p. PICK ps : ps = ms
  OBVIOUS
<1> HIDE DEF ms
<1>8. /\ task_buf'[s] = Wires[n] /\ task'[s] = "send"
      /\ stream_bytes'[s] = SubSeq(b, Head(b) + 2, Len(b))
      /\ \A r \in Streams : r # s => /\ task_buf'[r] = task_buf[r] /\ task'[r] = task[r]
                                     /\ stream_bytes'[r] = stream_bytes[r]
      /\ stream_bytes' = [r \in Streams |-> stream_bytes'[r]]
      /\ task_buf' = [r \in Streams |-> task_buf'[r]]
  <2>1. DOMAIN task_buf = Streams /\ DOMAIN stream_bytes = Streams /\ DOMAIN task = Streams
    BY <1>0 DEF StreamParts
  <2>2. QED
    BY <1>1, <1>6, <1>7, <1>n, <2>1
<1>9. /\ 1 \in 1 .. Len(ns) /\ n \in OnStream(s) /\ n \notin Done /\ n \in 1 .. Len(sent)
      /\ \A i \in 1 .. Len(ms) : i + 1 \in 1 .. Len(ns) /\ 1 < i + 1
      /\ \A i \in 1 .. Len(ns) : i = 1 \/ (i - 1 \in 1 .. Len(ms) /\ (i - 1) + 1 = i)
      /\ \A i \in 1 .. Len(ms) : i \in 1 .. Len(ns) - 1
  <2>1. 1 \in 1 .. Len(ns)
    BY <1>7
  <2>2. n \in OnStream(s) /\ n \notin Done
    BY <1>5, <1>n, <2>1
  <2>3. n \in 1 .. Len(sent)
    BY <2>2, Zenon DEF OnStream
  <2>4. QED
    BY <1>7, <2>1, <2>2, <2>3
<1>10. NumberIn(task_buf[s])' = n
  <2>1. NumberIn(Wires[n]) = n
    BY <1>9, WireNumber
  <2>2. QED
    BY <1>2, <1>8, <2>1, Zenon
<1>11. \A i \in 1 .. Len(ms) : ms[i] = ns[i + 1] /\ n < ms[i]
  <2> SUFFICES ASSUME NEW i \in 1 .. Len(ms) PROVE ms[i] = ns[i + 1] /\ n < ms[i]
    OBVIOUS
  <2>1. ms[i] = ns[i + 1]
    BY <1>7, <1>9
  <2>2. ns[1] < ns[i + 1]
    BY <1>5, <1>9
  <2>3. QED
    BY <1>n, <2>1, <2>2
<1>12. \A m \in OnStream(s) : m \in Done \/ m = n \/ \E i \in 1 .. Len(ms) : ms[i] = m
  <2> SUFFICES ASSUME NEW m \in OnStream(s), m \notin Done, m # n
               PROVE  \E i \in 1 .. Len(ms) : ms[i] = m
    OBVIOUS
  <2>1. PICK i \in 1 .. Len(ns) : ns[i] = m
    BY <1>5
  <2>2. i # 1
    BY <1>n, <2>1
  <2>3. i - 1 \in 1 .. Len(ms) /\ (i - 1) + 1 = i
    BY <1>9, <2>2
  <2>4. ms[i - 1] = m
    BY <1>11, <2>1, <2>3, Zenon
  <2>5. QED
    BY <2>3, <2>4
<1>13. Holding(s)'
  <2>1. ASSUME NEW m \in OnStream(s), m < n PROVE m \in Done
    <3>1. m \in Int /\ n \in Int
      BY <1>9 DEF OnStream
    <3>2. ASSUME NEW i \in 1 .. Len(ms), ms[i] = m PROVE FALSE
      <4>1. n < m
        BY <1>11, <3>2
      <4>2. QED
        BY <2>1, <3>1, <4>1
    <3>3. m # n
      BY <2>1, <3>1
    <3>4. QED
      BY <1>12, <3>2, <3>3
  <2>2. QED
    BY <1>2, <1>8, <1>9, <1>10, <2>1, Zenon DEF Holding
<1>14. Past(s)' = Done \cup {n}
  BY <1>2, <1>8, <1>10, Zenon DEF Past
<1>15. Pending(s, ps)'
  <2>1. IsSeq(ms) /\ Framed(stream_bytes'[s], ms, Wires')
    BY <1>2, <1>6, <1>7, <1>8, Zenon
  <2>2. ASSUME NEW i \in 1 .. Len(ms), NEW j \in 1 .. Len(ms), i < j PROVE ms[i] < ms[j]
    <3>1. i + 1 < j + 1
      BY <2>2
    <3>2. ns[i + 1] < ns[j + 1]
      BY <1>5, <1>9, <3>1
    <3>3. QED
      BY <1>11, <3>2
  <2>3. ASSUME NEW i \in 1 .. Len(ms) PROVE ms[i] \in OnStream(s)' /\ ms[i] \notin Past(s)'
    <3>1. ms[i] = ns[i + 1] /\ n < ms[i] /\ n \in Int
      BY <1>9, <1>11
    <3>2. ns[i + 1] \in OnStream(s) /\ ns[i + 1] \notin Done
      BY <1>5, <1>9
    <3>3. ms[i] # n
      BY <3>1
    <3>4. QED
      BY <1>2, <1>14, <3>1, <3>2, <3>3, Zenon
  <2>4. ASSUME NEW m \in OnStream(s)' PROVE m \in Past(s)' \/ \E i \in 1 .. Len(ms) : ms[i] = m
    BY <1>2, <1>12, <1>14, Zenon
  <2>5. QED
    BY <1>p, <2>1, <2>2, <2>3, <2>4, Zenon DEF Pending
<1>16. ASSUME NEW r \in Streams, r # s PROVE \E qs : Pending(r, qs)'
  <2>1. PICK qs : Pending(r, qs)
    BY Zenon DEF StreamParts
  <2>2. Past(r)' = Past(r)
    <3>1. CASE task[r] = "send"
      BY <1>2, <1>8, <1>16, <3>1, Zenon DEF Past
    <3>2. CASE task[r] # "send"
      BY <1>2, <1>8, <1>16, <3>2, Zenon DEF Past
    <3>3. QED
      BY <3>1, <3>2
  <2>3. Pending(r, qs)'
    BY <1>2, <1>8, <1>16, <2>1, <2>2, Zenon DEF Pending
  <2>4. QED
    BY <2>3
<1>17. ASSUME NEW r \in Streams, r # s, task'[r] = "send" PROVE Holding(r)'
  <2>1. Holding(r)
    BY <1>8, <1>17, Zenon DEF StreamParts
  <2>2. QED
    BY <1>2, <1>8, <1>17, <2>1, Zenon DEF Holding
<1>18. \A i \in 1 .. Len(rx_recv_bytes') : Waiting(i)'
  BY <1>1, <1>2, Zenon DEF StreamParts
<1>19. \A r \in Streams : IsSeq(stream_bytes'[r])
  BY <1>6, <1>8, Zenon DEF StreamParts
<1>20. QED
  BY <1>8, <1>13, <1>15, <1>16, <1>17, <1>18, <1>19, Zenon DEF StreamParts

\* A task puts its message into the channel.
LEMMA TaskSendStep ==
    ASSUME HistoryInv, DeliveredInv, StreamParts,
           NEW s \in Streams, TaskSend(s)
    PROVE  StreamParts'
<1>0. /\ task \in [Streams -> {"none", "read", "send", "ended"}] /\ IsSeq(rx_recv_bytes)
  BY DEF HistoryInv, LaneInv, SeqTypes
<1>1. /\ task[s] = "send"
      /\ rx_recv_bytes' = Append(rx_recv_bytes, task_buf[s])
      /\ task' = [task EXCEPT ![s] = "read"]
      /\ task_buf' = [task_buf EXCEPT ![s] = <<>>]
      /\ UNCHANGED <<compression, sent, dictionary, delivered, stream_bytes>>
  BY DEF TaskSend, sendVars, readVars
<1>2. Wires' = Wires /\ RecvConverter' = RecvConverter
  BY <1>1, NoWrite
<1>3. \A w : NumberIn(w)' = NumberIn(w)
  BY <1>2, Zenon DEF NumberIn
<1>4. Got' = Got /\ \A r : OnStream(r)' = OnStream(r)
  <2>1. \A k : NumberOf(k)' = NumberOf(k)
    BY <1>1, Zenon DEF NumberOf
  <2>2. Got' = Got
    BY <1>1, <2>1, Zenon DEF Got
  <2>3. QED
    BY <1>1, <2>2, Zenon DEF OnStream
<1>t. PICK t : t = NumberIn(task_buf[s])
  OBVIOUS
<1>5. /\ t \in OnStream(s) /\ task_buf[s] = Wires[t] /\ t \notin Done
      /\ \A m \in OnStream(s) : m < t => m \in Done
  BY <1>1, <1>t, Zenon DEF StreamParts, Holding
<1>6. t \in 1 .. Len(sent) /\ sent[t].stream = s
  BY <1>5, Zenon DEF OnStream
<1>l. PICK l : l = Len(rx_recv_bytes)
  OBVIOUS
<1>e. PICK e : e = l + 1
  OBVIOUS
<1>7. /\ l \in Nat /\ Len(rx_recv_bytes') = e /\ rx_recv_bytes'[e] = task_buf[s]
      /\ \A i \in 1 .. l : rx_recv_bytes'[i] = rx_recv_bytes[i]
  BY <1>0, <1>1, <1>e, <1>l, SeqOps
<1>8. /\ 1 .. Len(rx_recv_bytes') = 1 .. l \cup {e} /\ e \notin 1 .. l /\ 1 .. e - 1 = 1 .. l
      /\ \A i \in 1 .. l : 1 .. i - 1 \subseteq 1 .. l
  BY <1>7, <1>e
<1>9. /\ \A i \in 1 .. l : NumberIn(rx_recv_bytes[i])' = NumberIn(rx_recv_bytes[i])
      /\ NumberIn(rx_recv_bytes[e])' = t
  BY <1>3, <1>7, <1>t, Zenon
<1>10. InChannel' = InChannel \cup {t} /\ Done' = Done \cup {t}
  <2>1. \A x : x \in InChannel' <=> \E i \in 1 .. l \cup {e} : x = NumberIn(rx_recv_bytes[i])'
    BY <1>8, Zenon DEF InChannel
  <2>2. \A x : x \in InChannel <=> \E i \in 1 .. l : x = NumberIn(rx_recv_bytes[i])
    BY <1>l, Zenon DEF InChannel
  <2>3. \A x : x \in InChannel' <=> x \in InChannel \/ x = t
    BY <1>9, <2>1, <2>2, Zenon
  <2>4. InChannel' = InChannel \cup {t}
    BY <2>3
  <2>5. QED
    BY <1>4, <2>4 DEF Done
<1>11. /\ task'[s] = "read"
       /\ \A r \in Streams : r # s => task_buf'[r] = task_buf[r] /\ task'[r] = task[r]
       /\ task_buf' = [r \in Streams |-> task_buf'[r]]
  <2>1. DOMAIN task_buf = Streams /\ DOMAIN task = Streams
    BY <1>0 DEF StreamParts
  <2>2. QED
    BY <1>1, <2>1
<1>12. ASSUME NEW i \in 1 .. l PROVE Waiting(i)'
  <2>n. PICK n : n = NumberIn(rx_recv_bytes[i])
    OBVIOUS
  <2>1. /\ n \in 1 .. Len(sent) /\ rx_recv_bytes[i] = Wires[n] /\ n \notin Got
        /\ \A j \in 1 .. l : n = NumberIn(rx_recv_bytes[j]) => i = j
        /\ \A m \in OnStream(sent[n].stream) :
               m < n => m \in Got \/ \E j \in 1 .. i - 1 : m = NumberIn(rx_recv_bytes[j])
    <3>1. Waiting(i)
      BY <1>l DEF StreamParts
    <3>2. QED
      BY <1>l, <2>n, <3>1, Zenon DEF Waiting
  <2>2. n \in InChannel /\ n # t
    <3>1. n \in InChannel
      BY <1>l, <2>n, Zenon DEF InChannel
    <3>2. QED
      BY <1>5, <3>1, Zenon DEF Done
  <2>3. NumberIn(rx_recv_bytes[i])' = n
    BY <1>9, <2>n
  <2>4. \A j \in 1 .. Len(rx_recv_bytes') : n = NumberIn(rx_recv_bytes[j])' => i = j
    BY <1>8, <1>9, <2>1, <2>2, Zenon
  <2>5. OnStream(sent[n].stream)' = OnStream(sent[n].stream)
    BY <1>1, <1>4, Zenon
  <2>6. ASSUME NEW m \in OnStream(sent[n].stream), m < n
        PROVE  m \in Got' \/ \E j \in 1 .. i - 1 : m = NumberIn(rx_recv_bytes[j])'
    <3>1. CASE m \in Got
      BY <1>4, <3>1
    <3>2. CASE \E j \in 1 .. i - 1 : m = NumberIn(rx_recv_bytes[j])
      BY <1>8, <1>9, <3>2, Zenon
    <3>3. QED
      BY <2>1, <2>6, <3>1, <3>2, Zenon
  <2>7. rx_recv_bytes'[i] = Wires'[n] /\ n \notin Got' /\ n \in 1 .. Len(sent')
    BY <1>1, <1>2, <1>4, <1>7, <2>1, Zenon
  <2>8. QED
    BY <1>1, <2>3, <2>4, <2>5, <2>6, <2>7, Zenon DEF Waiting
<1>13. Waiting(e)'
  <2>1. \A j \in 1 .. l : NumberIn(rx_recv_bytes[j]) # t
    <3>1. \A j \in 1 .. l : NumberIn(rx_recv_bytes[j]) \in Done
      BY <1>l, Zenon DEF Done, InChannel
    <3>2. QED
      BY <1>5, <3>1, Zenon
  <2>2. \A j \in 1 .. Len(rx_recv_bytes') : t = NumberIn(rx_recv_bytes[j])' => e = j
    BY <1>8, <1>9, <2>1, Zenon
  <2>3. ASSUME NEW m \in OnStream(s), m < t
        PROVE  m \in Got' \/ \E j \in 1 .. e - 1 : m = NumberIn(rx_recv_bytes[j])'
    <3>1. m \in Got \/ \E j \in 1 .. l : m = NumberIn(rx_recv_bytes[j])
      BY <1>5, <1>l, <2>3, Zenon DEF Done, InChannel
    <3>2. QED
      BY <1>4, <1>8, <1>9, <3>1, Zenon
  <2>4. OnStream(sent[t].stream)' = OnStream(s)
    BY <1>1, <1>4, <1>6, Zenon
  <2>5. t \notin Got'
    BY <1>4, <1>5, Zenon DEF Done
  <2>6. t \in 1 .. Len(sent') /\ rx_recv_bytes'[e] = Wires'[t]
    BY <1>1, <1>2, <1>5, <1>6, <1>7, Zenon
  <2>7. NumberIn(rx_recv_bytes[e])' = t
    BY <1>9
  <2>8. QED
    BY <2>2, <2>3, <2>4, <2>5, <2>6, <2>7, Zenon DEF Waiting
<1>14. \A r \in Streams : r # s => t \notin OnStream(r)
  BY <1>6, Zenon DEF OnStream
<1>15. ASSUME NEW r \in Streams, task'[r] = "send" PROVE Holding(r)'
  <2>0. r # s
    BY <1>11, <1>15
  <2>1. Holding(r)
    BY <1>11, <1>15, <2>0, Zenon DEF StreamParts
  <2>n. PICK n : n = NumberIn(task_buf[r])
    OBVIOUS
  <2>2. /\ n \in OnStream(r) /\ task_buf[r] = Wires[n] /\ n \notin Done
        /\ \A m \in OnStream(r) : m < n => m \in Done
    BY <2>1, <2>n, Zenon DEF Holding
  <2>3. NumberIn(task_buf[r])' = n
    BY <1>3, <1>11, <2>0, <2>n, Zenon
  <2>4. n \notin Done' /\ Done \subseteq Done'
    <3>1. n # t
      BY <1>14, <2>0, <2>2, Zenon
    <3>2. QED
      BY <1>10, <2>2, <3>1, Zenon
  <2>5. QED
    BY <1>2, <1>4, <1>11, <2>0, <2>2, <2>3, <2>4, Zenon DEF Holding
<1>16. ASSUME NEW r \in Streams PROVE \E ns : Pending(r, ns)'
  <2>1. PICK ns : Pending(r, ns)
    BY Zenon DEF StreamParts
  <2>2. \A x : x \in Past(r)' <=> x \in Past(r) \/ x = t
    <3>1. CASE r = s
      <4>1. Past(r) = Done \cup {t}
        BY <1>1, <1>t, <3>1, Zenon DEF Past
      <4>2. Past(r)' = Done \cup {t}
        BY <1>10, <1>11, <3>1 DEF Past
      <4>3. QED
        BY <4>1, <4>2, Zenon
    <3>2. CASE r # s /\ task[r] = "send"
      <4>n. PICK n : n = NumberIn(task_buf[r])
        OBVIOUS
      <4>1. Past(r) = Done \cup {n}
        BY <3>2, <4>n, Zenon DEF Past
      <4>2. NumberIn(task_buf[r])' = n
        BY <1>3, <1>11, <3>2, <4>n, Zenon
      <4>3. Past(r)' = Done' \cup {n}
        BY <1>11, <3>2, <4>2, Zenon DEF Past
      <4>4. QED
        BY <1>10, <4>1, <4>3
    <3>3. CASE r # s /\ task[r] # "send"
      <4>1. Past(r) = Done /\ Past(r)' = Done'
        BY <1>11, <3>3, Zenon DEF Past
      <4>2. QED
        BY <1>10, <4>1
    <3>4. QED
      BY <3>1, <3>2, <3>3
  <2>3. \A i \in 1 .. Len(ns) : ns[i] # t
    <3>1. \A i \in 1 .. Len(ns) : ns[i] \in OnStream(r) /\ ns[i] \notin Past(r)
      BY <2>1, Zenon DEF Pending
    <3>2. CASE r = s
      <4>1. t \in Past(r)
        BY <1>1, <1>t, <3>2 DEF Past
      <4>2. QED
        BY <3>1, <4>1, Zenon
    <3>3. CASE r # s
      BY <1>14, <3>1, <3>3, Zenon
    <3>4. QED
      BY <3>2, <3>3
  <2>4. Pending(r, ns)'
    BY <1>1, <1>2, <1>4, <2>1, <2>2, <2>3, Zenon DEF Pending
  <2>5. QED
    BY <2>4
<1>17. \A i \in 1 .. Len(rx_recv_bytes') : Waiting(i)'
  BY <1>8, <1>12, <1>13, Zenon
<1>18. QED
  BY <1>1, <1>11, <1>15, <1>16, <1>17, Zenon DEF StreamParts

\* The read loop takes a message from the channel.
LEMMA StreamReadStep ==
    ASSUME HistoryInv, DeliveredInv, StreamParts, UNCHANGED <<kind, compression>>,
           kind = "stream", StreamRead
    PROVE  DeliveredInv' /\ StreamParts'
<1>0. LaneInv /\ SentInv /\ IsSeq(rx_recv_bytes)
  BY DEF HistoryInv, LaneInv, SeqTypes
<1>1. /\ rx_recv_bytes # <<>> /\ ReadLoopTakes(Head(rx_recv_bytes))
      /\ rx_recv_bytes' = Tail(rx_recv_bytes)
      /\ UNCHANGED <<sent, dictionary, stream_bytes, task, task_buf>>
  BY DEF StreamRead, sendVars
<1>2. Wires' = Wires /\ RecvConverter' = RecvConverter
  BY <1>1, NoWrite
<1>3. \A w : NumberIn(w)' = NumberIn(w)
  BY <1>2, Zenon DEF NumberIn
<1>4. \A r : OnStream(r)' = OnStream(r)
  BY <1>1, Zenon DEF OnStream
<1>l. PICK l : l = Len(rx_recv_bytes)
  OBVIOUS
<1>5. /\ l \in Nat /\ l >= 1 /\ Head(rx_recv_bytes) = rx_recv_bytes[1]
      /\ Len(rx_recv_bytes') = l - 1
      /\ \A i \in 1 .. l - 1 : rx_recv_bytes'[i] = rx_recv_bytes[i + 1]
  BY <1>0, <1>1, <1>l, SeqOps
<1>n. PICK n : n = NumberIn(rx_recv_bytes[1])
  OBVIOUS
<1>6. /\ 1 \in 1 .. l /\ 1 .. 1 - 1 = {}
      /\ \A i \in 1 .. l - 1 : i + 1 \in 1 .. l /\ i + 1 # 1
      /\ \A i \in 1 .. l : i = 1 \/ (i - 1 \in 1 .. l - 1 /\ (i - 1) + 1 = i)
  BY <1>5
<1>7. /\ n \in 1 .. Len(sent) /\ rx_recv_bytes[1] = Wires[n] /\ n \notin Got
      /\ \A j \in 1 .. l : n = NumberIn(rx_recv_bytes[j]) => 1 = j
      /\ \A m \in OnStream(sent[n].stream) : m < n => m \in Got
  <2>1. Waiting(1)
    BY <1>6, <1>l, Zenon DEF StreamParts
  <2>2. QED
    BY <1>6, <1>l, <1>n, <2>1, Zenon DEF Waiting
<1>8. ASSUME NEW m \in 1 .. n - 1, SameStream(m, n) PROVE m \in Got
  <2>1. m \in 1 .. Len(sent) /\ m < n
    <3>1. Len(sent) \in Nat
      BY <1>0, WiresAre
    <3>2. QED
      BY <1>7, <3>1
  <2>2. QED
    BY <1>7, <1>8, <2>1, Zenon DEF SameStream, OnStream
<1>9. ext_dictionary = sent[n].with
  BY <1>7, WireNumber
<1>10. DeliveredInv' /\ Got' = Got \cup {n}
  <2>1. ReadLoopTakes(Wires[n])
    BY <1>1, <1>5, <1>7, Zenon
  <2>2. QED
    BY <1>1, <1>7, <1>8, <1>9, <2>1, Delivers
<1>11. \A i \in 1 .. l - 1 : NumberIn(rx_recv_bytes[i])' = NumberIn(rx_recv_bytes[i + 1])
  BY <1>3, <1>5, Zenon
<1>12. Done' = Done
  <2>1. \A x : x \in InChannel' <=> \E i \in 1 .. l - 1 : x = NumberIn(rx_recv_bytes[i])'
    BY <1>5, Zenon DEF InChannel
  <2>2. \A x : x \in InChannel <=> \E i \in 1 .. l : x = NumberIn(rx_recv_bytes[i])
    BY <1>l, Zenon DEF InChannel
  <2>3. \A x : x \in InChannel <=> x = n \/ x \in InChannel'
    <3>1. ASSUME NEW x \in InChannel, x # n PROVE x \in InChannel'
      <4>1. PICK i \in 1 .. l : x = NumberIn(rx_recv_bytes[i])
        BY <2>2
      <4>2. i # 1
        BY <1>n, <3>1, <4>1
      <4>3. i - 1 \in 1 .. l - 1 /\ (i - 1) + 1 = i
        BY <1>6, <4>2
      <4>4. x = NumberIn(rx_recv_bytes[i - 1])'
        BY <1>11, <4>1, <4>3, Zenon
      <4>5. QED
        BY <2>1, <4>3, <4>4
    <3>2. ASSUME NEW x \in InChannel' PROVE x \in InChannel
      <4>1. PICK i \in 1 .. l - 1 : x = NumberIn(rx_recv_bytes[i])'
        BY <2>1
      <4>2. x = NumberIn(rx_recv_bytes[i + 1]) /\ i + 1 \in 1 .. l
        BY <1>6, <1>11, <4>1
      <4>3. QED
        BY <2>2, <4>2
    <3>3. n \in InChannel
      BY <1>6, <1>n, <2>2
    <3>4. QED
      BY <3>1, <3>2, <3>3
  <2>4. QED
    BY <1>10, <2>3 DEF Done
<1>13. ASSUME NEW i \in 1 .. l - 1 PROVE Waiting(i)'
  <2>k. PICK k : k = NumberIn(rx_recv_bytes[i + 1])
    OBVIOUS
  <2>1. /\ k \in 1 .. Len(sent) /\ rx_recv_bytes[i + 1] = Wires[k] /\ k \notin Got
        /\ \A j \in 1 .. l : k = NumberIn(rx_recv_bytes[j]) => i + 1 = j
        /\ \A m \in OnStream(sent[k].stream) :
               m < k => m \in Got \/ \E j \in 1 .. (i + 1) - 1 : m = NumberIn(rx_recv_bytes[j])
    <3>1. Waiting(i + 1)
      BY <1>6, <1>l, Zenon DEF StreamParts
    <3>2. QED
      BY <1>l, <2>k, <3>1, Zenon DEF Waiting
  <2>2. k # n /\ k \notin Got'
    <3>1. k # n
      BY <1>6, <1>7, <2>k, Zenon
    <3>2. QED
      BY <1>10, <2>1, <3>1, Zenon
  <2>3. NumberIn(rx_recv_bytes[i])' = k
    BY <1>11, <2>k
  <2>4. ASSUME NEW j \in 1 .. l - 1, k = NumberIn(rx_recv_bytes[j])' PROVE i = j
    <3>1. i + 1 = j + 1
      BY <1>6, <1>11, <2>1, <2>4, Zenon
    <3>2. QED
      BY <3>1
  <2>5. ASSUME NEW m \in OnStream(sent[k].stream), m < k
        PROVE  m \in Got' \/ \E j \in 1 .. i - 1 : m = NumberIn(rx_recv_bytes[j])'
    <3>1. CASE m \in Got
      BY <1>10, <3>1
    <3>2. CASE \E j \in 1 .. (i + 1) - 1 : m = NumberIn(rx_recv_bytes[j])
      <4>1. PICK j \in 1 .. (i + 1) - 1 : m = NumberIn(rx_recv_bytes[j])
        BY <3>2
      <4>2. CASE j = 1
        BY <1>10, <1>n, <4>1, <4>2
      <4>3. CASE j # 1
        <5>1. j - 1 \in 1 .. i - 1 /\ j - 1 \in 1 .. l - 1 /\ (j - 1) + 1 = j
          BY <1>5, <4>3
        <5>2. m = NumberIn(rx_recv_bytes[j - 1])'
          BY <1>11, <4>1, <5>1, Zenon
        <5>3. QED
          BY <5>1, <5>2
      <4>4. QED
        BY <4>2, <4>3
    <3>3. QED
      BY <2>1, <2>5, <3>1, <3>2, Zenon
  <2>6. OnStream(sent[k].stream)' = OnStream(sent[k].stream)
    BY <1>1, <1>4, Zenon
  <2>7. k \in 1 .. Len(sent') /\ rx_recv_bytes'[i] = Wires'[k]
    BY <1>1, <1>2, <1>5, <2>1, Zenon
  <2>8. QED
    BY <1>1, <1>5, <2>2, <2>3, <2>4, <2>5, <2>6, <2>7, Zenon DEF Waiting
<1>14. \A r \in Streams : Past(r)' = Past(r)
  <2> SUFFICES ASSUME NEW r \in Streams PROVE Past(r)' = Past(r)
    OBVIOUS
  <2>1. CASE task[r] = "send"
    BY <1>1, <1>3, <1>12, <2>1, Zenon DEF Past
  <2>2. CASE task[r] # "send"
    BY <1>1, <1>12, <2>2, Zenon DEF Past
  <2>3. QED
    BY <2>1, <2>2
<1>15. ASSUME NEW r \in Streams PROVE \E ns : Pending(r, ns)'
  <2>1. PICK ns : Pending(r, ns)
    BY Zenon DEF StreamParts
  <2>2. Pending(r, ns)'
    BY <1>1, <1>2, <1>4, <1>14, <2>1, Zenon DEF Pending
  <2>3. QED
    BY <2>2
<1>16. \A r \in Streams : task'[r] = "send" => Holding(r)'
  BY <1>1, <1>2, <1>3, <1>4, <1>12, Zenon DEF StreamParts, Holding
<1>17. \A i \in 1 .. Len(rx_recv_bytes') : Waiting(i)'
  BY <1>5, <1>13, Zenon
<1>18. StreamParts'
  BY <1>1, <1>15, <1>16, <1>17, Zenon DEF StreamParts
<1>19. QED
  BY <1>10, <1>18

\* The messages pass through the streams, the tasks and the channel in order.
LEMMA StreamStep ==
    ASSUME HistoryInv, DeliveredInv, StreamInv, [Next]_vars, kind = "stream"
    PROVE  DeliveredInv' /\ StreamInv'
<1>0. /\ LaneInv /\ UNCHANGED <<kind, compression>> /\ kind # "websocket"
  BY Moves DEF HistoryInv
<1>o. socket = <<>> /\ tx_write_message = <<>> /\ write_task = "ended" /\ datagrams = {}
  BY <1>0 DEF LaneInv, OneLane
<1>t. task \in [Streams -> {"none", "read", "send", "ended"}]
  BY <1>0 DEF LaneInv, SeqTypes
<1>i. reader = "read" => StreamParts
  BY DEF StreamInv
<1>n. ASSUME UNCHANGED delivered, reader' # "read" \/ StreamParts'
      PROVE  DeliveredInv' /\ StreamInv'
  BY <1>n, NotDelivers DEF StreamInv
<1>k. ASSUME UNCHANGED <<compression, sent, dictionary, delivered, rx_recv_bytes, task_buf,
                         stream_bytes>>,
             reader' = "read" => reader = "read",
             \A s \in Streams : reader' = "read" => (task'[s] = "send" <=> task[s] = "send")
      PROVE  DeliveredInv' /\ StreamInv'
  <2>1. reader' = "read" => StreamParts'
    BY <1>i, <1>k, StreamSame
  <2>2. QED
    BY <1>k, <1>n, <2>1
<1>1. ASSUME NEW s \in Streams, NEW len \in StreamLengths, StreamWrite(s, len)
      PROVE  DeliveredInv' /\ StreamInv'
  <2>1. UNCHANGED <<delivered, reader>>
    BY <1>1 DEF StreamWrite, readVars
  <2>2. reader = "read" => StreamParts'
    BY <1>0, <1>1, <1>i, StreamWriteStep
  <2>3. QED
    BY <1>n, <2>1, <2>2
<1>2. ASSUME NEW s \in Streams, TaskRead(s) PROVE DeliveredInv' /\ StreamInv'
  <2>1. UNCHANGED <<delivered, reader>>
    BY <1>2 DEF TaskRead, readVars
  <2>2. reader = "read" => StreamParts'
    BY <1>0, <1>2, <1>i, TaskReadStep
  <2>3. QED
    BY <1>n, <2>1, <2>2
<1>3. ASSUME NEW s \in Streams, TaskSend(s) PROVE DeliveredInv' /\ StreamInv'
  <2>1. UNCHANGED <<delivered, reader>>
    BY <1>3 DEF TaskSend, readVars
  <2>2. reader = "read" => StreamParts'
    BY <1>3, <1>i, TaskSendStep
  <2>3. QED
    BY <1>n, <2>1, <2>2
<1>4. CASE StreamRead
  <2>1. reader = "read"
    BY <1>4 DEF StreamRead
  <2>2. DeliveredInv' /\ StreamParts'
    BY <1>0, <1>4, <1>i, <2>1, StreamReadStep
  <2>3. QED
    BY <2>2 DEF StreamInv
<1>5. ASSUME NEW s \in Streams, Accept(s) \/ TaskEnds(s) PROVE DeliveredInv' /\ StreamInv'
  <2>1. UNCHANGED <<compression, sent, dictionary, delivered, rx_recv_bytes, task_buf,
                    stream_bytes, reader>>
    BY <1>5 DEF Accept, TaskEnds, sendVars, readVars
  <2>2. /\ task' = [task EXCEPT ![s] = "read"] \/ task' = [task EXCEPT ![s] = "ended"]
        /\ reader = "read" => task[s] # "send"
    BY <1>5 DEF Accept, TaskEnds
  <2>3. \A r \in Streams : reader = "read" => (task'[r] = "send" <=> task[r] = "send")
    BY <1>t, <2>2
  <2>4. QED
    BY <1>k, <2>1, <2>3
<1>6. CASE AcceptEnds \/ ReadError \/ WriterClose
  <2>1. /\ UNCHANGED <<compression, sent, dictionary, delivered, rx_recv_bytes, task_buf,
                       stream_bytes, task>>
        /\ reader' = "read" => reader = "read"
    BY <1>6 DEF AcceptEnds, ReadError, WriterClose, sendVars, streamVars, readVars
  <2>2. QED
    BY <1>k, <2>1
<1>7. CASE Idle
  <2>1. /\ UNCHANGED <<compression, sent, dictionary, delivered, rx_recv_bytes, task>>
        /\ reader' = "read" => reader = "read"
    BY <1>7, IdleIs
  <2>2. UNCHANGED <<task_buf, stream_bytes>>
    BY <1>7 DEF Idle, WriteError, CloserClose, ConnLost, DatagramLost, FramesExpire, ReadCommand,
       ReadCancelled, vars, streamVars
  <2>3. QED
    BY <1>k, <2>1, <2>2
\* The rest are steps of the other lanes.
<1>8. /\ ~\E len \in SocketLengths : WebSocketWrite(len)
      /\ ~\E len \in DatagramLengths : DatagramWrite(len)
      /\ ~AnswerPing
  BY DEF WebSocketWrite, DatagramWrite, AnswerPing
<1>9. /\ ~WriteTaskSends /\ ~WriteTaskEnds /\ ~WebSocketRead
      /\ ~\E f \in datagrams, check \in BOOLEAN : DatagramRead(f, check)
  BY <1>o DEF WriteTaskSends, WriteTaskEnds, WebSocketRead
<1>10. QED
  BY <1>1, <1>2, <1>3, <1>4, <1>5, <1>6, <1>7, <1>8, <1>9, Steps, Zenon

-----------------------------------------------------------------------------
(* Segments *)

\* A set of numbers that is not empty has a least one.
LEMMA Least ==
    ASSUME NEW N \in Nat, NEW T, T \subseteq 0 .. N, T # {}
    PROVE  \E n \in T : \A m \in T : n <= m
<1> DEFINE Below(n) == {m \in T : m <= n}
           Downsets == {Below(n) : n \in T}
<1>0. T \subseteq Nat
  OBVIOUS
<1>1. IsFiniteSet(T)
  <2>1. IsFiniteSet(0 .. N)
    BY FS_Interval
  <2>2. QED
    BY <2>1, FS_Subset
<1>2. Downsets \subseteq FiniteSubsetsOf(T) /\ Downsets # {}
  <2>1. \A n \in T : Below(n) \in SUBSET T /\ IsFiniteSet(Below(n))
    BY <1>1, FS_Subset
  <2>2. QED
    BY <2>1 DEF FiniteSubsetsOf
<1>3. PICK D \in Downsets : \A E \in Downsets : ~(<<E, D>> \in StrictSubsetOrdering(T))
  BY <1>2, FS_StrictSubsetOrderingWellFounded, WFMin
<1>4. PICK n \in T : D = Below(n)
  OBVIOUS
<1>5. ASSUME NEW m \in T PROVE n <= m
  <2>0. n \in Nat /\ m \in Nat
    BY <1>0, Zenon
  <2>1. ASSUME m < n PROVE FALSE
    <3>1. Below(m) \subseteq D /\ Below(m) # D /\ D \subseteq T
      <4>1. n <= n /\ ~(n <= m) /\ \A x \in Nat : x <= m => x <= n
        BY <2>0, <2>1
      <4>2. n \in Below(n) /\ n \notin Below(m)
        BY <4>1, Zenon
      <4>3. Below(m) \subseteq Below(n) /\ Below(n) \subseteq T
        BY <1>0, <4>1, Zenon
      <4>4. QED
        BY <1>4, <4>2, <4>3, Zenon
    <3>2. <<Below(m), D>> \in StrictSubsetOrdering(T)
      BY <3>1 DEF StrictSubsetOrdering
    <3>3. QED
      BY <1>3, <3>2
  <2> HIDE DEF Below, Downsets
  <2>2. QED
    BY <2>0, <2>1
<1>6. QED
  BY <1>5

\* Multiples of the size of a segment.
LEMMA Times ==
    /\ \A i \in Nat : /\ i * SegmentSize \in Nat
                      /\ (i + 1) * SegmentSize = i * SegmentSize + SegmentSize
    /\ 0 * SegmentSize = 0 /\ 1 * SegmentSize = SegmentSize
    /\ \A i, j \in Nat : i <= j => i * SegmentSize <= j * SegmentSize
  BY DatagramAssumption

\* The last segment begins inside the message and reaches its end.
LEMMA MaxIs ==
    ASSUME NEW len \in Nat \ {0}
    PROVE  /\ MaxSegmentIndex(len) \in Nat
           /\ MaxSegmentIndex(len) * SegmentSize < len
           /\ len <= MaxSegmentIndex(len) * SegmentSize + SegmentSize
<1> DEFINE i == len \div SegmentSize
<1> DEFINE r == len % SegmentSize
<1>1. i \in Nat /\ r \in Nat /\ r < SegmentSize /\ len = i * SegmentSize + r /\ SegmentSize \in Nat
  BY DatagramAssumption
<1>2. MaxSegmentIndex(len) = IF r = 0 /\ i > 0 THEN i - 1 ELSE i
  BY DEF MaxSegmentIndex
<1> HIDE DEF i, r
<1>3. CASE r = 0 /\ i > 0
  <2>1. MaxSegmentIndex(len) = i - 1 /\ i - 1 \in Nat
    BY <1>1, <1>2, <1>3
  <2>2. ((i - 1) + 1) * SegmentSize = (i - 1) * SegmentSize + SegmentSize
        /\ (i - 1) * SegmentSize \in Nat
    BY <2>1, Times
  <2>3. (i - 1) + 1 = i
    BY <1>1
  <2>p. PICK p : p = (i - 1) * SegmentSize
    OBVIOUS
  <2>4. p \in Nat /\ len = p + SegmentSize + r /\ SegmentSize > 0
    BY <1>1, <2>2, <2>3, <2>p, DatagramAssumption
  <2>5. p < len /\ len <= p + SegmentSize
    BY <1>1, <1>3, <2>4
  <2>6. QED
    BY <2>1, <2>5, <2>p
<1>4. CASE ~(r = 0 /\ i > 0)
  <2>1. MaxSegmentIndex(len) = i
    BY <1>2, <1>4
  <2>p. PICK p : p = i * SegmentSize
    OBVIOUS
  <2>2. p \in Nat /\ len = p + r
    BY <1>1, <2>p, Times
  <2>3. r # 0
    <3>1. CASE i = 0
      <4>1. p = 0
        BY <2>p, <3>1, Times
      <4>2. QED
        BY <1>1, <2>2, <4>1
    <3>2. CASE i # 0
      BY <1>1, <1>4, <3>2
    <3>3. QED
      BY <3>1, <3>2
  <2>4. QED
    BY <1>1, <2>1, <2>2, <2>3, <2>p
<1>5. QED
  BY <1>3, <1>4

\* What a message is cut into: its n-th segment, with the header.
Piece(seq, data, n) ==
    [seq |-> seq, max |-> MaxSegmentIndex(Len(data)), index |-> n - 1,
     data |-> Segment(data, n - 1, MaxSegmentIndex(Len(data)))]

\* Where it ends.
EndOf(data, n) ==
    IF n = MaxSegmentIndex(Len(data)) + 1 THEN Len(data) ELSE n * SegmentSize

\* The ends of the segments.
LEMMA Ends ==
    ASSUME NEW data, IsSeq(data), Len(data) > 0
    PROVE  LET N == MaxSegmentIndex(Len(data)) + 1
           IN  /\ N \in Nat \ {0} /\ EndOf(data, N) = Len(data)
               /\ \A n \in 1 .. N : /\ EndOf(data, n) \in 1 .. Len(data)
                                    /\ (n - 1) * SegmentSize \in Nat
                                    /\ (n - 1) * SegmentSize < EndOf(data, n)
               /\ \A n \in 1 .. N : n # 1 => /\ n - 1 \in 1 .. N
                                             /\ EndOf(data, n - 1) = (n - 1) * SegmentSize
<1>0. Len(data) \in Nat \ {0}
  BY SeqOps
<1>m. PICK max : max = MaxSegmentIndex(Len(data))
  OBVIOUS
<1>l. PICK l : l = Len(data)
  OBVIOUS
<1>1. /\ max \in Nat /\ max * SegmentSize < l /\ l <= max * SegmentSize + SegmentSize
      /\ l \in Nat /\ l > 0 /\ SegmentSize \in Nat /\ SegmentSize > 0
  BY <1>0, <1>l, <1>m, MaxIs, DatagramAssumption
<1>2. \A n : EndOf(data, n) = IF n = max + 1 THEN l ELSE n * SegmentSize
  BY <1>l, <1>m DEF EndOf
<1>3. ASSUME NEW n \in 1 .. max + 1
      PROVE  /\ EndOf(data, n) \in 1 .. l /\ (n - 1) * SegmentSize \in Nat
             /\ (n - 1) * SegmentSize < EndOf(data, n)
  <2>1. n - 1 \in Nat /\ n - 1 <= max /\ (n - 1) + 1 = n
    BY <1>1
  <2>a. PICK a : a = (n - 1) * SegmentSize
    OBVIOUS
  <2>b. PICK b : b = max * SegmentSize
    OBVIOUS
  <2>2. a \in Nat /\ b \in Nat /\ a <= b /\ n * SegmentSize = a + SegmentSize
    BY <1>1, <2>1, <2>a, <2>b, Times
  <2>3. CASE n = max + 1
    <3>1. EndOf(data, n) = l /\ a = b
      <4>1. n - 1 = max
        BY <1>1, <2>3
      <4>2. QED
        BY <1>2, <2>3, <2>a, <2>b, <4>1
    <3>2. QED
      BY <1>1, <2>2, <2>a, <2>b, <3>1
  <2>4. CASE n # max + 1
    <3>1. n \in Nat /\ n <= max
      BY <1>1, <2>4
    <3>2. n * SegmentSize <= b
      BY <1>1, <2>b, <3>1, Times
    <3>3. EndOf(data, n) = a + SegmentSize
      BY <1>2, <2>2, <2>4
    <3>4. a + SegmentSize <= b /\ b < l
      BY <1>1, <2>2, <2>b, <3>2
    <3>5. QED
      BY <1>1, <2>2, <2>a, <3>3, <3>4
  <2>5. QED
    BY <2>3, <2>4
<1>4. ASSUME NEW n \in 1 .. max + 1, n # 1
      PROVE  n - 1 \in 1 .. max + 1 /\ EndOf(data, n - 1) = (n - 1) * SegmentSize
  <2>1. n - 1 \in 1 .. max + 1 /\ n - 1 # max + 1
    BY <1>1, <1>4
  <2>2. QED
    BY <1>2, <2>1
<1>5. max + 1 \in Nat \ {0} /\ EndOf(data, max + 1) = l
  BY <1>1, <1>2
<1>6. QED
  BY <1>3, <1>4, <1>5, <1>l, <1>m

\* d holds the bytes of data from after segment n - 1 to the end of segment n.
Holds(d, data, n) ==
    /\ IsSeq(d) /\ Len(d) = EndOf(data, n) - (n - 1) * SegmentSize
    /\ Len(d) > 0 /\ d # <<>>
    /\ \A k \in 1 .. Len(d) : d[k] = data[(n - 1) * SegmentSize + k]

\* What a segment holds.
LEMMA PieceIs ==
    ASSUME NEW seq, NEW data, IsSeq(data), Len(data) > 0,
           NEW n \in 1 .. MaxSegmentIndex(Len(data)) + 1
    PROVE  Holds(Piece(seq, data, n).data, data, n)
<1> DEFINE d == Piece(seq, data, n).data
<1>m. PICK max : max = MaxSegmentIndex(Len(data))
  OBVIOUS
<1>b. PICK b : b = (n - 1) * SegmentSize
  OBVIOUS
<1>e. PICK e : e = EndOf(data, n)
  OBVIOUS
<1>0. /\ Len(data) \in Nat /\ max \in Nat /\ n \in 1 .. max + 1
      /\ e \in 1 .. Len(data) /\ b \in Nat /\ b < e
  <2>1. Len(data) \in Nat \ {0}
    BY SeqOps
  <2>2. max \in Nat
    BY <1>m, <2>1, MaxIs
  <2>3. QED
    BY <1>b, <1>e, <1>m, <2>1, <2>2, Ends
<1>1. d = SubSeq(data, b + 1, e)
  <2>1. d = Segment(data, n - 1, max)
    BY <1>m DEF Piece
  <2>2. n - 1 = max <=> n = max + 1
    BY <1>0
  <2>3. (n - 1) + 1 = n
    BY <1>0
  <2>4. e = IF n - 1 = max THEN Len(data) ELSE ((n - 1) + 1) * SegmentSize
    BY <1>e, <1>m, <2>2, <2>3, Zenon DEF EndOf
  <2> HIDE DEF d
  <2>5. QED
    BY <1>b, <2>1, <2>4, Zenon DEF Segment
<1> HIDE DEF d
<1>2. /\ IsSeq(d) /\ Len(d) = e - (b + 1) + 1
      /\ \A k \in 1 .. e - (b + 1) + 1 : d[k] = data[(b + 1) + k - 1]
  <2>1. b + 1 \in Nat /\ e \in Nat /\ 1 <= b + 1 /\ b + 1 <= e + 1 /\ e <= Len(data)
    BY <1>0
  <2>2. QED
    BY <1>1, <2>1, Between
<1>3. Len(d) = e - b /\ Len(d) > 0 /\ d # <<>>
  BY <1>0, <1>2, EmptyIs
<1>4. ASSUME NEW k \in 1 .. Len(d) PROVE d[k] = data[b + k]
  <2>1. k \in 1 .. e - (b + 1) + 1 /\ (b + 1) + k - 1 = b + k
    BY <1>0, <1>2
  <2>2. QED
    BY <1>2, <2>1
<1>5. QED
  BY <1>2, <1>3, <1>4, <1>b, <1>e, Zenon DEF d, Holds

\* The segments of a message.
LEMMA SplitIs ==
    ASSUME NEW seq, NEW data, IsSeq(data), Len(data) > 0
    PROVE  LET N == MaxSegmentIndex(Len(data)) + 1
           IN  /\ Range(Split(seq, data)) = {Piece(seq, data, n) : n \in 1 .. N}
               /\ \A n \in 1 .. N : /\ Piece(seq, data, n).seq = seq
                                    /\ Piece(seq, data, n).max = MaxSegmentIndex(Len(data))
                                    /\ Piece(seq, data, n).index = n - 1
<1>1. Split(seq, data) = [n \in 1 .. MaxSegmentIndex(Len(data)) + 1 |-> Piece(seq, data, n)]
  BY DEF Split, Piece
<1>2. \A n : /\ Piece(seq, data, n).seq = seq
             /\ Piece(seq, data, n).max = MaxSegmentIndex(Len(data))
             /\ Piece(seq, data, n).index = n - 1
  BY DEF Piece
<1>3. Range(Split(seq, data)) = {Piece(seq, data, n) : n \in 1 .. MaxSegmentIndex(Len(data)) + 1}
  BY <1>1 DEF Range
<1>4. QED
  BY <1>2, <1>3

-----------------------------------------------------------------------------
(* Putting a message together *)

\* As many as there are, and no two the same: all of them.
LEMMA Onto ==
    ASSUME NEW N \in Nat, NEW g \in [1 .. N -> 1 .. N],
           \A k, l \in 1 .. N : g[k] = g[l] => k = l
    PROVE  \A n \in 1 .. N : \E k \in 1 .. N : g[k] = n
<1>1. IsFiniteSet(1 .. N)
  BY FS_Interval
<1>2. g \in Injection(1 .. N, 1 .. N)
  BY DEF Injection, IsInjective
<1>3. g \in Surjection(1 .. N, 1 .. N)
  BY <1>1, <1>2, FS_Injection
<1>4. QED
  BY <1>3 DEF Surjection

\* Numbers up to N, as many and increasing: 1 to N.
LEMMA Increasing ==
    ASSUME NEW N \in Nat, NEW h \in [1 .. N -> 1 .. N],
           \A m, n \in 1 .. N : m < n => h[m] < h[n]
    PROVE  \A n \in 1 .. N : h[n] = n
<1>1. ASSUME NEW n \in 1 .. N, h[n] < n PROVE FALSE
  <2> DEFINE T == {m \in 1 .. N : h[m] < m}
  <2>1. T \subseteq 0 .. N /\ T # {}
    BY <1>1
  <2>2. PICK l \in T : \A m \in T : l <= m
    <3> HIDE DEF T
    <3>1. QED
      BY <2>1, Least
  <2>3. l \in 1 .. N /\ h[l] < l /\ h[l] \in 1 .. N
    OBVIOUS
  <2>4. l - 1 \in 1 .. N /\ l - 1 < l
    BY <2>3
  <2>5. l - 1 \notin T
    <3> HIDE DEF T
    <3>1. QED
      BY <2>2, <2>3
  <2>6. ~(h[l - 1] < l - 1)
    BY <2>4, <2>5
  <2>7. h[l - 1] < h[l] /\ h[l - 1] \in 1 .. N
    BY <2>3, <2>4
  <2> HIDE DEF T
  <2>8. QED
    BY <2>3, <2>6, <2>7
<1>2. ASSUME NEW n \in 1 .. N, n < h[n] PROVE FALSE
  <2> DEFINE T == {m \in 0 .. N - 1 : N - m < h[N - m]}
  <2>1. T \subseteq 0 .. N
    OBVIOUS
  <2>2. T # {}
    <3>1. N - n \in 0 .. N - 1 /\ N - (N - n) = n
      OBVIOUS
    <3>2. N - n \in T
      BY <1>2, <3>1
    <3> HIDE DEF T
    <3>3. QED
      BY <3>2
  <2>3. PICK l \in T : \A m \in T : l <= m
    <3> HIDE DEF T
    <3>1. QED
      BY <2>1, <2>2, Least
  <2>4. l \in 0 .. N - 1 /\ N - l < h[N - l]
    OBVIOUS
  <2>5. N - l \in 1 .. N /\ h[N - l] \in 1 .. N
    BY <2>4
  <2>6. l - 1 \in 0 .. N - 1 /\ (N - l) + 1 \in 1 .. N /\ N - (l - 1) = (N - l) + 1
        /\ N - l < (N - l) + 1
    <3> HIDE DEF T
    <3>1. QED
      BY <2>4, <2>5
  <2>7. l - 1 \notin T
    <3> HIDE DEF T
    <3>1. QED
      BY <2>3, <2>4
  <2>8. ~((N - l) + 1 < h[(N - l) + 1])
    BY <2>6, <2>7
  <2>9. h[N - l] < h[(N - l) + 1] /\ h[(N - l) + 1] \in 1 .. N
    BY <2>5, <2>6
  <2> HIDE DEF T
  <2>10. QED
    BY <2>4, <2>5, <2>8, <2>9
<1>3. \A n \in 1 .. N : h[n] \in Int /\ n \in Int
  OBVIOUS
<1>4. QED
  BY <1>1, <1>2, <1>3

\* p sorts N frames with indices ix.
Sorts(p, ix, N) ==
    /\ \A m, n \in 1 .. N : p[m] = p[n] => m = n
    /\ \A m, n \in 1 .. N : m < n => ix[p[m]] <= ix[p[n]]

InPlace(p, ix, N) == \A n \in 1 .. N : ix[p[n]] = n - 1

\* The indices 0 to N - 1 can be sorted, and in one order only.
LEMMA OrderIs ==
    ASSUME NEW N \in Nat, NEW ix \in [1 .. N -> 0 .. N - 1],
           \A k, l \in 1 .. N : ix[k] = ix[l] => k = l
    PROVE  /\ \E p \in [1 .. N -> 1 .. N] : Sorts(p, ix, N)
           /\ \A p \in [1 .. N -> 1 .. N] : Sorts(p, ix, N) => InPlace(p, ix, N)
<1> DEFINE g == [k \in 1 .. N |-> ix[k] + 1]
<1>1. g \in [1 .. N -> 1 .. N] /\ \A k \in 1 .. N : g[k] = ix[k] + 1 /\ ix[k] = g[k] - 1
  OBVIOUS
<1>2. \A k, l \in 1 .. N : g[k] = g[l] => k = l
  BY <1>1
<1> HIDE DEF g
<1>3. \A n \in 1 .. N : \E k \in 1 .. N : g[k] = n
  BY <1>1, <1>2, Onto
<1>4. \E p \in [1 .. N -> 1 .. N] : Sorts(p, ix, N)
  <2> DEFINE p == [n \in 1 .. N |-> CHOOSE k \in 1 .. N : g[k] = n]
  <2>1. \A n \in 1 .. N : p[n] \in 1 .. N /\ g[p[n]] = n
    BY <1>3
  <2>2. p \in [1 .. N -> 1 .. N]
    BY <2>1
  <2> HIDE DEF p
  <2>3. \A m, n \in 1 .. N : p[m] = p[n] => m = n
    BY <2>1
  <2>4. ASSUME NEW m \in 1 .. N, NEW n \in 1 .. N, m < n PROVE ix[p[m]] <= ix[p[n]]
    <3>1. ix[p[m]] = m - 1 /\ ix[p[n]] = n - 1
      BY <1>1, <2>1
    <3>2. QED
      BY <2>4, <3>1
  <2>5. Sorts(p, ix, N)
    BY <2>3, <2>4, Zenon DEF Sorts
  <2>6. QED
    BY <2>2, <2>5
<1>5. ASSUME NEW p \in [1 .. N -> 1 .. N], Sorts(p, ix, N), NEW n \in 1 .. N
      PROVE  ix[p[n]] = n - 1
  <2>1. /\ \A m, k \in 1 .. N : p[m] = p[k] => m = k
        /\ \A m, k \in 1 .. N : m < k => ix[p[m]] <= ix[p[k]]
    BY <1>5 DEF Sorts
  <2> DEFINE h == [k \in 1 .. N |-> g[p[k]]]
  <2>2. h \in [1 .. N -> 1 .. N] /\ \A k \in 1 .. N : h[k] = g[p[k]] /\ p[k] \in 1 .. N
    BY <1>1
  <2> HIDE DEF h
  <2>3. ASSUME NEW m \in 1 .. N, NEW k \in 1 .. N, m < k PROVE h[m] < h[k]
    <3>a. PICK a \in 1 .. N : a = p[m]
      BY <2>2
    <3>b. PICK b \in 1 .. N : b = p[k]
      BY <2>2
    <3>1. ix[a] <= ix[b]
      BY <2>1, <2>3, <3>a, <3>b
    <3>2. a # b
      BY <2>1, <2>3, <3>a, <3>b
    <3>3. g[a] # g[b]
      BY <1>2, <3>2
    <3>4. ix[a] = g[a] - 1 /\ ix[b] = g[b] - 1 /\ g[a] \in Int /\ g[b] \in Int
      BY <1>1
    <3>5. g[a] < g[b]
      <4>1. \A x, y \in Int : x - 1 <= y - 1 /\ x # y => x < y
        OBVIOUS
      <4>2. g[a] - 1 <= g[b] - 1
        BY <3>1, <3>4, Zenon
      <4>3. QED
        BY <3>3, <3>4, <4>1, <4>2, Zenon
    <3>6. QED
      BY <2>2, <3>5, <3>a, <3>b
  <2>4. h[n] = n
    BY <2>2, <2>3, Increasing
  <2>5. QED
    BY <1>1, <2>2, <2>4
<1>6. QED
  BY <1>4, <1>5, Zenon DEF InPlace

\* Frame k of N comes at the place of its index.
Places(sorted, frames, ix, N) ==
    /\ DOMAIN sorted = 1 .. N
    /\ \A n \in 1 .. N : \E k \in 1 .. N : sorted[n] = frames[k] /\ ix[k] = n - 1

\* Frames with the indices 0 to N - 1 are put in their order.
LEMMA SortedIs ==
    ASSUME NEW frames, IsSeq(frames), NEW N, N = Len(frames), NEW ix \in [1 .. N -> 0 .. N - 1],
           \A k \in 1 .. N : frames[k].index = ix[k],
           \A k, l \in 1 .. N : ix[k] = ix[l] => k = l
    PROVE  Places(Sorted(frames), frames, ix, N)
<1>0. N \in Nat /\ DOMAIN frames = 1 .. N
  <2>1. N \in Nat
    BY SeqOps
  <2>2. QED
    BY <2>1 DEF IsSeq
<1> DEFINE InOrder(p) == \A m, n \in DOMAIN p : m < n => frames[p[m]].index <= frames[p[n]].index
<1> DEFINE Chosen(p) == IsInjective(p) /\ InOrder(p)
<1> DEFINE order == CHOOSE p \in [DOMAIN frames -> DOMAIN frames] : Chosen(p)
<1>1. Sorted(frames) = [n \in DOMAIN frames |-> frames[order[n]]]
  BY Zenon DEF Sorted
<1>2. ASSUME NEW p \in [1 .. N -> 1 .. N] PROVE Chosen(p) <=> Sorts(p, ix, N)
  <2>1. DOMAIN p = 1 .. N /\ \A n \in 1 .. N : p[n] \in 1 .. N
    OBVIOUS
  <2>2. \A n \in 1 .. N : frames[p[n]].index = ix[p[n]]
    BY <2>1
  <2>3. IsInjective(p) <=> \A m, n \in 1 .. N : p[m] = p[n] => m = n
    BY <2>1, Zenon DEF IsInjective
  <2>4. InOrder(p) <=> \A m, n \in 1 .. N : m < n => ix[p[m]] <= ix[p[n]]
    <3>1. \A m, n \in 1 .. N : frames[p[m]].index <= frames[p[n]].index <=> ix[p[m]] <= ix[p[n]]
      BY <2>2, Zenon
    <3>2. InOrder(p) <=> \A m, n \in 1 .. N : m < n => frames[p[m]].index <= frames[p[n]].index
      BY <2>1, Zenon
    <3> HIDE DEF InOrder
    <3>3. QED
      BY <3>1, <3>2, Zenon
  <2>5. QED
    BY <2>3, <2>4, Zenon DEF Sorts
<1>3. \E p \in [1 .. N -> 1 .. N] : Sorts(p, ix, N)
  BY <1>0, OrderIs
<1>o. \A p \in [1 .. N -> 1 .. N] : Sorts(p, ix, N) => InPlace(p, ix, N)
  BY <1>0, OrderIs
<1> HIDE DEF Chosen
<1>4. \E p \in [1 .. N -> 1 .. N] : Chosen(p)
  BY <1>2, <1>3, Zenon
<1>5. order \in [1 .. N -> 1 .. N] /\ Chosen(order)
  BY <1>0, <1>4, Zenon
<1> HIDE DEF order
<1>6. \A n \in 1 .. N : ix[order[n]] = n - 1
  BY <1>2, <1>5, <1>o, Zenon DEF InPlace
<1>7. \A n \in 1 .. N : order[n] \in 1 .. N /\ Sorted(frames)[n] = frames[order[n]]
  BY <1>0, <1>1, <1>5
<1>8. DOMAIN Sorted(frames) = 1 .. N
  BY <1>0, <1>1
<1>9. QED
  BY <1>6, <1>7, <1>8, Zenon DEF Places

\* The segments of a message, one after the other, are the message.
LEMMA Flattened ==
    ASSUME NEW seq, NEW data, IsSeq(data), Len(data) > 0, NEW q, IsSeq(q),
           Len(q) = MaxSegmentIndex(Len(data)) + 1,
           \A n \in 1 .. Len(q) : q[n] = Piece(seq, data, n).data
    PROVE  FlattenSeq(q) = data
<1>n. PICK N : N = Len(q)
  OBVIOUS
<1>0. N \in Nat \ {0} /\ EndOf(data, N) = Len(data) /\ Len(data) \in Nat
  BY <1>n, Ends, SeqOps
<1> DEFINE e(i) == EndOf(data, i)
<1> DEFINE b(i) == (i - 1) * SegmentSize
<1>1. \A i \in 1 .. N : e(i) \in 1 .. Len(data) /\ b(i) \in Nat /\ b(i) < e(i)
  BY <1>n, Ends
<1>2. \A i \in 1 .. N : i # 1 => i - 1 \in 1 .. N /\ e(i - 1) = b(i)
  BY <1>n, Ends
<1>3. \A i \in 1 .. N : /\ IsSeq(q[i]) /\ Len(q[i]) = e(i) - b(i)
                        /\ \A k \in 1 .. Len(q[i]) : q[i][k] = data[b(i) + k]
  <2> SUFFICES ASSUME NEW i \in 1 .. N
               PROVE  /\ IsSeq(q[i]) /\ Len(q[i]) = e(i) - b(i)
                      /\ \A k \in 1 .. Len(q[i]) : q[i][k] = data[b(i) + k]
    OBVIOUS
  <2>1. i \in 1 .. MaxSegmentIndex(Len(data)) + 1 /\ q[i] = Piece(seq, data, i).data
    BY <1>n
  <2> HIDE DEF e, b
  <2>d. PICK d : d = Piece(seq, data, i).data
    OBVIOUS
  <2>2. /\ IsSeq(d) /\ Len(d) = EndOf(data, i) - (i - 1) * SegmentSize
        /\ \A k \in 1 .. Len(d) : d[k] = data[(i - 1) * SegmentSize + k]
    <3>1. i \in 1 .. MaxSegmentIndex(Len(data)) + 1
      BY <2>1
    <3>2. Holds(d, data, i)
      BY <2>d, <3>1, PieceIs
    <3>3. QED
      BY <3>2, Zenon DEF Holds
  <2>3. QED
    BY <2>1, <2>2, <2>d, Zenon DEF e, b
<1>4. b(1) = 0
  BY Times
<1> HIDE DEF e, b
<1> DEFINE g == [i \in 1 .. N |-> SubSeq(data, 1, e(i))]
<1>5. \A i \in 1 .. N : /\ IsSeq(g[i]) /\ Len(g[i]) = e(i)
                        /\ \A k \in 1 .. e(i) : g[i][k] = data[k]
  <2> SUFFICES ASSUME NEW i \in 1 .. N
               PROVE  /\ IsSeq(g[i]) /\ Len(g[i]) = e(i)
                      /\ \A k \in 1 .. e(i) : g[i][k] = data[k]
    OBVIOUS
  <2>1. g[i] = SubSeq(data, 1, e(i))
    OBVIOUS
  <2>s. PICK s : s = e(i)
    OBVIOUS
  <2>2. s \in Nat /\ 1 \in Nat /\ 1 <= 1 /\ 1 <= s + 1 /\ s <= Len(data) /\ s - 1 + 1 = s
        /\ \A k \in 1 .. s : 1 + k - 1 = k
    BY <1>0, <1>1, <2>s
  <2> DEFINE p == SubSeq(data, 1, s)
  <2>3. /\ IsSeq(p) /\ Len(p) = s - 1 + 1
        /\ \A k \in 1 .. s - 1 + 1 : p[k] = data[1 + k - 1]
    BY <2>2, Between
  <2> HIDE DEF p, g
  <2>4. IsSeq(p) /\ Len(p) = s /\ \A k \in 1 .. s : p[k] = data[k]
    BY <2>2, <2>3
  <2>5. QED
    BY <2>1, <2>4, <2>s, Zenon DEF p
<1>6. \A i \in 1 .. N : g[i] = IF i = 1 THEN q[i] ELSE g[i - 1] \o q[i]
  <2> SUFFICES ASSUME NEW i \in 1 .. N
               PROVE  g[i] = IF i = 1 THEN q[i] ELSE g[i - 1] \o q[i]
    OBVIOUS
  <2> HIDE DEF g
  <2>1. CASE i = 1
    <3>1. /\ IsSeq(g[1]) /\ Len(g[1]) = e(1) /\ \A k \in 1 .. e(1) : g[1][k] = data[k]
      BY <1>5, <2>1
    <3>2. /\ IsSeq(q[1]) /\ Len(q[1]) = e(1) - b(1)
          /\ \A k \in 1 .. Len(q[1]) : q[1][k] = data[b(1) + k]
      BY <1>3, <2>1
    <3>3. e(1) \in Nat
      BY <1>1, <2>1
    <3>4. Len(q[1]) = e(1) /\ \A k \in 1 .. e(1) : b(1) + k = k
      BY <1>4, <3>2, <3>3
    <3>x. PICK x : x = g[1]
      OBVIOUS
    <3>y. PICK y : y = q[1]
      OBVIOUS
    <3>z. PICK z : z = e(1)
      OBVIOUS
    <3>5. ASSUME NEW k \in 1 .. z PROVE x[k] = y[k]
      <4>1. x[k] = data[k]
        BY <3>1, <3>x, <3>z, Zenon
      <4>2. y[k] = data[b(1) + k] /\ b(1) + k = k
        BY <3>2, <3>4, <3>y, <3>z, Zenon
      <4>3. QED
        BY <4>1, <4>2, Zenon
    <3>6. IsSeq(x) /\ IsSeq(y) /\ Len(x) = z /\ Len(y) = z
      BY <3>1, <3>2, <3>4, <3>x, <3>y, <3>z, Zenon
    <3>7. x = y
      BY <3>5, <3>6, SameSeq
    <3>8. QED
      BY <2>1, <3>7, <3>x, <3>y, Zenon
  <2>2. CASE i # 1
    <3>1. i - 1 \in 1 .. N /\ e(i - 1) = b(i)
      BY <1>2, <2>2
    <3>x. PICK x : x = g[i - 1]
      OBVIOUS
    <3>y. PICK y : y = q[i]
      OBVIOUS
    <3>z. PICK z : z = g[i]
      OBVIOUS
    <3>c. PICK c : c = b(i)
      OBVIOUS
    <3>d. PICK d : d = e(i)
      OBVIOUS
    <3>2. IsSeq(x) /\ Len(x) = c /\ \A k \in 1 .. c : x[k] = data[k]
      BY <1>5, <3>1, <3>c, <3>x, Zenon
    <3>3. IsSeq(y) /\ Len(y) = d - c /\ \A k \in 1 .. d - c : y[k] = data[c + k]
      BY <1>3, <3>c, <3>d, <3>y, Zenon
    <3>4. IsSeq(z) /\ Len(z) = d /\ \A k \in 1 .. d : z[k] = data[k]
      BY <1>5, <3>d, <3>z, Zenon
    <3>5. c \in Nat /\ d \in Nat /\ c < d
      BY <1>1, <3>c, <3>d
    <3>6. /\ IsSeq(x \o y) /\ Len(x \o y) = Len(x) + Len(y)
          /\ \A k \in 1 .. Len(x) : (x \o y)[k] = x[k]
          /\ \A k \in 1 .. Len(y) : (x \o y)[Len(x) + k] = y[k]
      <4>1. IsSeq(x) /\ IsSeq(y)
        BY <3>2, <3>3
      <4>2. QED
        BY <4>1, Joining
    <3>p. PICK p : p = x \o y
      OBVIOUS
    <3>7. /\ IsSeq(p) /\ Len(p) = d
          /\ \A k \in 1 .. c : p[k] = data[k]
          /\ \A k \in 1 .. d - c : p[c + k] = data[c + k]
      <4>1. Len(p) = Len(x) + Len(y) /\ Len(x) + Len(y) = d
        BY <3>2, <3>3, <3>5, <3>6, <3>p
      <4>2. \A k \in 1 .. c : p[k] = data[k]
        BY <3>2, <3>6, <3>p, Zenon
      <4>3. \A k \in 1 .. d - c : p[c + k] = data[c + k]
        BY <3>2, <3>3, <3>6, <3>p, Zenon
      <4>4. QED
        BY <3>6, <3>p, <4>1, <4>2, <4>3, Zenon
    <3>8. ASSUME NEW k \in 1 .. d PROVE p[k] = z[k]
      <4>1. z[k] = data[k]
        BY <3>4
      <4>2. CASE k <= c
        <5>1. k \in 1 .. c
          BY <3>5, <4>2
        <5>2. QED
          BY <3>7, <4>1, <5>1
      <4>3. CASE ~(k <= c)
        <5>1. k - c \in 1 .. d - c /\ c + (k - c) = k
          BY <3>5, <4>3
        <5>2. p[c + (k - c)] = data[c + (k - c)]
          BY <3>7, <5>1, Zenon
        <5>3. QED
          BY <4>1, <5>1, <5>2, Zenon
      <4>4. QED
        BY <4>2, <4>3
    <3>9. p = z
      BY <3>4, <3>7, <3>8, SameSeq
    <3>10. QED
      BY <2>2, <3>9, <3>p, <3>x, <3>y, <3>z, Zenon
  <2>3. QED
    BY <2>1, <2>2
<1>7. g = [i \in 1 .. N |-> IF i = 1 THEN q[i] ELSE g[i - 1] \o q[i]]
  <2>1. g = [i \in 1 .. N |-> g[i]]
    OBVIOUS
  <2> HIDE DEF g
  <2>2. QED
    BY <1>6, <2>1, Zenon
<1>8. g[N] = data
  <2>1. /\ IsSeq(g[N]) /\ Len(g[N]) = Len(data) /\ \A k \in 1 .. Len(data) : g[N][k] = data[k]
    <3>1. N \in 1 .. N /\ e(N) = Len(data)
      BY <1>0 DEF e
    <3> HIDE DEF g
    <3>2. QED
      BY <1>5, <3>1, Zenon
  <2> HIDE DEF g
  <2>2. QED
    BY <2>1, SameSeq
<1> HIDE DEF g
<1> DEFINE Flattens(f) == f = [i \in 1 .. Len(q) |-> IF i = 1 THEN q[i] ELSE f[i - 1] \o q[i]]
<1>9. PICK f : f = CHOOSE h : Flattens(h)
  OBVIOUS
<1>10. FlattenSeq(q) = f[N]
  <2>1. Len(q) # 0
    BY <1>0, <1>n
  <2>2. QED
    BY <1>9, <1>n, <2>1 DEF FlattenSeq
<1>11. Flattens(f)
  <2>1. Flattens(g)
    BY <1>7, <1>n, Zenon
  <2> HIDE DEF Flattens
  <2>2. QED
    BY <1>9, <2>1, Zenon
<1>12. \A i \in 1 .. N : f[i] = IF i = 1 THEN q[i] ELSE f[i - 1] \o q[i]
  BY <1>11, <1>n
<1> HIDE DEF Flattens
<1>13. ASSUME NEW i \in 1 .. N, f[i] # g[i] PROVE FALSE
  <2> DEFINE T == {k \in 1 .. N : f[k] # g[k]}
  <2>1. T \subseteq 0 .. N /\ T # {}
    BY <1>13
  <2>2. PICK l \in T : \A k \in T : l <= k
    <3> HIDE DEF T
    <3>1. QED
      BY <1>0, <2>1, Least
  <2>3. l \in 1 .. N /\ f[l] # g[l]
    BY <2>2
  <2>4. CASE l = 1
    BY <1>6, <1>12, <2>3, <2>4, Zenon
  <2>5. CASE l # 1
    <3>1. l - 1 \in 1 .. N /\ ~(l <= l - 1)
      <4> HIDE DEF T
      <4>1. QED
        BY <1>0, <2>3, <2>5
    <3>2. f[l - 1] = g[l - 1]
      BY <2>2, <3>1, Zenon
    <3>3. f[l] = f[l - 1] \o q[l]
      BY <1>12, <2>3, <2>5, Zenon
    <3>4. g[l] = g[l - 1] \o q[l]
      BY <1>6, <2>3, <2>5, Zenon
    <3>5. QED
      BY <2>3, <3>2, <3>3, <3>4, Zenon
  <2>6. QED
    BY <2>4, <2>5
<1>14. N \in 1 .. N
  BY <1>0
<1>15. QED
  BY <1>8, <1>10, <1>13, <1>14, Zenon

\* As many different segments of a message as it has, in whatever order they
\* came, are joined to the message.
LEMMA JoinIs ==
    ASSUME NEW seq, NEW data, IsSeq(data), Len(data) > 0, NEW frames, IsSeq(frames),
           Len(frames) = MaxSegmentIndex(Len(data)) + 1, IsInjective(frames),
           Range(frames) \subseteq Range(Split(seq, data))
    PROVE  JoinFrames(frames) = data
<1>n. PICK N : N = Len(frames)
  OBVIOUS
<1>0. N \in Nat \ {0} /\ DOMAIN frames = 1 .. N
  <2>1. N \in Nat \ {0}
    BY <1>n, Ends
  <2>2. DOMAIN frames = 1 .. Len(frames)
    BY DEF IsSeq
  <2>3. QED
    BY <1>n, <2>1, <2>2
<1>1. ASSUME NEW k \in 1 .. N PROVE \E n \in 1 .. N : frames[k] = Piece(seq, data, n)
  <2>1. frames[k] \in Range(Split(seq, data))
    BY <1>0, Zenon DEF Range
  <2>2. Range(Split(seq, data))
            = {Piece(seq, data, n) : n \in 1 .. MaxSegmentIndex(Len(data)) + 1}
    BY SplitIs
  <2>3. QED
    BY <1>n, <2>1, <2>2, Zenon
<1> DEFINE num == [k \in 1 .. N |-> CHOOSE n \in 1 .. N : frames[k] = Piece(seq, data, n)]
<1>2. \A k \in 1 .. N : num[k] \in 1 .. N /\ frames[k] = Piece(seq, data, num[k])
  BY <1>1, Zenon
<1> HIDE DEF num
<1> DEFINE ix == [k \in 1 .. N |-> num[k] - 1]
<1>3. ix \in [1 .. N -> 0 .. N - 1] /\ \A k \in 1 .. N : ix[k] = num[k] - 1
  BY <1>0, <1>2
<1> HIDE DEF ix
<1>4. \A k \in 1 .. N : frames[k].index = ix[k]
  <2>1. \A n : Piece(seq, data, n).index = n - 1
    BY DEF Piece
  <2>2. QED
    BY <1>2, <1>3, <2>1, Zenon
<1>5. ASSUME NEW k \in 1 .. N, NEW l \in 1 .. N, ix[k] = ix[l] PROVE k = l
  <2>1. num[k] = num[l]
    BY <1>2, <1>3, <1>5
  <2>2. frames[k] = frames[l]
    BY <1>2, <2>1, Zenon
  <2>3. QED
    BY <1>0, <2>2, Zenon DEF IsInjective
<1>p. PICK sorted : sorted = Sorted(frames)
  OBVIOUS
<1>6. /\ DOMAIN sorted = 1 .. N
      /\ \A n \in 1 .. N : \E k \in 1 .. N : sorted[n] = frames[k] /\ ix[k] = n - 1
  <2>1. ix \in [1 .. N -> 0 .. N - 1]
    BY <1>3
  <2>2. \A k, l \in 1 .. N : ix[k] = ix[l] => k = l
    BY <1>5
  <2>3. Places(Sorted(frames), frames, ix, N)
    BY <1>4, <1>n, <2>1, <2>2, SortedIs
  <2>4. QED
    BY <1>p, <2>3, Zenon DEF Places
<1>7. ASSUME NEW n \in 1 .. N PROVE sorted[n] = Piece(seq, data, n)
  <2>1. PICK k \in 1 .. N : sorted[n] = frames[k] /\ ix[k] = n - 1
    BY <1>6
  <2>2. num[k] = n
    BY <1>2, <1>3, <2>1
  <2>3. QED
    BY <1>2, <2>1, <2>2, Zenon
<1> DEFINE q == [n \in DOMAIN sorted |-> sorted[n].data]
<1>8. q = [n \in 1 .. N |-> q[n]] /\ \A n \in 1 .. N : q[n] = Piece(seq, data, n).data
  BY <1>6, <1>7, Zenon
<1>9. JoinFrames(frames) = FlattenSeq(q)
  BY <1>p, Zenon DEF JoinFrames
<1> HIDE DEF q
<1>10. IsSeq(q) /\ Len(q) = N
  BY <1>0, <1>8, FunIsSeq
<1>11. FlattenSeq(q) = data
  <2>1. Len(q) = MaxSegmentIndex(Len(data)) + 1
    BY <1>10, <1>n
  <2>2. \A n \in 1 .. Len(q) : q[n] = Piece(seq, data, n).data
    BY <1>8, <1>10, Zenon
  <2>3. IsSeq(q)
    BY <1>10
  <2>4. QED
    BY <2>1, <2>2, <2>3, Flattened, Zenon
<1>12. QED
  BY <1>9, <1>11

\* A message of one segment is the segment.
LEMMA OnePiece ==
    ASSUME NEW seq, NEW data, IsSeq(data), Len(data) > 0, MaxSegmentIndex(Len(data)) = 0
    PROVE  Piece(seq, data, 1).data = data
<1>d. PICK d : d = Piece(seq, data, 1).data
  OBVIOUS
<1>0. 0 + 1 = 1 /\ 1 \in 1 .. 0 + 1 /\ 1 - 1 = 0 /\ 0 * SegmentSize = 0
  BY Times
<1>1. Holds(d, data, 1)
  <2>1. 1 \in 1 .. MaxSegmentIndex(Len(data)) + 1
    BY <1>0
  <2>2. QED
    BY <1>d, <2>1, PieceIs
<1>2. EndOf(data, 1) = Len(data)
  BY <1>0, Zenon DEF EndOf
<1>3. /\ IsSeq(d) /\ Len(d) = Len(data) - 0
      /\ \A k \in 1 .. Len(d) : d[k] = data[0 + k]
  BY <1>0, <1>1, <1>2, Zenon DEF Holds
<1>4. Len(data) \in Nat
  BY SeqOps
<1>5. Len(d) = Len(data)
  BY <1>3, <1>4
<1>6. ASSUME NEW k \in 1 .. Len(d) PROVE d[k] = data[k]
  <2>1. 0 + k = k
    BY <1>4, <1>5
  <2>2. QED
    BY <1>3, <2>1, Zenon
<1>7. QED
  BY <1>3, <1>5, <1>6, <1>d, SameSeq

\* Different segments of a message are all of them if and only if they are as many.
LEMMA Counted ==
    ASSUME NEW seq, NEW data, IsSeq(data), Len(data) > 0, NEW frames, IsSeq(frames),
           IsInjective(frames), Range(frames) \subseteq Range(Split(seq, data))
    PROVE  /\ Len(frames) = MaxSegmentIndex(Len(data)) + 1
                  => Range(frames) = Range(Split(seq, data))
           /\ Len(frames) < MaxSegmentIndex(Len(data)) + 1
                  => Range(frames) # Range(Split(seq, data))
<1>n. PICK N : N = MaxSegmentIndex(Len(data)) + 1
  OBVIOUS
<1>l. PICK l : l = Len(frames)
  OBVIOUS
<1>s. PICK S : S = Range(Split(seq, data))
  OBVIOUS
<1>0. N \in Nat \ {0} /\ l \in Nat /\ DOMAIN frames = 1 .. l
  <2>1. N \in Nat \ {0}
    BY <1>n, Ends
  <2>2. DOMAIN frames = 1 .. Len(frames)
    BY DEF IsSeq
  <2>3. l \in Nat
    BY <1>l, SeqOps
  <2>4. QED
    BY <1>l, <2>1, <2>2, <2>3
<1>1. S = {Piece(seq, data, n) : n \in 1 .. N}
  BY <1>n, <1>s, SplitIs
<1>c. \A m \in Nat : IsFiniteSet(1 .. m) /\ Cardinality(1 .. m) = m
  <2> SUFFICES ASSUME NEW m \in Nat PROVE IsFiniteSet(1 .. m) /\ Cardinality(1 .. m) = m
    OBVIOUS
  <2>1. /\ IsFiniteSet(1 .. m)
        /\ Cardinality(1 .. m) = IF 1 > m THEN 0 ELSE m - 1 + 1
    BY FS_Interval
  <2>2. (IF 1 > m THEN 0 ELSE m - 1 + 1) = m
    OBVIOUS
  <2>3. QED
    BY <2>1, <2>2
<1>2. IsFiniteSet(S) /\ Cardinality(S) = N
  <2> DEFINE g == [n \in 1 .. N |-> Piece(seq, data, n)]
  <2>1. g \in [1 .. N -> S] /\ \A n \in 1 .. N : g[n] = Piece(seq, data, n)
    BY <1>1
  <2> HIDE DEF g
  <2>2. ASSUME NEW m \in 1 .. N, NEW n \in 1 .. N, g[m] = g[n] PROVE m = n
    <3>1. \A k : Piece(seq, data, k).index = k - 1
      BY DEF Piece
    <3>2. m - 1 = n - 1
      BY <2>1, <2>2, <3>1, Zenon
    <3>3. QED
      BY <3>2
  <2>3. \A f \in S : \E n \in 1 .. N : g[n] = f
    BY <1>1, <2>1, Zenon
  <2>4. g \in Bijection(1 .. N, S)
    BY <2>1, <2>2, <2>3, Zenon DEF Bijection, Injection, Surjection, IsInjective
  <2>5. ExistsBijection(1 .. N, S)
    BY <2>4 DEF ExistsBijection
  <2>6. IsFiniteSet(1 .. N) /\ Cardinality(1 .. N) = N
    BY <1>0, <1>c
  <2>7. QED
    BY <2>5, <2>6, FS_Bijection
<1>3. IsFiniteSet(1 .. l) /\ Cardinality(1 .. l) = l
  BY <1>0, <1>c
<1>4. frames \in [1 .. l -> S]
  <2>1. \A k \in 1 .. l : frames[k] \in S
    BY <1>0, <1>s, Zenon DEF Range
  <2>2. frames = [k \in 1 .. l |-> frames[k]]
    BY <1>l DEF IsSeq
  <2>3. QED
    BY <2>1, <2>2
<1>5. frames \in Injection(1 .. l, S)
  BY <1>0, <1>4, Zenon DEF Injection, IsInjective
<1>6. ASSUME l = N PROVE Range(frames) = S
  <2>1. frames \in Surjection(1 .. l, S)
    <3>1. Cardinality(1 .. l) = Cardinality(S)
      BY <1>2, <1>3, <1>6, Zenon
    <3>2. Cardinality(1 .. l) = Cardinality(S) <=> frames \in Surjection(1 .. l, S)
      BY <1>2, <1>5, FS_Injection, Zenon
    <3>3. QED
      BY <3>1, <3>2, Zenon
  <2>2. \A f \in S : \E k \in 1 .. l : frames[k] = f
    BY <2>1, Zenon DEF Surjection
  <2>3. S \subseteq Range(frames)
    BY <1>0, <2>2, Zenon DEF Range
  <2>4. QED
    BY <1>s, <2>3
<1>7. ASSUME l < N, Range(frames) = S PROVE FALSE
  <2>1. \A f \in S : \E k \in 1 .. l : frames[k] = f
    BY <1>0, <1>7, Zenon DEF Range
  <2>2. frames \in Surjection(1 .. l, S)
    BY <1>4, <2>1, Zenon DEF Surjection
  <2>3. Cardinality(S) <= Cardinality(1 .. l)
    BY <1>3, <2>2, FS_Surjection
  <2>4. QED
    BY <1>0, <1>2, <1>3, <1>7, <2>3
<1>8. QED
  BY <1>6, <1>7, <1>l, <1>n, <1>s

-----------------------------------------------------------------------------
(* What the network and the frame buffer hold *)

\* Messages that can be cut.
Messages(W) == IsSeq(W) /\ \A n \in 1 .. Len(W) : IsSeq(W[n]) /\ Len(W[n]) > 0

\* The segments of message n.
Cut(W, n) == Range(Split(n - 1, W[n]))

\* A frame tells its message.
LEMMA CutIs ==
    ASSUME NEW W, Messages(W), NEW n \in 1 .. Len(W), NEW f \in Cut(W, n)
    PROVE  /\ f.seq = n - 1 /\ f.max = MaxSegmentIndex(Len(W[n])) /\ f.max \in Nat
           /\ f.data # <<>>
           /\ f.max = 0 => f.data = W[n] /\ Cut(W, n) = {f}
<1>0. IsSeq(W[n]) /\ Len(W[n]) > 0
  BY DEF Messages
<1>s. PICK seq : seq = n - 1
  OBVIOUS
<1>d. PICK data : data = W[n]
  OBVIOUS
<1>m. PICK max : max = MaxSegmentIndex(Len(data))
  OBVIOUS
<1>1. IsSeq(data) /\ Len(data) > 0
  BY <1>0, <1>d
<1>2. Cut(W, n) = {Piece(seq, data, i) : i \in 1 .. max + 1}
  <2>1. Range(Split(seq, data)) = {Piece(seq, data, i) : i \in 1 .. max + 1}
    BY <1>1, <1>m, SplitIs
  <2>2. QED
    BY <1>d, <1>s, <2>1, Zenon DEF Cut
<1>3. PICK i \in 1 .. max + 1 : f = Piece(seq, data, i)
  BY <1>2
<1>4. f.seq = seq /\ f.max = max
  BY <1>3, <1>m DEF Piece
<1>5. max \in Nat
  <2>1. Len(data) \in Nat \ {0}
    BY <1>1, SeqOps
  <2>2. QED
    BY <1>m, <2>1, MaxIs
<1>6. f.data # <<>>
  <2>1. i \in 1 .. MaxSegmentIndex(Len(data)) + 1
    BY <1>m
  <2>2. Holds(Piece(seq, data, i).data, data, i)
    BY <1>1, <2>1, PieceIs
  <2>3. QED
    BY <1>3, <2>2, Zenon DEF Holds
<1>7. ASSUME max = 0 PROVE f.data = data /\ Cut(W, n) = {f}
  <2>1. 1 .. max + 1 = {1}
    BY <1>7
  <2>2. i = 1
    BY <2>1
  <2>3. Piece(seq, data, 1).data = data
    BY <1>1, <1>7, <1>m, OnePiece
  <2>4. f.data = data
    BY <1>3, <2>2, <2>3, Zenon
  <2>5. Cut(W, n) = {f}
    BY <1>2, <1>3, <2>1, <2>2, Zenon
  <2>6. QED
    BY <2>4, <2>5
<1>8. QED
  BY <1>4, <1>5, <1>6, <1>7, <1>d, <1>m, <1>s

\* An entry e of the frame buffer: some of the segments of the message, and not all;
\* none of them is still on its way.
Collecting(e, seq, data, dg) ==
    /\ e = [expired |-> e.expired, needed |-> e.needed, frames |-> e.frames]
    /\ e.needed = MaxSegmentIndex(Len(data)) + 1
    /\ IsSeq(e.frames) /\ Len(e.frames) > 0 /\ Len(e.frames) < e.needed
    /\ IsInjective(e.frames) /\ Range(e.frames) \subseteq Range(Split(seq, data)) \ dg

\* Segment f is on its way, or in the buffer.
Held(f, seq, dg, fb) == f \in dg \/ (seq \in DOMAIN fb /\ f \in Range(fb[seq].frames))

\* Of the messages W, the datagrams dg on their way and the buffer fb hold segments
\* of those that were not delivered, and all segments of those that lost none.
Assembled(W, dg, fb, lost, got) ==
    /\ got \subseteq 1 .. Len(W)
    /\ \A f \in dg : \E n \in 1 .. Len(W) : f \in Cut(W, n)
    /\ \A s \in DOMAIN fb : \E n \in 1 .. Len(W) : s = n - 1 /\ Collecting(fb[s], s, W[n], dg)
    /\ \A n \in got : n - 1 \notin DOMAIN fb /\ \A f \in dg : f.seq # n - 1
    /\ \A n \in 1 .. Len(W) :
           n - 1 \in lost \/ n \in got \/ \A f \in Cut(W, n) : Held(f, n - 1, dg, fb)

\* With fewer datagrams on their way an entry is what it was.
LEMMA CollectingFewer ==
    ASSUME NEW e, NEW seq, NEW data, NEW dg, NEW rest, rest \subseteq dg,
           Collecting(e, seq, data, dg)
    PROVE  Collecting(e, seq, data, rest)
  BY Zenon DEF Collecting

\* A message is cut and sent.
LEMMA AssembledWrite ==
    ASSUME NEW W, NEW dg, NEW fb, NEW lost, NEW got, Messages(W), Assembled(W, dg, fb, lost, got),
           NEW w, IsSeq(w), Len(w) > 0
    PROVE  Assembled(Append(W, w), dg \cup Range(Split(Len(W), w)), fb, lost, got)
<1>v. PICK V : V = Append(W, w)
  OBVIOUS
<1>l. PICK l : l = Len(W)
  OBVIOUS
<1>t. PICK t : t = Range(Split(Len(W), w))
  OBVIOUS
<1>1. /\ IsSeq(V) /\ l \in Nat /\ Len(V) = l + 1 /\ V[l + 1] = w
      /\ \A n \in 1 .. l : V[n] = W[n]
  BY <1>l, <1>v, SeqOps DEF Messages
<1>2. Messages(V)
  <2>1. ASSUME NEW n \in 1 .. Len(V) PROVE IsSeq(V[n]) /\ Len(V[n]) > 0
    <3>1. CASE n \in 1 .. l
      BY <1>1, <1>l, <3>1 DEF Messages
    <3>2. CASE n = l + 1
      BY <1>1, <3>2
    <3>3. QED
      BY <1>1, <3>1, <3>2
  <2>2. QED
    BY <1>1, <2>1 DEF Messages
<1>3. /\ l + 1 \in 1 .. Len(V) /\ (l + 1) - 1 = l /\ 1 .. Len(V) = (1 .. l) \cup {l + 1}
      /\ \A n \in 1 .. l : n \in 1 .. Len(V) /\ n - 1 # l
  BY <1>1
<1>4. Cut(V, l + 1) = t /\ \A n \in 1 .. l : Cut(V, n) = Cut(W, n)
  BY <1>1, <1>3, <1>l, <1>t, Zenon DEF Cut
<1>5. \A f \in t : f.seq = l
  BY <1>2, <1>3, <1>4, CutIs
<1>6. \A n \in 1 .. l : \A f \in Cut(W, n) : f.seq = n - 1
  BY <1>l, CutIs
<1>7. /\ got \subseteq 1 .. l
      /\ \A f \in dg : \E n \in 1 .. l : f \in Cut(W, n)
      /\ \A s \in DOMAIN fb : \E n \in 1 .. l : s = n - 1 /\ Collecting(fb[s], s, W[n], dg)
      /\ \A n \in got : n - 1 \notin DOMAIN fb /\ \A f \in dg : f.seq # n - 1
      /\ \A n \in 1 .. l :
             n - 1 \in lost \/ n \in got \/ \A f \in Cut(W, n) : Held(f, n - 1, dg, fb)
  BY <1>l, Zenon DEF Assembled
<1>8. got \subseteq 1 .. Len(V)
  BY <1>3, <1>7, Zenon
<1>9. \A f \in dg \cup t : \E n \in 1 .. Len(V) : f \in Cut(V, n)
  BY <1>3, <1>4, <1>7, Zenon
<1>10. ASSUME NEW s \in DOMAIN fb
       PROVE  \E n \in 1 .. Len(V) : s = n - 1 /\ Collecting(fb[s], s, V[n], dg \cup t)
  <2>1. PICK n \in 1 .. l : s = n - 1 /\ Collecting(fb[s], s, W[n], dg)
    BY <1>7
  <2>2. Range(fb[s].frames) \subseteq Cut(W, n) \ dg
    BY <2>1, Zenon DEF Collecting, Cut
  <2>3. \A f \in Range(fb[s].frames) : f \notin t
    BY <1>3, <1>5, <1>6, <2>2, Zenon
  <2>4. Range(fb[s].frames) \subseteq Range(Split(s, W[n])) \ (dg \cup t)
    BY <2>1, <2>2, <2>3, Zenon DEF Cut
  <2>5. Collecting(fb[s], s, W[n], dg \cup t)
    BY <2>1, <2>4, Zenon DEF Collecting
  <2>6. QED
    BY <1>1, <1>3, <2>1, <2>5, Zenon
<1>11. \A n \in got : n - 1 \notin DOMAIN fb /\ \A f \in dg \cup t : f.seq # n - 1
  BY <1>3, <1>5, <1>7, Zenon
<1>12. ASSUME NEW n \in 1 .. Len(V)
       PROVE  n - 1 \in lost \/ n \in got \/ \A f \in Cut(V, n) : Held(f, n - 1, dg \cup t, fb)
  <2>1. CASE n \in 1 .. l
    BY <1>4, <1>7, <2>1, Zenon DEF Held
  <2>2. CASE n = l + 1
    BY <1>4, <2>2, Zenon DEF Held
  <2>3. QED
    BY <1>3, <2>1, <2>2
<1>13. Assembled(V, dg \cup t, fb, lost, got)
  BY <1>8, <1>9, <1>10, <1>11, <1>12, Zenon DEF Assembled
<1>14. QED
  BY <1>13, <1>t, <1>v

\* A datagram is lost.
LEMMA AssembledLost ==
    ASSUME NEW W, NEW dg, NEW fb, NEW lost, NEW got, Messages(W), Assembled(W, dg, fb, lost, got),
           NEW f
    PROVE  Assembled(W, dg \ {f}, fb, lost \cup {f.seq}, got)
<1>1. \A n \in 1 .. Len(W) : \A g \in Cut(W, n) : g.seq = n - 1
  BY CutIs
<1>2. \A s \in DOMAIN fb : \E n \in 1 .. Len(W) :
          s = n - 1 /\ Collecting(fb[s], s, W[n], dg \ {f})
  <2>1. dg \ {f} \subseteq dg
    OBVIOUS
  <2>2. QED
    BY <2>1, CollectingFewer, Zenon DEF Assembled
<1>3. ASSUME NEW n \in 1 .. Len(W)
      PROVE  \/ n - 1 \in lost \cup {f.seq} \/ n \in got
             \/ \A g \in Cut(W, n) : Held(g, n - 1, dg \ {f}, fb)
  <2>1. CASE f \in Cut(W, n)
    BY <1>1, <2>1, Zenon
  <2>2. CASE f \notin Cut(W, n)
    BY <2>2, Zenon DEF Assembled, Held
  <2>3. QED
    BY <2>1, <2>2
<1>4. QED
  BY <1>2, <1>3, Zenon DEF Assembled

\* The entries that remain are what they were.
LEMMA AssembledKept ==
    ASSUME NEW W, NEW dg, NEW fb, NEW lost, NEW got, Assembled(W, dg, fb, lost, got),
           NEW gb, DOMAIN gb \subseteq DOMAIN fb,
           \A s \in DOMAIN gb : /\ gb[s] = [expired |-> gb[s].expired, needed |-> gb[s].needed,
                                            frames |-> gb[s].frames]
                                /\ gb[s].needed = fb[s].needed /\ gb[s].frames = fb[s].frames
    PROVE  Assembled(W, dg, gb, lost \cup (DOMAIN fb \ DOMAIN gb), got)
<1>1. ASSUME NEW s \in DOMAIN gb
      PROVE  \E n \in 1 .. Len(W) : s = n - 1 /\ Collecting(gb[s], s, W[n], dg)
  <2>1. PICK n \in 1 .. Len(W) : s = n - 1 /\ Collecting(fb[s], s, W[n], dg)
    BY Zenon DEF Assembled
  <2>2. Collecting(gb[s], s, W[n], dg)
    BY <2>1, Zenon DEF Collecting
  <2>3. QED
    BY <2>1, <2>2
<1>2. ASSUME NEW n \in 1 .. Len(W)
      PROVE  \/ n - 1 \in lost \cup (DOMAIN fb \ DOMAIN gb) \/ n \in got
             \/ \A f \in Cut(W, n) : Held(f, n - 1, dg, gb)
  <2>1. CASE n - 1 \in DOMAIN fb \ DOMAIN gb
    BY <2>1
  <2>2. CASE n - 1 \notin DOMAIN fb \ DOMAIN gb
    BY <2>2, Zenon DEF Assembled, Held
  <2>3. QED
    BY <2>1, <2>2
<1>3. QED
  BY <1>1, <1>2, Zenon DEF Assembled

\* The last segment of message n has come.
LEMMA AssembledWhole ==
    ASSUME NEW W, NEW dg, NEW fb, NEW lost, NEW got, Messages(W), Assembled(W, dg, fb, lost, got),
           NEW n \in 1 .. Len(W), NEW f \in dg, f \in Cut(W, n),
           \A g \in dg : g.seq = n - 1 => g = f,
           NEW gb, DOMAIN gb = DOMAIN fb \ {n - 1}, \A s \in DOMAIN gb : gb[s] = fb[s]
    PROVE  Assembled(W, dg \ {f}, gb, lost, got \cup {n})
<1>0. \A m \in 1 .. Len(W) : m # n => m - 1 # n - 1
  OBVIOUS
<1>f. f.seq = n - 1
  BY CutIs
<1>1. ASSUME NEW s \in DOMAIN gb
      PROVE  \E m \in 1 .. Len(W) : s = m - 1 /\ Collecting(gb[s], s, W[m], dg \ {f})
  <2>1. PICK m \in 1 .. Len(W) : s = m - 1 /\ Collecting(fb[s], s, W[m], dg)
    BY Zenon DEF Assembled
  <2>2. dg \ {f} \subseteq dg
    OBVIOUS
  <2>3. Collecting(gb[s], s, W[m], dg \ {f})
    BY <2>1, <2>2, CollectingFewer, Zenon
  <2>4. QED
    BY <2>1, <2>3
<1>2. ASSUME NEW m \in got \cup {n}
      PROVE  m - 1 \notin DOMAIN gb /\ \A g \in dg \ {f} : g.seq # m - 1
  <2>1. CASE m \in got
    BY <2>1, Zenon DEF Assembled
  <2>2. CASE m = n
    BY <2>2, Zenon
  <2>3. QED
    BY <2>1, <2>2
<1>3. ASSUME NEW m \in 1 .. Len(W), m # n, m - 1 \notin lost, m \notin got, NEW g \in Cut(W, m)
      PROVE  Held(g, m - 1, dg \ {f}, gb)
  <2>1. Held(g, m - 1, dg, fb)
    BY <1>3, Zenon DEF Assembled
  <2>2. g # f
    <3>1. g.seq = m - 1
      BY CutIs
    <3>2. QED
      BY <1>0, <1>3, <1>f, <3>1, Zenon
  <2>3. m - 1 \in DOMAIN fb => m - 1 \in DOMAIN gb
    BY <1>0, <1>3, Zenon
  <2>4. QED
    BY <2>1, <2>2, <2>3, Zenon DEF Held
<1>4. /\ got \cup {n} \subseteq 1 .. Len(W)
      /\ \A g \in dg \ {f} : \E m \in 1 .. Len(W) : g \in Cut(W, m)
  BY Zenon DEF Assembled
<1>5. QED
  BY <1>1, <1>2, <1>3, <1>4, Zenon DEF Assembled

\* A segment of message n has come, not the last; e is the new entry.
LEMMA AssembledMore ==
    ASSUME NEW W, NEW dg, NEW fb, NEW lost, NEW got, Messages(W), Assembled(W, dg, fb, lost, got),
           NEW n \in 1 .. Len(W), NEW f \in dg, f \in Cut(W, n), n \notin got,
           NEW e, Collecting(e, n - 1, W[n], dg \ {f}), f \in Range(e.frames),
           n - 1 \in DOMAIN fb => Range(fb[n - 1].frames) \subseteq Range(e.frames),
           NEW gb, DOMAIN gb = DOMAIN fb \cup {n - 1}, gb[n - 1] = e,
           \A s \in DOMAIN fb : s # n - 1 => gb[s] = fb[s]
    PROVE  Assembled(W, dg \ {f}, gb, lost, got)
<1>0. \A m \in 1 .. Len(W) : m # n => m - 1 # n - 1
  OBVIOUS
<1>f. f.seq = n - 1
  BY CutIs
<1>1. ASSUME NEW s \in DOMAIN gb
      PROVE  \E m \in 1 .. Len(W) : s = m - 1 /\ Collecting(gb[s], s, W[m], dg \ {f})
  <2>1. CASE s = n - 1
    BY <2>1, Zenon
  <2>2. CASE s # n - 1
    <3>1. PICK m \in 1 .. Len(W) : s = m - 1 /\ Collecting(fb[s], s, W[m], dg)
      BY <2>2, Zenon DEF Assembled
    <3>2. dg \ {f} \subseteq dg
      OBVIOUS
    <3>3. Collecting(gb[s], s, W[m], dg \ {f})
      BY <2>2, <3>1, <3>2, CollectingFewer, Zenon
    <3>4. QED
      BY <3>1, <3>3
  <2>3. QED
    BY <2>1, <2>2
<1>2. ASSUME NEW m \in got
      PROVE  m - 1 \notin DOMAIN gb /\ \A g \in dg \ {f} : g.seq # m - 1
  <2>1. m \in 1 .. Len(W) /\ m # n /\ m - 1 \notin DOMAIN fb /\ \A g \in dg : g.seq # m - 1
    BY Zenon DEF Assembled
  <2>2. QED
    BY <1>0, <2>1, Zenon
<1>3. ASSUME NEW m \in 1 .. Len(W), m - 1 \notin lost, m \notin got, NEW g \in Cut(W, m)
      PROVE  Held(g, m - 1, dg \ {f}, gb)
  <2>1. Held(g, m - 1, dg, fb)
    BY <1>3, Zenon DEF Assembled
  <2>2. CASE m = n
    BY <2>1, <2>2, Zenon DEF Held
  <2>3. CASE m # n
    <3>1. m - 1 # n - 1 /\ g.seq = m - 1
      BY <1>0, <2>3, CutIs
    <3>2. QED
      BY <1>f, <2>1, <3>1, Zenon DEF Held
  <2>4. QED
    BY <2>2, <2>3
<1>4. got \subseteq 1 .. Len(W) /\ \A g \in dg \ {f} : \E m \in 1 .. Len(W) : g \in Cut(W, m)
  BY Zenon DEF Assembled
<1>5. QED
  BY <1>1, <1>2, <1>3, <1>4, Zenon DEF Assembled

\* One element more.
LEMMA OneMore ==
    ASSUME NEW q, IsSeq(q), IsInjective(q), NEW x, x \notin Range(q)
    PROVE  /\ IsSeq(Append(q, x)) /\ IsInjective(Append(q, x))
           /\ Len(Append(q, x)) = Len(q) + 1 /\ Range(Append(q, x)) = Range(q) \cup {x}
<1>l. PICK l : l = Len(q)
  OBVIOUS
<1>p. PICK p : p = Append(q, x)
  OBVIOUS
<1>1. /\ l \in Nat /\ IsSeq(p) /\ Len(p) = l + 1 /\ p[l + 1] = x
      /\ \A i \in 1 .. l : p[i] = q[i]
  BY <1>l, <1>p, SeqOps
<1>2. DOMAIN p = 1 .. Len(p) /\ DOMAIN q = 1 .. l
  BY <1>1, <1>l DEF IsSeq
<1>3. DOMAIN p = (1 .. l) \cup {l + 1} /\ l + 1 \notin 1 .. l
  BY <1>1, <1>2
<1>4. \A i \in 1 .. l : q[i] # x
  BY <1>2, Zenon DEF Range
<1>5. IsInjective(p)
  BY <1>1, <1>2, <1>3, <1>4, Zenon DEF IsInjective
<1>6. Range(p) = Range(q) \cup {x}
  <2>1. \A y : y \in Range(p) <=> \E i \in (1 .. l) \cup {l + 1} : y = p[i]
    BY <1>3, Zenon DEF Range
  <2>2. \A y : y \in Range(q) <=> \E i \in 1 .. l : y = q[i]
    BY <1>2, Zenon DEF Range
  <2>3. \A y : y \in Range(p) <=> y \in Range(q) \cup {x}
    BY <1>1, <2>1, <2>2, Zenon
  <2>4. QED
    BY <2>3, Zenon
<1>7. QED
  BY <1>1, <1>5, <1>6, <1>l, <1>p

\* The entry e holds segment f of message n and those that were in the buffer.
Entered(e, W, dg, fb, n, f) ==
    /\ e = [expired |-> e.expired, needed |-> e.needed, frames |-> e.frames]
    /\ e.needed = MaxSegmentIndex(Len(W[n])) + 1
    /\ IsSeq(e.frames) /\ Len(e.frames) > 0 /\ Len(e.frames) <= e.needed
    /\ IsInjective(e.frames) /\ Range(e.frames) \subseteq Cut(W, n) \ (dg \ {f})
    /\ f \in Range(e.frames)
    /\ n - 1 \in DOMAIN fb => Range(fb[n - 1].frames) \subseteq Range(e.frames)
    /\ Completes(fb, f) <=> Len(e.frames) = e.needed

\* The entry of a frame, with the frame in it.
LEMMA EntryIs ==
    ASSUME NEW W, NEW dg, NEW fb, NEW lost, NEW got, Messages(W), Assembled(W, dg, fb, lost, got),
           NEW n \in 1 .. Len(W), NEW f \in dg, f \in Cut(W, n), f.max # 0,
           NEW e, e = EntryWith(fb, f)
    PROVE  Entered(e, W, dg, fb, n, f)
<1>s. PICK s : s = n - 1
  OBVIOUS
<1>m. PICK N : N = MaxSegmentIndex(Len(W[n])) + 1
  OBVIOUS
<1>1. f.seq = s /\ f.max + 1 = N /\ N \in Nat /\ N > 1
  <2>1. f.seq = n - 1 /\ f.max = MaxSegmentIndex(Len(W[n])) /\ f.max \in Nat
    BY CutIs
  <2>2. \A k \in Nat : k # 0 => k + 1 \in Nat /\ k + 1 > 1
    OBVIOUS
  <2>3. QED
    BY <1>m, <1>s, <2>1, <2>2, Zenon
<1>2. CASE s \in DOMAIN fb
  <2>o. PICK old : old = fb[s]
    OBVIOUS
  <2>q. PICK q : q = Append(old.frames, f)
    OBVIOUS
  <2>1. Collecting(old, s, W[n], dg)
    <3>1. PICK m \in 1 .. Len(W) : s = m - 1 /\ Collecting(fb[s], s, W[m], dg)
      BY <1>2, Zenon DEF Assembled
    <3>2. m = n
      BY <1>s, <3>1
    <3>3. QED
      BY <2>o, <3>1, <3>2, Zenon
  <2>2. /\ old = [expired |-> old.expired, needed |-> old.needed, frames |-> old.frames]
        /\ old.needed = N /\ IsSeq(old.frames) /\ Len(old.frames) > 0 /\ Len(old.frames) < N
        /\ IsInjective(old.frames) /\ Range(old.frames) \subseteq Cut(W, n) \ dg
    BY <1>m, <1>s, <2>1, Zenon DEF Collecting, Cut
  <2>3. e = [expired |-> old.expired, needed |-> N, frames |-> q]
    <3>1. e = [old EXCEPT !.frames = Append(@, f)]
      BY <1>1, <1>2, <2>o, Zenon DEF EntryWith
    <3>2. QED
      BY <2>2, <2>q, <3>1
  <2>4. e.expired = old.expired /\ e.needed = N /\ e.frames = q
    BY <2>3
  <2>5. f \notin Range(old.frames)
    BY <2>2, Zenon
  <2>6. /\ IsSeq(q) /\ IsInjective(q) /\ Len(q) = Len(old.frames) + 1
        /\ Range(q) = Range(old.frames) \cup {f}
    <3>1. IsSeq(old.frames) /\ IsInjective(old.frames)
      BY <2>2
    <3>2. QED
      BY <2>5, <2>q, <3>1, OneMore, Zenon
  <2>7. Len(old.frames) \in Nat
    BY <2>2, SeqOps
  <2>8. Len(q) > 0 /\ Len(q) <= N
    BY <1>1, <2>2, <2>6, <2>7
  <2>9. Range(q) \subseteq Cut(W, n) \ (dg \ {f}) /\ f \in Range(q)
    BY <2>2, <2>6, Zenon
  <2>10. Completes(fb, f) <=> Len(q) = N
    <3>1. Completes(fb, f)
              <=> f.max = 0 \/ (f.seq \in DOMAIN fb /\ Len(e.frames) = fb[f.seq].needed)
      BY Zenon DEF Completes
    <3>2. QED
      BY <1>1, <1>2, <2>2, <2>4, <2>o, <3>1, Zenon
  <2>11. Range(fb[s].frames) \subseteq Range(q)
    BY <2>6, <2>o, Zenon
  <2>12. QED
    BY <1>m, <1>s, <2>3, <2>4, <2>6, <2>8, <2>9, <2>10, <2>11, Zenon DEF Entered
<1>3. CASE s \notin DOMAIN fb
  <2>q. PICK q : q = <<f>>
    OBVIOUS
  <2>1. e = [expired |-> FALSE, needed |-> N, frames |-> q]
    BY <1>1, <1>3, <2>q, Zenon DEF EntryWith
  <2>2. e.expired = FALSE /\ e.needed = N /\ e.frames = q
    BY <2>1
  <2>3. IsSeq(q) /\ Len(q) = 1 /\ q[1] = f
    BY <2>q, Single
  <2>4. DOMAIN q = {1}
    BY <2>3 DEF IsSeq
  <2>5. IsInjective(q) /\ Range(q) = {f}
    BY <2>3, <2>4, Zenon DEF IsInjective, Range
  <2>6. Len(q) > 0 /\ Len(q) <= N /\ Len(q) # N
    BY <1>1, <2>3
  <2>7. ~Completes(fb, f)
    BY <1>1, <1>3, Zenon DEF Completes
  <2>8. Range(q) \subseteq Cut(W, n) \ (dg \ {f}) /\ f \in Range(q)
    BY <2>5, Zenon
  <2>9. QED
    BY <1>3, <1>m, <1>s, <2>1, <2>2, <2>3, <2>5, <2>6, <2>7, <2>8, Zenon DEF Entered
<1>4. QED
  BY <1>2, <1>3

\* FrameBuf::push gives the message when its last segment comes.
LEMMA AssembledRead ==
    ASSUME NEW W, NEW dg, NEW fb, NEW lost, NEW got, Messages(W), Assembled(W, dg, fb, lost, got),
           NEW f \in dg
    PROVE  /\ f.data # <<>>
           /\ ~Completes(fb, f) => Assembled(W, dg \ {f}, FramesAfter(fb, f), lost, got)
           /\ Completes(fb, f) => \E n \in 1 .. Len(W) :
                  /\ n \notin got /\ Joined(fb, f) = W[n]
                  /\ Assembled(W, dg \ {f}, FramesAfter(fb, f), lost, got \cup {n})
<1>n. PICK n \in 1 .. Len(W) : f \in Cut(W, n)
  BY Zenon DEF Assembled
<1>1. /\ f.seq = n - 1 /\ f.data # <<>> /\ f.max \in Nat
      /\ f.max = MaxSegmentIndex(Len(W[n]))
      /\ f.max = 0 => f.data = W[n] /\ Cut(W, n) = {f}
  BY <1>n, CutIs
<1>2. n \notin got
  BY <1>1, Zenon DEF Assembled
<1>3. ASSUME NEW g \in dg, g.seq = n - 1 PROVE g \in Cut(W, n)
  <2>1. PICK m \in 1 .. Len(W) : g \in Cut(W, m)
    BY Zenon DEF Assembled
  <2>2. g.seq = m - 1
    BY <2>1, CutIs
  <2>3. m = n
    <3>1. m - 1 = n - 1
      BY <1>3, <2>2, Zenon
    <3>2. QED
      BY <3>1
  <2>4. QED
    BY <2>1, <2>3
<1>gb. PICK gb : gb = FramesAfter(fb, f)
  OBVIOUS
<1>4. CASE f.max = 0
  <2>1. Completes(fb, f) /\ Joined(fb, f) = W[n] /\ gb = fb
    BY <1>1, <1>4, <1>gb, Zenon DEF Completes, Joined, FramesAfter
  <2>2. n - 1 \notin DOMAIN fb
    <3>1. SUFFICES ASSUME n - 1 \in DOMAIN fb PROVE FALSE
      OBVIOUS
    <3>2. PICK m \in 1 .. Len(W) : n - 1 = m - 1 /\ Collecting(fb[n - 1], n - 1, W[m], dg)
      BY <3>1, Zenon DEF Assembled
    <3>3. m = n
      BY <3>2
    <3>q. PICK q : q = fb[n - 1].frames
      OBVIOUS
    <3>4. IsSeq(q) /\ Len(q) > 0 /\ Len(q) < 0 + 1
      BY <1>1, <1>4, <3>2, <3>3, <3>q, Zenon DEF Collecting
    <3>5. Len(q) \in Nat
      BY <3>4, SeqOps
    <3>6. QED
      BY <3>4, <3>5
  <2>3. DOMAIN gb = DOMAIN fb \ {n - 1} /\ \A s \in DOMAIN gb : gb[s] = fb[s]
    BY <2>1, <2>2, Zenon
  <2>4. \A g \in dg : g.seq = n - 1 => g = f
    BY <1>1, <1>3, <1>4, Zenon
  <2>5. Assembled(W, dg \ {f}, gb, lost, got \cup {n})
    BY <1>n, <2>3, <2>4, AssembledWhole, Zenon
  <2>6. QED
    BY <1>1, <1>2, <1>gb, <2>1, <2>5, Zenon
<1>5. CASE f.max # 0
  <2>e. PICK e : e = EntryWith(fb, f)
    OBVIOUS
  <2>1. /\ e = [expired |-> e.expired, needed |-> e.needed, frames |-> e.frames]
        /\ e.needed = MaxSegmentIndex(Len(W[n])) + 1
        /\ IsSeq(e.frames) /\ Len(e.frames) > 0 /\ Len(e.frames) <= e.needed
        /\ IsInjective(e.frames) /\ Range(e.frames) \subseteq Cut(W, n) \ (dg \ {f})
        /\ f \in Range(e.frames)
        /\ n - 1 \in DOMAIN fb => Range(fb[n - 1].frames) \subseteq Range(e.frames)
        /\ Completes(fb, f) <=> Len(e.frames) = e.needed
    <3>1. Entered(e, W, dg, fb, n, f)
      BY <1>5, <1>n, <2>e, EntryIs
    <3>2. QED
      BY <3>1, Zenon DEF Entered
  <2>2. CASE Completes(fb, f)
    <3>d. PICK data : data = W[n]
      OBVIOUS
    <3>q. PICK q : q = e.frames
      OBVIOUS
    <3>1. /\ IsSeq(data) /\ Len(data) > 0 /\ IsSeq(q) /\ IsInjective(q)
          /\ Len(q) = MaxSegmentIndex(Len(data)) + 1
          /\ Range(q) \subseteq Range(Split(n - 1, data))
      BY <2>1, <2>2, <3>d, <3>q, Zenon DEF Messages, Cut
    <3>2. JoinFrames(q) = data
      BY <3>1, JoinIs
    <3>3. Range(q) = Range(Split(n - 1, data))
      BY <3>1, Counted
    <3>4. Joined(fb, f) = W[n]
      BY <1>5, <2>e, <3>2, <3>d, <3>q, Zenon DEF Joined
    <3>5. \A g \in dg : g.seq = n - 1 => g = f
      <4>1. Cut(W, n) \subseteq Cut(W, n) \ (dg \ {f})
        BY <2>1, <3>3, <3>d, <3>q, Zenon DEF Cut
      <4>2. QED
        BY <1>3, <4>1, Zenon
    <3>6. gb = Restrict(fb, DOMAIN fb \ {n - 1})
      BY <1>1, <1>5, <1>gb, <2>2, Zenon DEF FramesAfter
    <3>7. DOMAIN gb = DOMAIN fb \ {n - 1} /\ \A s \in DOMAIN gb : gb[s] = fb[s]
      BY <3>6 DEF Restrict
    <3>8. Assembled(W, dg \ {f}, gb, lost, got \cup {n})
      BY <1>n, <3>5, <3>7, AssembledWhole, Zenon
    <3>9. QED
      BY <1>1, <1>2, <1>gb, <2>2, <3>4, <3>8, Zenon
  <2>3. CASE ~Completes(fb, f)
    <3>0. gb = [s \in DOMAIN fb \cup {n - 1} |-> IF s = n - 1 THEN e ELSE fb[s]]
      BY <1>1, <1>5, <1>gb, <2>3, <2>e, Zenon DEF FramesAfter
    <3>1. /\ DOMAIN gb = DOMAIN fb \cup {n - 1} /\ gb[n - 1] = e
          /\ \A s \in DOMAIN fb : s # n - 1 => gb[s] = fb[s]
      BY <3>0
    <3>2. Len(e.frames) < e.needed
      <4>1. Len(e.frames) \in Nat /\ e.needed \in Nat
        <5>1. MaxSegmentIndex(Len(W[n])) + 1 \in Nat
          <6>1. \A k \in Nat : k + 1 \in Nat
            OBVIOUS
          <6>2. QED
            BY <1>1, <6>1, Zenon
        <5>2. Len(e.frames) \in Nat
          BY <2>1, SeqOps
        <5>3. QED
          BY <2>1, <5>1, <5>2, Zenon
      <4>2. \A x, y \in Nat : x <= y /\ x # y => x < y
        OBVIOUS
      <4>3. QED
        BY <2>1, <2>3, <4>1, <4>2, Zenon
    <3>3. Collecting(e, n - 1, W[n], dg \ {f})
      BY <2>1, <3>2, Zenon DEF Collecting, Cut
    <3>4. Assembled(W, dg \ {f}, gb, lost, got)
      <4>1. /\ f \in Range(e.frames)
            /\ n - 1 \in DOMAIN fb => Range(fb[n - 1].frames) \subseteq Range(e.frames)
        BY <2>1
      <4>2. QED
        BY <1>2, <1>n, <3>1, <3>3, <4>1, AssembledMore, Zenon
    <3>5. QED
      BY <1>1, <1>gb, <2>3, <3>4, Zenon
  <2>4. QED
    BY <2>2, <2>3
<1>6. QED
  BY <1>4, <1>5

\* What is on its way and in the buffer is what was sent and not yet delivered.
DatagramInv ==
    kind = "datagram" => /\ sequence_number = Len(sent)
                         /\ Assembled(Wires, datagrams, frame_buf, dropped, Got)

\* A datagram arrives.
LEMMA DatagramReadStep ==
    ASSUME HistoryInv, DeliveredInv, DatagramInv, [Next]_vars, kind = "datagram",
           NEW f \in datagrams, NEW check \in BOOLEAN, DatagramRead(f, check)
    PROVE  DeliveredInv' /\ DatagramInv'
<1>0. LaneInv /\ SentInv /\ UNCHANGED <<kind, compression>>
  BY Moves DEF HistoryInv
<1>w. PICK W : W = Wires
  OBVIOUS
<1>g. PICK got : got = Got
  OBVIOUS
<1>1. Messages(W) /\ Len(W) = Len(sent)
  BY <1>0, <1>w, WiresAre DEF Messages
<1>2. /\ sequence_number = Len(sent) /\ Assembled(W, datagrams, frame_buf, dropped, got)
  BY <1>g, <1>w DEF DatagramInv
<1>b. PICK buf : buf = IF check THEN DropExpired(frame_buf) ELSE frame_buf
  OBVIOUS
<1>l. PICK lost : lost = dropped \cup (DOMAIN frame_buf \ DOMAIN buf)
  OBVIOUS
<1>3. /\ datagrams' = datagrams \ {f}
      /\ UNCHANGED <<sequence_number, sent, dictionary>>
      /\ f.data # <<>> => /\ frame_buf' = FramesAfter(buf, f) /\ dropped' = lost
                          /\ Completes(buf, f) => ReadLoopTakes(Joined(buf, f))
                          /\ ~Completes(buf, f) => UNCHANGED readVars
  <2>1. /\ datagrams' = datagrams \ {f} /\ UNCHANGED <<sendVars, sequence_number>>
        /\ f.data # <<>> => /\ frame_buf' = FramesAfter(buf, f) /\ dropped' = lost
                            /\ Completes(buf, f) => ReadLoopTakes(Joined(buf, f))
                            /\ ~Completes(buf, f) => UNCHANGED readVars
    BY <1>b, <1>l, Zenon DEF DatagramRead
  <2>2. QED
    BY <2>1 DEF sendVars
<1>4. Assembled(W, datagrams, buf, lost, got)
  <2>1. /\ DOMAIN buf \subseteq DOMAIN frame_buf
        /\ \A s \in DOMAIN buf : buf[s] = frame_buf[s]
    <3>1. CASE check
      <4>1. buf = [s \in {s \in DOMAIN frame_buf : ~frame_buf[s].expired} |-> frame_buf[s]]
        BY <1>b, <3>1, Zenon DEF DropExpired, Restrict
      <4>2. QED
        BY <4>1
    <3>2. CASE ~check
      BY <1>b, <3>2
    <3>3. QED
      BY <3>1, <3>2
  <2>2. \A s \in DOMAIN frame_buf :
            frame_buf[s] = [expired |-> frame_buf[s].expired, needed |-> frame_buf[s].needed,
                            frames |-> frame_buf[s].frames]
    BY <1>2, Zenon DEF Assembled, Collecting
  <2>3. Assembled(W, datagrams, buf, dropped \cup (DOMAIN frame_buf \ DOMAIN buf), got)
    <3>1. \A s \in DOMAIN buf :
             /\ buf[s] = [expired |-> buf[s].expired, needed |-> buf[s].needed,
                          frames |-> buf[s].frames]
             /\ buf[s].needed = frame_buf[s].needed /\ buf[s].frames = frame_buf[s].frames
      BY <2>1, <2>2, Zenon
    <3>2. QED
      BY <1>2, <2>1, <3>1, AssembledKept, Zenon
  <2>4. QED
    BY <1>l, <2>3
<1>5. /\ f.data # <<>>
      /\ ~Completes(buf, f) => Assembled(W, datagrams \ {f}, FramesAfter(buf, f), lost, got)
      /\ Completes(buf, f) => \E n \in 1 .. Len(W) :
             /\ n \notin got /\ Joined(buf, f) = W[n]
             /\ Assembled(W, datagrams \ {f}, FramesAfter(buf, f), lost, got \cup {n})
  BY <1>1, <1>4, AssembledRead
<1>6. Wires' = W
  BY <1>0, <1>3, <1>w, NoWrite
<1>7. CASE Completes(buf, f)
  <2>1. PICK n \in 1 .. Len(sent) :
             /\ n \notin Got /\ Joined(buf, f) = Wires[n]
             /\ Assembled(W, datagrams \ {f}, FramesAfter(buf, f), lost, got \cup {n})
    BY <1>1, <1>5, <1>7, <1>g, <1>w, Zenon
  <2>2. ReadLoopTakes(Wires[n])
    BY <1>3, <1>5, <1>7, <2>1, Zenon
  <2>3. ext_dictionary = sent[n].with
    BY WireNumber
  <2>4. DeliveredInv' /\ Got' = Got \cup {n}
    BY <1>0, <1>3, <2>1, <2>2, <2>3, Delivers
  <2>5. DatagramInv'
    BY <1>2, <1>3, <1>5, <1>6, <1>g, <2>1, <2>4, Zenon DEF DatagramInv
  <2>6. QED
    BY <2>4, <2>5
<1>8. CASE ~Completes(buf, f)
  <2>1. UNCHANGED delivered
    BY <1>3, <1>5, <1>8 DEF readVars
  <2>2. DeliveredInv' /\ Got' = Got
    BY <2>1, NotDelivers
  <2>3. DatagramInv'
    BY <1>2, <1>3, <1>5, <1>6, <1>8, <1>g, <2>2, Zenon DEF DatagramInv
  <2>4. QED
    BY <2>2, <2>3
<1>9. QED
  BY <1>7, <1>8

\* The segments are cut, lost, kept and joined.
LEMMA DatagramStep ==
    ASSUME HistoryInv, DeliveredInv, DatagramInv, [Next]_vars, kind = "datagram"
    PROVE  DeliveredInv' /\ DatagramInv'
<1>0. LaneInv /\ SentInv /\ UNCHANGED <<kind, compression>>
  BY Moves DEF HistoryInv
<1>o. /\ socket = <<>> /\ tx_write_message = <<>> /\ write_task = "ended"
      /\ rx_recv_bytes = <<>> /\ accept_loop = "ended" /\ \A s \in Streams : task[s] = "none"
  BY <1>0 DEF LaneInv, OneLane
<1>w. PICK W : W = Wires
  OBVIOUS
<1>g. PICK got : got = Got
  OBVIOUS
<1>1. Messages(W) /\ Len(W) = Len(sent)
  BY <1>0, <1>w, WiresAre DEF Messages
<1>2. /\ sequence_number = Len(sent) /\ Assembled(W, datagrams, frame_buf, dropped, got)
  BY <1>g, <1>w DEF DatagramInv
<1>n. ASSUME UNCHANGED <<delivered, sent, dictionary, sequence_number>>,
             Assembled(W, datagrams', frame_buf', dropped', got)
      PROVE  DeliveredInv' /\ DatagramInv'
  <2>1. DeliveredInv' /\ Got' = Got
    BY <1>n, NotDelivers
  <2>2. Wires' = W
    BY <1>0, <1>n, <1>w, NoWrite
  <2>3. QED
    BY <1>2, <1>g, <1>n, <2>1, <2>2, Zenon DEF DatagramInv
<1>k. ASSUME UNCHANGED <<delivered, sent, dictionary, sequence_number, datagrams, frame_buf,
                         dropped>>
      PROVE  DeliveredInv' /\ DatagramInv'
  BY <1>2, <1>k, <1>n
<1>3. ASSUME NEW len \in DatagramLengths, DatagramWrite(len) PROVE DeliveredInv' /\ DatagramInv'
  <2>1. /\ WriteLoopSends(OneStream, len) /\ sequence_number' = sequence_number + 1
        /\ datagrams' = datagrams \cup Range(Split(sequence_number, Wire(len)))
        /\ UNCHANGED <<frame_buf, dropped, delivered>>
    BY <1>3 DEF DatagramWrite, readVars
  <2>2. len \in Nat \ {0}
    BY LaneAssumption
  <2>3. /\ Len(sent') = Len(sent) + 1 /\ Wires' = Append(Wires, Wire(len))
        /\ IsSeq(Wire(len)) /\ Len(Wire(len)) > 0
    BY <1>0, <2>1, <2>2, WriteIs
  <2>4. DeliveredInv' /\ Got' = Got
    BY <2>1, NotDelivers
  <2>v. PICK w : w = Wire(len)
    OBVIOUS
  <2>5. Assembled(Append(W, w), datagrams \cup Range(Split(Len(W), w)), frame_buf, dropped, got)
    <3>1. IsSeq(w) /\ Len(w) > 0
      BY <2>3, <2>v
    <3>2. QED
      BY <1>1, <1>2, <3>1, AssembledWrite
  <2>6. Assembled(Wires', datagrams', frame_buf', dropped', Got')
    BY <1>1, <1>2, <1>g, <1>w, <2>1, <2>3, <2>4, <2>5, <2>v, Zenon
  <2>7. sequence_number' = Len(sent')
    BY <1>2, <2>1, <2>3, Zenon
  <2>8. QED
    BY <2>4, <2>6, <2>7, Zenon DEF DatagramInv
<1>4. ASSUME NEW f \in datagrams, NEW check \in BOOLEAN, DatagramRead(f, check)
      PROVE  DeliveredInv' /\ DatagramInv'
  BY <1>4, DatagramReadStep
<1>5. ASSUME NEW f \in datagrams, DatagramLost(f) PROVE DeliveredInv' /\ DatagramInv'
  <2>1. /\ datagrams' = datagrams \ {f} /\ dropped' = dropped \cup {f.seq}
        /\ UNCHANGED <<delivered, sent, dictionary, sequence_number, frame_buf>>
    BY <1>5 DEF DatagramLost, sendVars, readVars
  <2>2. Assembled(W, datagrams \ {f}, frame_buf, dropped \cup {f.seq}, got)
    BY <1>1, <1>2, AssembledLost
  <2>3. QED
    BY <1>n, <2>1, <2>2, Zenon
<1>6. ASSUME NEW s \in DOMAIN frame_buf, FramesExpire(s) PROVE DeliveredInv' /\ DatagramInv'
  <2>1. /\ frame_buf' = [frame_buf EXCEPT ![s].expired = TRUE]
        /\ UNCHANGED <<delivered, sent, dictionary, sequence_number, datagrams, dropped>>
    BY <1>6 DEF FramesExpire, sendVars, readVars
  <2>b. PICK gb : gb = frame_buf'
    OBVIOUS
  <2>2. ASSUME NEW r \in DOMAIN frame_buf
        PROVE  /\ gb[r] = [expired |-> gb[r].expired, needed |-> gb[r].needed,
                           frames |-> gb[r].frames]
               /\ gb[r].needed = frame_buf[r].needed /\ gb[r].frames = frame_buf[r].frames
    <3>e. PICK e : e = frame_buf[r]
      OBVIOUS
    <3>1. e = [expired |-> e.expired, needed |-> e.needed, frames |-> e.frames]
      BY <1>2, <3>e, Zenon DEF Assembled, Collecting
    <3>2. gb[r] = [e EXCEPT !.expired = TRUE] \/ gb[r] = e
      BY <2>1, <2>b, <3>e
    <3>3. CASE gb[r] = e
      BY <3>1, <3>3, <3>e, Zenon
    <3>4. CASE gb[r] = [e EXCEPT !.expired = TRUE]
      <4>1. gb[r] = [expired |-> TRUE, needed |-> e.needed, frames |-> e.frames]
        BY <3>1, <3>4
      <4>2. gb[r].expired = TRUE /\ gb[r].needed = e.needed /\ gb[r].frames = e.frames
        BY <4>1
      <4>3. QED
        BY <3>e, <4>1, <4>2, Zenon
    <3>5. QED
      BY <3>2, <3>3, <3>4
  <2>3. DOMAIN gb = DOMAIN frame_buf
    BY <2>1, <2>b
  <2>4. Assembled(W, datagrams, gb, dropped \cup (DOMAIN frame_buf \ DOMAIN gb), got)
    <3>1. DOMAIN gb \subseteq DOMAIN frame_buf
      BY <2>3
    <3>2. QED
      BY <1>2, <2>2, <2>3, <3>1, AssembledKept, Zenon
  <2>5. dropped \cup (DOMAIN frame_buf \ DOMAIN gb) = dropped
    BY <2>3
  <2>6. QED
    BY <1>n, <2>1, <2>4, <2>5, <2>b, Zenon
<1>7. CASE WriterClose \/ AcceptEnds \/ ReadError
  <2>1. UNCHANGED <<delivered, sent, dictionary, sequence_number, datagrams, frame_buf, dropped>>
    BY <1>7 DEF WriterClose, AcceptEnds, ReadError, sendVars, dgVars, readVars
  <2>2. QED
    BY <1>k, <2>1
<1>8. ASSUME \/ \E len \in DatagramLengths : WriteError(len)
             \/ CloserClose \/ ConnLost \/ ReadCommand \/ ReadCancelled \/ UNCHANGED vars
      PROVE  DeliveredInv' /\ DatagramInv'
  <2>1. UNCHANGED <<delivered, sent, dictionary, sequence_number, datagrams, frame_buf, dropped>>
    BY <1>8 DEF WriteError, CloserClose, ConnLost, ReadCommand, ReadCancelled, vars, sendVars,
       dgVars, readVars
  <2>2. QED
    BY <1>k, <2>1
<1>9. CASE Idle
  BY <1>5, <1>6, <1>8, <1>9, Zenon DEF Idle
\* The rest are steps of the other lanes.
<1>10. /\ ~\E len \in SocketLengths : WebSocketWrite(len)
       /\ ~\E s \in Streams, len \in StreamLengths : StreamWrite(s, len)
       /\ ~AnswerPing
  BY DEF WebSocketWrite, StreamWrite, AnswerPing
<1>11. /\ ~WriteTaskSends /\ ~WriteTaskEnds /\ ~WebSocketRead /\ ~StreamRead
       /\ ~\E s \in Streams : TaskRead(s) \/ TaskSend(s) \/ Accept(s) \/ TaskEnds(s)
  BY <1>o DEF WriteTaskSends, WriteTaskEnds, WebSocketRead, StreamRead, TaskRead, TaskSend, Accept,
     TaskEnds
<1>12. QED
  BY <1>3, <1>4, <1>7, <1>9, <1>10, <1>11, Steps, Zenon

\* No segment is missing.
LEMMA LostIs ==
    ASSUME HistoryInv, DeliveredInv, DatagramInv PROVE LostOnlyWithSegment
<1> SUFFICES ASSUME kind = "datagram", NEW n \in DOMAIN sent, n - 1 \notin dropped,
                    \A f \in datagrams : f.seq # n - 1
             PROVE  sent[n].data \in Range(delivered)
  BY Zenon DEF LostOnlyWithSegment
<1>0. LaneInv /\ SentInv
  BY DEF HistoryInv
<1>d. /\ DOMAIN sent = 1 .. Len(sent) /\ DOMAIN delivered = 1 .. Len(delivered)
  BY <1>0 DEF LaneInv, SeqTypes, IsSeq
<1>w. PICK W : W = Wires
  OBVIOUS
<1>1. Messages(W) /\ n \in 1 .. Len(W)
  BY <1>0, <1>d, <1>w, WiresAre DEF Messages
<1>2. Assembled(W, datagrams, frame_buf, dropped, Got)
  BY <1>w DEF DatagramInv
<1>3. ASSUME n \notin Got PROVE FALSE
  <2>1. \A f \in Cut(W, n) : n - 1 \in DOMAIN frame_buf /\ f \in Range(frame_buf[n - 1].frames)
    <3>1. \A f \in Cut(W, n) : Held(f, n - 1, datagrams, frame_buf)
      BY <1>1, <1>2, <1>3, Zenon DEF Assembled
    <3>2. \A f \in Cut(W, n) : f.seq = n - 1
      BY <1>1, CutIs
    <3>3. QED
      BY <3>1, <3>2, Zenon DEF Held
  <2>v. PICK data : data = W[n]
    OBVIOUS
  <2>2. IsSeq(data) /\ Len(data) > 0
    BY <1>1, <2>v DEF Messages
  <2>3. PICK f : f \in Cut(W, n)
    <3>1. 1 \in 1 .. MaxSegmentIndex(Len(data)) + 1
      <4>1. MaxSegmentIndex(Len(data)) + 1 \in Nat \ {0}
        BY <2>2, Ends
      <4>2. QED
        BY <4>1
    <3>2. Piece(n - 1, data, 1) \in Range(Split(n - 1, data))
      BY <2>2, <3>1, SplitIs
    <3>3. QED
      BY <2>v, <3>2 DEF Cut
  <2>4. n - 1 \in DOMAIN frame_buf
    BY <2>1, <2>3
  <2>5. PICK m \in 1 .. Len(W) :
                 n - 1 = m - 1 /\ Collecting(frame_buf[n - 1], n - 1, W[m], datagrams)
    BY <1>2, <2>4, Zenon DEF Assembled
  <2>6. m = n
    BY <1>1, <2>5
  <2>q. PICK q : q = frame_buf[n - 1].frames
    OBVIOUS
  <2>7. /\ IsSeq(q) /\ IsInjective(q) /\ Range(q) \subseteq Range(Split(n - 1, data))
        /\ Len(q) < MaxSegmentIndex(Len(data)) + 1
    BY <2>5, <2>6, <2>q, <2>v, Zenon DEF Collecting
  <2>8. Range(q) # Range(Split(n - 1, data))
    BY <2>2, <2>7, Counted
  <2>9. Range(Split(n - 1, data)) \subseteq Range(q)
    BY <2>1, <2>q, <2>v, Zenon DEF Cut
  <2>10. QED
    BY <2>7, <2>8, <2>9, Zenon
<1>4. PICK k \in 1 .. Len(delivered) : n = NumberOf(k)
  BY <1>3, Zenon DEF Got
<1>5. delivered[k] = sent[n].data
  BY <1>4, Zenon DEF DeliveredInv
<1>6. QED
  BY <1>5, <1>d, Zenon DEF Range

-----------------------------------------------------------------------------
(* The theorems *)

DeliveryInv == HistoryInv /\ DeliveredInv /\ SocketInv /\ StreamInv /\ DatagramInv

\* At the start nothing was sent.
LEMMA DeliveryInit == ASSUME Init PROVE DeliveryInv
<1>1. /\ sent = <<>> /\ delivered = <<>> /\ dictionary = <<>> /\ ext_dictionary = <<>>
      /\ stream_bytes = [s \in Streams |-> <<>>] /\ task_buf = [s \in Streams |-> <<>>]
      /\ task = [s \in Streams |-> "none"] /\ rx_recv_bytes = <<>>
      /\ tx_write_message = <<>> /\ socket = <<>>
      /\ sequence_number = 0 /\ datagrams = {} /\ frame_buf = NoFrames /\ dropped = {}
  BY DEF Init
<1>2. HistoryInv /\ LaneInv /\ SentInv
  BY HistoryInit DEF HistoryInv
<1>3. Len(sent) = 0 /\ Len(delivered) = 0 /\ Len(rx_recv_bytes) = 0
      /\ 1 .. Len(sent) = {} /\ 1 .. Len(delivered) = {} /\ 1 .. Len(rx_recv_bytes) = {}
  BY <1>1, EmptyIs
<1>4. Got = {} /\ InChannel = {} /\ Done = {} /\ \A s : OnStream(s) = {}
  BY <1>3, Zenon DEF Got, InChannel, Done, OnStream
<1>5. DeliveredInv
  BY <1>3, Zenon DEF DeliveredInv
<1>w. IsSeq(Wires) /\ Len(Wires) = 0 /\ 1 .. Len(Wires) = {}
  BY <1>2, <1>3, WiresAre
<1>6. SocketInv
  <2>1. Carries(<<>>, 0, 0, Wires)
    <3>1. 0 \in 0 .. Len(Wires)
      BY <1>w
    <3>2. QED
      BY <3>1, CarriesNone
  <2>2. Queued(0)
    BY <1>1, <1>3, <2>1, Zenon DEF Queued
  <2>3. ~(Len(delivered) + 1 <= Len(sent))
    BY <1>3
  <2>4. ext_dictionary = DictionaryAt(Len(delivered) + 1)
    BY <1>1, <2>3, Zenon DEF DictionaryAt
  <2>5. QED
    BY <1>3, <2>2, <2>4, Zenon DEF SocketInv
<1>7. StreamParts
  <2>1. \A s \in Streams : stream_bytes[s] = <<>> /\ task_buf[s] = <<>> /\ task[s] = "none"
    BY <1>1
  <2>2. /\ stream_bytes = [s \in Streams |-> stream_bytes[s]]
        /\ task_buf = [s \in Streams |-> task_buf[s]]
    BY <1>1
  <2>3. \A s \in Streams : task[s] # "send"
    BY <2>1
  <2>4. ASSUME NEW s \in Streams PROVE \E ns : Pending(s, ns)
    <3>1. IsSeq(<<>>) /\ 1 .. Len(<<>>) = {}
      BY EmptyIs
    <3>2. Framed(stream_bytes[s], <<>>, Wires)
      BY <2>1, FramedNone, Zenon
    <3>3. Pending(s, <<>>)
      BY <1>4, <3>1, <3>2, Zenon DEF Pending
    <3>4. QED
      BY <3>3
  <2>5. \A s \in Streams : IsSeq(stream_bytes[s])
    BY <2>1, EmptyIs, Zenon
  <2>6. QED
    BY <1>3, <2>2, <2>3, <2>4, <2>5, Zenon DEF StreamParts
<1>8. DatagramInv
  <2>1. DOMAIN frame_buf = {}
    BY <1>1 DEF NoFrames
  <2>2. Assembled(Wires, datagrams, frame_buf, dropped, Got)
    BY <1>1, <1>4, <1>w, <2>1, Zenon DEF Assembled
  <2>3. QED
    BY <1>1, <1>3, <2>2 DEF DatagramInv
<1>9. QED
  BY <1>2, <1>5, <1>6, <1>7, <1>8 DEF DeliveryInv, StreamInv

\* Each lane keeps its part.
LEMMA DeliveryStep == ASSUME DeliveryInv, [Next]_vars PROVE DeliveryInv'
<1>0. HistoryInv /\ DeliveredInv /\ SocketInv /\ StreamInv /\ DatagramInv
  BY DEF DeliveryInv
<1>1. HistoryInv'
  BY <1>0, HistoryStep
<1>2. kind' = kind /\ kind \in {"stream", "websocket", "datagram"}
  BY <1>0, Moves DEF HistoryInv, LaneInv, OneLane
<1>3. CASE kind = "websocket"
  <2>1. DeliveredInv' /\ SocketInv'
    BY <1>0, <1>3, SocketStep
  <2>2. StreamInv' /\ DatagramInv'
    BY <1>2, <1>3 DEF StreamInv, DatagramInv
  <2>3. QED
    BY <1>1, <2>1, <2>2 DEF DeliveryInv
<1>4. CASE kind = "stream"
  <2>1. DeliveredInv' /\ StreamInv'
    BY <1>0, <1>4, StreamStep
  <2>2. SocketInv' /\ DatagramInv'
    BY <1>2, <1>4 DEF SocketInv, DatagramInv
  <2>3. QED
    BY <1>1, <2>1, <2>2 DEF DeliveryInv
<1>5. CASE kind = "datagram"
  <2>1. DeliveredInv' /\ DatagramInv'
    BY <1>0, <1>5, DatagramStep
  <2>2. SocketInv' /\ StreamInv'
    BY <1>2, <1>5 DEF SocketInv, StreamInv
  <2>3. QED
    BY <1>1, <2>1, <2>2 DEF DeliveryInv
<1>6. QED
  BY <1>2, <1>3, <1>4, <1>5

\* What is decoded was encoded, whole and once, on every lane and with every
\* compression.
THEOREM OnlySent == Spec => []DeliveredIsSent
<1>1. DeliveryInv => DeliveredIsSent
  BY DeliveredIs DEF DeliveryInv, HistoryInv
<1>2. Init => DeliveryInv
  BY DeliveryInit
<1>3. DeliveryInv /\ [Next]_vars => DeliveryInv'
  BY DeliveryStep
<1>4. QED
  BY <1>1, <1>2, <1>3, PTL DEF Spec

\* Streams and WebSockets deliver in order and without a gap.
THEOREM InOrder == Spec => []InOrderWithoutGap
<1>1. DeliveryInv => InOrderWithoutGap
  BY DeliveredIs DEF DeliveryInv, HistoryInv
<1>2. Init => DeliveryInv
  BY DeliveryInit
<1>3. DeliveryInv /\ [Next]_vars => DeliveryInv'
  BY DeliveryStep
<1>4. QED
  BY <1>1, <1>2, <1>3, PTL DEF Spec

\* The frame buffer loses no message all of whose segments come in time.
THEOREM NoneLost == Spec => []LostOnlyWithSegment
<1>1. DeliveryInv => LostOnlyWithSegment
  BY LostIs DEF DeliveryInv
<1>2. Init => DeliveryInv
  BY DeliveryInit
<1>3. DeliveryInv /\ [Next]_vars => DeliveryInv'
  BY DeliveryStep
<1>4. QED
  BY <1>1, <1>2, <1>3, PTL DEF Spec
=============================================================================
