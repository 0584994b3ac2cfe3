------------------------------ MODULE Datagram ------------------------------
(***************************************************************************)
(* Messages as datagrams (transport/datagram.rs): the splitter cuts a       *)
(* message into numbered segments and the frame buffer of the other side    *)
(* puts it together again.  Segments get lost and overtake each other; QUIC *)
(* does not duplicate them.                                                 *)
(***************************************************************************)
EXTENDS Integers, Sequences, SequencesExt, Functions

CONSTANTS
    SegmentSize,   \* max_segment_size: the datagram without its 8 bytes of header
    MaxSegments    \* u16::MAX

ASSUME DatagramAssumption == SegmentSize \in Nat \ {0} /\ MaxSegments \in Nat \ {0}

MaxMessageSize == SegmentSize * MaxSegments

TooLarge(data) == Len(data) >= MaxMessageSize

\* Mutant: a message that fills its last segment gets an empty one more.
MaxSegmentIndexPlain(len) == len \div SegmentSize

MaxSegmentIndex(len) ==
    LET i == len \div SegmentSize
    IN  IF len % SegmentSize = 0 /\ i > 0 THEN i - 1 ELSE i

Segment(data, i, max) ==
    SubSeq(data, i * SegmentSize + 1, IF i = max THEN Len(data) ELSE (i + 1) * SegmentSize)

\* Splitter::split
Split(seq, data) ==
    LET max == MaxSegmentIndex(Len(data))
    IN  [n \in 1 .. max + 1 |->
            [seq |-> seq, max |-> max, index |-> n - 1, data |-> Segment(data, n - 1, max)]]

-----------------------------------------------------------------------------
(* FrameBuf: by sequence number, how many frames are needed, the ones that    *)
(* came, and whether they came long ago.                                    *)

NoFrames == [s \in {} |-> {}]

Sorted(frames) ==
    LET InOrder(p) ==
            \A m, n \in DOMAIN p : m < n => frames[p[m]].index <= frames[p[n]].index
        order == CHOOSE p \in [DOMAIN frames -> DOMAIN frames] : IsInjective(p) /\ InOrder(p)
    IN  [n \in DOMAIN frames |-> frames[order[n]]]

JoinFrames(frames) ==
    LET sorted == Sorted(frames)
    IN  FlattenSeq([n \in DOMAIN sorted |-> sorted[n].data])

\* The frames of messages that have waited longer than expire are dropped.
DropExpired(buf) == Restrict(buf, {s \in DOMAIN buf : ~buf[s].expired})

\* The entry of frame f, with f in it.
EntryWith(buf, f) ==
    IF f.seq \in DOMAIN buf
    THEN [buf[f.seq] EXCEPT !.frames = Append(@, f)]
    ELSE [expired |-> FALSE, needed |-> f.max + 1, frames |-> <<f>>]

\* Frames are counted, not told apart.
Completes(buf, f) ==
    \/ f.max = 0
    \/ f.seq \in DOMAIN buf /\ Len(EntryWith(buf, f).frames) = buf[f.seq].needed

\* What push() returns for a frame that completes a message.
Joined(buf, f) == IF f.max = 0 THEN f.data ELSE JoinFrames(EntryWith(buf, f).frames)

\* The buffer after push().
FramesAfter(buf, f) ==
    IF f.max = 0 THEN buf
    ELSE IF Completes(buf, f) THEN Restrict(buf, DOMAIN buf \ {f.seq})
    ELSE [s \in DOMAIN buf \cup {f.seq} |-> IF s = f.seq THEN EntryWith(buf, f) ELSE buf[s]]
=============================================================================
