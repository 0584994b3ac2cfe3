---------------------------- MODULE Compression -----------------------------
(***************************************************************************)
(* The compression of one lane (transport/compression.rs): how the builder  *)
(* configures it, what the negotiation tells the peer, and the dictionary   *)
(* that context takeover keeps on each side.  Deflate is external: what it  *)
(* makes of a message is a sequence of opaque bytes that only the           *)
(* dictionary it was made with turns back into the message.                 *)
(***************************************************************************)
EXTENDS Integers, Sequences

CONSTANT
    WindowBits   \* window_bits of context takeover (9 to 15 in the code)

ASSUME CompressionAssumption == WindowBits \in Nat \ {0}

-----------------------------------------------------------------------------
(* Configuration.  A window_bits of 0 and a level of "none" stand for None. *)

NewCompression == [enabled |-> FALSE, level |-> "none", window_bits |-> 0]

Enable(c) == [enabled |-> TRUE, level |-> "some", window_bits |-> 0]

EnableWithWindowBits(c) == [enabled |-> TRUE, level |-> "some", window_bits |-> WindowBits]

Disable(c) == [enabled |-> FALSE, level |-> "none", window_bits |-> 0]

Configure(configs) ==
    configs \cup UNION {{Enable(c), EnableWithWindowBits(c), Disable(c)} : c \in configs}

\* What up to two calls of the builder make.
Compressions == Configure(Configure({NewCompression}))

\* Compressor::new and Extractor::new look at the level and the window only.
Converter(c) ==
    IF c.level = "none" THEN "none"
    ELSE IF c.window_bits = 0 THEN "per-message" ELSE "context-takeover"

\* The parameters of the connection that are about compression.
NegotiationParams(c) ==
    [comp     |-> IF ~c.enabled THEN "none"
                  ELSE IF c.window_bits = 0 THEN "per-message" ELSE "context-takeover",
     cwinbits |-> IF c.enabled THEN c.window_bits ELSE 0]

\* The converter the peer makes of the parameters (external).
PeerConverter(params) == params.comp

-----------------------------------------------------------------------------
(* DictionaryBuffer *)

DictionarySize == 2 * 2 ^ (WindowBits - 1)

\* What the provers' arithmetic, which has no powers, does not know.
ASSUME DictionaryAssumption == DictionarySize \in Nat \ {0}

\* The last n elements of s, or all of them.
LastOf(s, n) == IF Len(s) <= n THEN s ELSE SubSeq(s, Len(s) - n + 1, Len(s))

\* Mutant: a message that does not fit replaces what is there.
PushMsgReplacing(buf, msg) ==
    IF DictionarySize - Len(buf) >= Len(msg) THEN buf \o msg ELSE LastOf(msg, DictionarySize)

\* push_msg: a message as long as the window, one that fits, and one for which
\* the oldest bytes make room.
PushMsg(buf, msg) ==
    CASE Len(msg) >= DictionarySize ->
            SubSeq(msg, Len(msg) - DictionarySize + 1, Len(msg))
      [] Len(msg) < DictionarySize /\ DictionarySize - Len(buf) >= Len(msg) ->
            buf \o msg
      [] OTHER ->
            LET all == buf \o msg
            IN  SubSeq(all, Len(all) - DictionarySize + 1, Len(all))

-----------------------------------------------------------------------------
(* Compressor and Extractor *)

\* What deflate makes of a message: shorter, never empty (external).
Deflate(dict, data) ==
    [i \in 1 .. Len(data) \div 2 + 1 |-> [of |-> data, with |-> dict, at |-> i]]

Corrupt == <<[corrupt |-> TRUE]>>

IsDeflated(wire) == "of" \in DOMAIN Head(wire)

\* inflate with a dictionary: another dictionary gives an error, which ends the
\* reader, or other bytes; the worse of the two is modelled (external).
Inflate(dict, wire) ==
    IF IsDeflated(wire) /\ wire = Deflate(dict, Head(wire).of) THEN Head(wire).of ELSE Corrupt

\* Compressor::compress: the dictionary in use is the one before the message.
Compress(converter, dict, data) ==
    IF converter = "none" THEN data ELSE Deflate(dict, data)

\* Extractor::extract; the read loop also calls it with nothing, after a
\* command.
Extract(converter, dict, wire) ==
    IF converter = "none" \/ wire = <<>> THEN wire ELSE Inflate(dict, wire)

\* The dictionary after compress() or extract() of a message.
Remember(converter, dict, data) ==
    IF converter = "context-takeover" THEN PushMsg(dict, data) ELSE dict
=============================================================================
