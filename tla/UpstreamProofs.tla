--------------------------- MODULE UpstreamProofs ---------------------------
(***************************************************************************)
(* Theorems about Upstream, for every configuration, width of the sequence  *)
(* numbers, queue size and number of writes, connections and resumes; and   *)
(* the proof that a reliable one implements InOrderLog.  The last parts ask  *)
(* that the sequence numbers have not wrapped around and, where it is       *)
(* assumed, that the server keeps the alias of a stream it resumes: a chunk *)
(* that is sent again carries the alias it was made with.                   *)
(***************************************************************************)
EXTENDS Upstream, FiniteSetTheorems, SequenceTheorems, TLAPS

-----------------------------------------------------------------------------
(* Type correctness *)

\* The buffer is finite, so fetch_add adds a number of data points to total.
LEMMA BufferFinite ==
    ASSUME TypeOK
    PROVE  IsFiniteSet(buffer) /\ Cardinality(buffer) \in Nat /\ buffer \subseteq Points
  <1>1. written \in Nat /\ buffer \subseteq 1 .. written /\ 1 .. written \subseteq Points
    BY ConstantsAssumption DEF TypeOK, AppTypes, InnerTypes, Points
  <1>2. IsFiniteSet(1 .. written)
    BY <1>1, FS_Interval
  <1>3. QED
    BY <1>1, <1>2, FS_Subset, FS_CardinalityType

\* A chunk made by take_chunk is a chunk.
LEMMA NewChunkType ==
    ASSUME TypeOK
    PROVE  NewChunk \in Chunk /\ NextSeq \in 0 .. MaxSeq
  <1>1. NextSeq \in 0 .. MaxSeq
    BY ConstantsAssumption DEF TypeOK, InnerTypes, NextSeq
  <1>2. QED
    BY <1>1, BufferFinite DEF TypeOK, InnerTypes, NewChunk, Chunk

\* take_chunk and add_chunk keep the types of what they change.
LEMMA TakeChunkType ==
    ASSUME TypeOK, TakeChunk
    PROVE  /\ buffer' \subseteq 1 .. written
           /\ last_issued' \in 0 .. MaxSeq
           /\ total' \in Nat
           /\ issued' \in Seq(Chunk)
           /\ chunks' \in SUBSET Chunk
  <1>1. CASE buffer = {}
    BY <1>1 DEF TypeOK, InnerTypes, LoopTypes, HistTypes, TakeChunk, AddChunk
  <1>2. CASE buffer # {}
    <2>1. NewChunk \in Chunk /\ NextSeq \in 0 .. MaxSeq /\ Cardinality(buffer) \in Nat
      BY NewChunkType, BufferFinite
    <2>2. issued' \in Seq(Chunk)
      BY <1>2, <2>1 DEF TypeOK, HistTypes, TakeChunk, AddChunk
    <2>3. buffer' \subseteq 1 .. written /\ last_issued' \in 0 .. MaxSeq
      BY <1>2, <2>1 DEF TakeChunk, AddChunk
    <2>4. total' \in Nat
      BY <1>2, <2>1 DEF TypeOK, InnerTypes, TakeChunk, AddChunk
    <2>5. chunks' \in SUBSET Chunk
      BY <1>2, <2>1 DEF TypeOK, LoopTypes, TakeChunk, AddChunk
    <2>6. QED
      BY <2>2, <2>3, <2>4, <2>5
  <1>3. QED
    BY <1>1, <1>2

\* What is left of the network when a chunk leaves it.
LEMMA LeavesType ==
    ASSUME NEW i \in 1 .. Len(net), TypeOK, Leaves(i)
    PROVE  net' \in Seq(Chunk) /\ net[i] \in Chunk
  <1>1. net \in Seq(Chunk) /\ Len(net) \in Nat
    BY DEF TypeOK, ConnTypes
  <1>2. SubSeq(net, 1, i - 1) \in Seq(Chunk) /\ SubSeq(net, i + 1, Len(net)) \in Seq(Chunk)
    BY <1>1, SubSeqProperties
  <1>3. QED
    BY <1>1, <1>2, ConcatProperties DEF Leaves

\* A chunk that is queued is added to the network.
LEMMA SendOkType ==
    ASSUME TypeOK, NEW c \in Chunk, SendOk(c)
    PROVE  net' \in Seq(Chunk)
  BY DEF TypeOK, ConnTypes, SendOk

\* A group of variables that a step leaves alone keeps its types.
LEMMA UnchangedTypes ==
    ASSUME TypeOK
    PROVE  /\ UNCHANGED appVars => AppTypes'
           /\ UNCHANGED <<innerVars, written>> => InnerTypes'
           /\ UNCHANGED loopVars => LoopTypes'
           /\ UNCHANGED resumeVars => ResumeTypes'
           /\ UNCHANGED connVars => ConnTypes'
           /\ UNCHANGED srvVars => ServerTypes'
           /\ UNCHANGED histVars => HistTypes'
<1>1. UNCHANGED appVars => AppTypes'
  BY DEF TypeOK, appVars, AppTypes
<1>2. UNCHANGED <<innerVars, written>> => InnerTypes'
  BY DEF TypeOK, innerVars, InnerTypes
<1>3. UNCHANGED loopVars => LoopTypes'
  BY DEF TypeOK, loopVars, LoopTypes
<1>4. UNCHANGED resumeVars => ResumeTypes'
  BY DEF TypeOK, resumeVars, ResumeTypes
<1>5. UNCHANGED connVars => ConnTypes'
  BY DEF TypeOK, connVars, ConnTypes
<1>6. UNCHANGED srvVars => ServerTypes'
  BY DEF TypeOK, srvVars, ServerTypes
<1>7. UNCHANGED histVars => HistTypes'
  BY DEF TypeOK, histVars, HistTypes
<1>8. QED
  BY <1>1, <1>2, <1>3, <1>4, <1>5, <1>6, <1>7

\* The calls of the application keep the types.
LEMMA AppType == TypeOK /\ App => TypeOK'
<1> SUFFICES ASSUME TypeOK, App PROVE TypeOK'
  OBVIOUS
<1>1. CASE WritePush
  <2>1. AppTypes'
    BY <1>1, ConstantsAssumption DEF WritePush, TypeOK, AppTypes, AppStates
  <2>2. InnerTypes'
    BY <1>1, ConstantsAssumption DEF WritePush, TypeOK, AppTypes, InnerTypes
  <2>3. LoopTypes' /\ ResumeTypes' /\ ConnTypes' /\ ServerTypes' /\ HistTypes'
    BY <1>1, UnchangedTypes DEF WritePush
  <2>4. QED
    BY <2>1, <2>2, <2>3 DEF TypeOK
<1>2. CASE WriteReturn
  <2>1. AppTypes'
    <3>1. written' = written /\ result' = result /\ app' = "idle" /\ written \in 1 .. written
      BY <1>2 DEF WriteReturn, TypeOK, AppTypes
    <3>2. accepted' \subseteq 1 .. written
      BY <1>2, <3>1 DEF WriteReturn, TypeOK, AppTypes
    <3>3. QED
      BY <3>1, <3>2 DEF TypeOK, AppTypes, AppStates
  <2>2. InnerTypes'
    BY <1>2 DEF WriteReturn, TypeOK, AppTypes, InnerTypes
  <2>3. LoopTypes' /\ ResumeTypes' /\ ConnTypes' /\ ServerTypes' /\ HistTypes'
    BY <1>2, UnchangedTypes DEF WriteReturn
  <2>4. QED
    BY <2>1, <2>2, <2>3 DEF TypeOK
<1>3. CASE FlushCall
  <2>1. AppTypes'
    BY <1>3 DEF FlushCall, TypeOK, AppTypes, AppStates
  <2>2. InnerTypes'
    BY <1>3 DEF FlushCall, TypeOK, AppTypes, InnerTypes
  <2>3. LoopTypes' /\ ResumeTypes' /\ ConnTypes' /\ ServerTypes' /\ HistTypes'
    BY <1>3, UnchangedTypes DEF FlushCall
  <2>4. QED
    BY <2>1, <2>2, <2>3 DEF TypeOK
<1>4. CASE FlushDropped
  <2>1. AppTypes'
    BY <1>4 DEF FlushDropped, TypeOK, AppTypes, AppStates
  <2>2. InnerTypes' /\ LoopTypes' /\ ResumeTypes' /\ ConnTypes' /\ ServerTypes' /\ HistTypes'
    BY <1>4, UnchangedTypes DEF FlushDropped
  <2>3. QED
    BY <2>1, <2>2 DEF TypeOK
<1>5. CASE CloseCall
  <2>1. AppTypes'
    BY <1>5 DEF CloseCall, TypeOK, AppTypes, AppStates
  <2>2. InnerTypes'
    BY <1>5 DEF CloseCall, TypeOK, AppTypes, InnerTypes
  <2>3. LoopTypes' /\ ResumeTypes' /\ ConnTypes' /\ ServerTypes' /\ HistTypes'
    BY <1>5, UnchangedTypes DEF CloseCall
  <2>4. QED
    BY <2>1, <2>2, <2>3 DEF TypeOK
<1>6. CASE CloseCallTimeout
  <2>1. AppTypes'
    BY <1>6 DEF CloseCallTimeout, TypeOK, AppTypes, AppStates
  <2>2. InnerTypes' /\ LoopTypes' /\ ResumeTypes' /\ ConnTypes' /\ ServerTypes' /\ HistTypes'
    BY <1>6, UnchangedTypes DEF CloseCallTimeout
  <2>3. QED
    BY <2>1, <2>2 DEF TypeOK
<1>7. QED
  BY <1>1, <1>2, <1>3, <1>4, <1>5, <1>6 DEF App

\* The steps of upstream_loop keep the types.
LEMMA LoopType == TypeOK /\ Loop => TypeOK'
<1> SUFFICES ASSUME TypeOK, Loop PROVE TypeOK'
  OBVIOUS
<1>1. CASE ResumingFlush
  <2>1. InnerTypes'
    BY <1>1, TakeChunkType DEF ResumingFlush, TypeOK, AppTypes, InnerTypes, appVars
  <2>2. LoopTypes'
    BY <1>1, TakeChunkType DEF ResumingFlush, TypeOK, LoopTypes, LoopStates
  <2>3. HistTypes'
    BY <1>1, TakeChunkType DEF ResumingFlush, TypeOK, HistTypes
  <2>4. AppTypes' /\ ResumeTypes' /\ ConnTypes' /\ ServerTypes'
    BY <1>1, UnchangedTypes DEF ResumingFlush
  <2>5. QED
    BY <2>1, <2>2, <2>3, <2>4 DEF TypeOK
<1>2. CASE ResumingReply
  <2>1. AppTypes'
    BY <1>2 DEF ResumingReply, Reply, TypeOK, AppTypes, AppStates
  <2>2. InnerTypes'
    BY <1>2 DEF ResumingReply, Reply, TypeOK, AppTypes, InnerTypes
  <2>3. LoopTypes'
    BY <1>2 DEF ResumingReply, Reply, TypeOK, LoopTypes, LoopStates
  <2>4. ResumeTypes' /\ ConnTypes' /\ ServerTypes' /\ HistTypes'
    BY <1>2, UnchangedTypes DEF ResumingReply
  <2>5. QED
    BY <2>1, <2>2, <2>3, <2>4 DEF TypeOK
<1>3. CASE ResumeGaveUp
  <2>1. InnerTypes'
    BY <1>3 DEF ResumeGaveUp, Exit, TypeOK, AppTypes, InnerTypes, appVars
  <2>2. LoopTypes'
    BY <1>3 DEF ResumeGaveUp, Exit, TypeOK, LoopTypes, LoopStates
  <2>3. ConnTypes'
    BY <1>3 DEF ResumeGaveUp, Exit, TypeOK, ConnTypes
  <2>4. AppTypes' /\ ResumeTypes' /\ ServerTypes' /\ HistTypes'
    BY <1>3, UnchangedTypes DEF ResumeGaveUp
  <2>5. QED
    BY <2>1, <2>2, <2>3, <2>4 DEF TypeOK
<1>4. CASE ResumeDone
  <2>1. InnerTypes'
    BY <1>4, TakeChunkType DEF ResumeDone, TypeOK, AppTypes, InnerTypes, appVars
  <2>2. LoopTypes'
    BY <1>4, TakeChunkType DEF ResumeDone, TypeOK, LoopTypes, LoopStates
  <2>3. HistTypes'
    BY <1>4, TakeChunkType DEF ResumeDone, TypeOK, HistTypes
  <2>4. AppTypes' /\ ResumeTypes' /\ ConnTypes' /\ ServerTypes'
    BY <1>4, UnchangedTypes DEF ResumeDone
  <2>5. QED
    BY <2>1, <2>2, <2>3, <2>4 DEF TypeOK
<1>5. CASE Resend
  <2>1. LoopTypes'
    BY <1>5 DEF Resend, TypeOK, LoopTypes, LoopStates
  <2>2. ConnTypes'
    BY <1>5, SendOkType DEF Resend, TypeOK, ConnTypes, LoopTypes
  <2>3. AppTypes' /\ InnerTypes' /\ ResumeTypes' /\ ServerTypes' /\ HistTypes'
    BY <1>5, UnchangedTypes DEF Resend, appVars
  <2>4. QED
    BY <2>1, <2>2, <2>3 DEF TypeOK
<1>6. CASE ResendFailed
  <2>1. InnerTypes'
    BY <1>6 DEF ResendFailed, Exit, BackToResume, SendErr, TypeOK, AppTypes, InnerTypes, appVars
  <2>2. LoopTypes'
    BY <1>6 DEF ResendFailed, Exit, BackToResume, SendErr, TypeOK, LoopTypes, LoopStates
  <2>3. ResumeTypes'
    BY <1>6 DEF ResendFailed, Exit, BackToResume, SendErr, TypeOK, ResumeTypes, resumeVars
  <2>4. ConnTypes'
    BY <1>6 DEF ResendFailed, Exit, BackToResume, SendErr, TypeOK, ConnTypes
  <2>5. AppTypes' /\ ServerTypes' /\ HistTypes'
    BY <1>6, UnchangedTypes DEF ResendFailed
  <2>6. QED
    BY <2>1, <2>2, <2>3, <2>4, <2>5 DEF TypeOK
<1>7. CASE ResendDone
  <2>1. LoopTypes'
    BY <1>7 DEF ResendDone, TypeOK, LoopTypes, LoopStates
  <2>2. AppTypes' /\ InnerTypes' /\ ResumeTypes' /\ ConnTypes' /\ ServerTypes' /\ HistTypes'
    BY <1>7, UnchangedTypes DEF ResendDone, appVars
  <2>3. QED
    BY <2>1, <2>2 DEF TypeOK
<1>8. CASE SelectFlush
  <2>1. InnerTypes'
    BY <1>8, TakeChunkType DEF SelectFlush, FlushTake, TypeOK, AppTypes, InnerTypes, appVars
  <2>2. LoopTypes'
    BY <1>8, TakeChunkType, NewChunkType DEF SelectFlush, FlushTake, TypeOK, LoopTypes, LoopStates
  <2>3. HistTypes'
    BY <1>8, TakeChunkType DEF SelectFlush, FlushTake, TypeOK, HistTypes
  <2>4. AppTypes' /\ ResumeTypes' /\ ConnTypes' /\ ServerTypes'
    BY <1>8, UnchangedTypes DEF SelectFlush
  <2>5. QED
    BY <2>1, <2>2, <2>3, <2>4 DEF TypeOK
<1>9. CASE SelectCancelled
  <2>1. InnerTypes'
    BY <1>9, TakeChunkType DEF SelectCancelled, FlushTake, TypeOK, AppTypes, InnerTypes, appVars
  <2>2. LoopTypes'
    BY <1>9, TakeChunkType, NewChunkType DEF SelectCancelled, FlushTake, TypeOK,
       LoopTypes, LoopStates
  <2>3. HistTypes'
    BY <1>9, TakeChunkType DEF SelectCancelled, FlushTake, TypeOK, HistTypes
  <2>4. AppTypes' /\ ResumeTypes' /\ ConnTypes' /\ ServerTypes'
    BY <1>9, UnchangedTypes DEF SelectCancelled
  <2>5. QED
    BY <2>1, <2>2, <2>3, <2>4 DEF TypeOK
<1>10. CASE SelectAck
  <2>1. LoopTypes'
    BY <1>10 DEF SelectAck, ProcessAck, TypeOK, LoopTypes, LoopStates
  <2>2. AppTypes' /\ InnerTypes' /\ ResumeTypes' /\ ConnTypes' /\ ServerTypes' /\ HistTypes'
    BY <1>10, UnchangedTypes DEF SelectAck, appVars
  <2>3. QED
    BY <2>1, <2>2 DEF TypeOK
<1>11. CASE SelectAckClosed
  <2>1. InnerTypes'
    BY <1>11 DEF SelectAckClosed, Exit, BackToResume, TypeOK, AppTypes, InnerTypes, appVars
  <2>2. LoopTypes'
    BY <1>11 DEF SelectAckClosed, Exit, BackToResume, TypeOK, LoopTypes, LoopStates
  <2>3. ResumeTypes'
    <3>1. CASE ExpiryZero \/ ct
      BY <1>11, <3>1 DEF SelectAckClosed, BackToResume, TypeOK, ResumeTypes, resumeVars
    <3>2. CASE ~(ExpiryZero \/ ct)
      <4>1. need_resume' \in BOOLEAN
        BY <1>11, <3>2, Zenon DEF SelectAckClosed, BackToResume
      <4>2. rpc' = "top" /\ local_token' = 0 /\ wire_conn' = wire_conn
        BY <1>11, <3>2 DEF SelectAckClosed, BackToResume
      <4>3. QED
        BY <4>1, <4>2 DEF TypeOK, ResumeTypes
    <3>3. QED
      BY <3>1, <3>2
  <2>4. ConnTypes'
    BY <1>11 DEF SelectAckClosed, Exit, BackToResume, TypeOK, ConnTypes
  <2>5. AppTypes' /\ ServerTypes' /\ HistTypes'
    BY <1>11, UnchangedTypes DEF SelectAckClosed
  <2>6. QED
    BY <2>1, <2>2, <2>3, <2>4, <2>5 DEF TypeOK
<1>12. CASE Flushed
  <2>1. AppTypes'
    BY <1>12 DEF Flushed, Reply, TypeOK, AppTypes, AppStates
  <2>2. InnerTypes'
    BY <1>12 DEF Flushed, Reply, TypeOK, AppTypes, InnerTypes
  <2>3. LoopTypes'
    BY <1>12 DEF Flushed, Reply, TypeOK, LoopTypes, LoopStates
  <2>4. ConnTypes'
    BY <1>12, SendOkType DEF Flushed, Reply, TypeOK, ConnTypes, LoopTypes
  <2>5. ResumeTypes' /\ ServerTypes' /\ HistTypes'
    BY <1>12, UnchangedTypes DEF Flushed
  <2>6. QED
    BY <2>1, <2>2, <2>3, <2>4, <2>5 DEF TypeOK
<1>13. CASE FlushFailed
  <2>1. AppTypes'
    BY <1>13 DEF FlushFailed, Reply, Exit, BackToResume, SendErr, TypeOK, AppTypes, AppStates
  <2>2. InnerTypes'
    BY <1>13 DEF FlushFailed, Reply, Exit, BackToResume, SendErr, TypeOK, AppTypes, InnerTypes
  <2>3. LoopTypes'
    BY <1>13 DEF FlushFailed, Reply, Exit, BackToResume, SendErr, TypeOK, LoopTypes, LoopStates
  <2>4. ResumeTypes'
    <3>1. CASE ExpiryZero \/ ct
      BY <1>13, <3>1 DEF FlushFailed, BackToResume, TypeOK, ResumeTypes, resumeVars
    <3>2. CASE ~(ExpiryZero \/ ct)
      <4>1. need_resume' \in BOOLEAN
        BY <1>13, <3>2, Zenon DEF FlushFailed, BackToResume
      <4>2. rpc' = "top" /\ local_token' = 0 /\ wire_conn' = wire_conn
        BY <1>13, <3>2 DEF FlushFailed, BackToResume
      <4>3. QED
        BY <4>1, <4>2 DEF TypeOK, ResumeTypes
    <3>3. QED
      BY <3>1, <3>2
  <2>5. ConnTypes'
    BY <1>13 DEF FlushFailed, Reply, Exit, BackToResume, SendErr, TypeOK, ConnTypes
  <2>6. ServerTypes' /\ HistTypes'
    BY <1>13, UnchangedTypes DEF FlushFailed
  <2>7. QED
    BY <2>1, <2>2, <2>3, <2>4, <2>5, <2>6 DEF TypeOK
<1>14. CASE LastAckReceive
  <2>1. LoopTypes'
    BY <1>14 DEF LastAckReceive, ProcessAck, TypeOK, LoopTypes, LoopStates
  <2>2. AppTypes' /\ InnerTypes' /\ ResumeTypes' /\ ConnTypes' /\ ServerTypes' /\ HistTypes'
    BY <1>14, UnchangedTypes DEF LastAckReceive, appVars
  <2>3. QED
    BY <2>1, <2>2 DEF TypeOK
<1>15. CASE LastAckDone
  <2>1. LoopTypes'
    BY <1>15 DEF LastAckDone, TypeOK, LoopTypes, LoopStates
  <2>2. AppTypes' /\ InnerTypes' /\ ResumeTypes' /\ ConnTypes' /\ ServerTypes' /\ HistTypes'
    BY <1>15, UnchangedTypes DEF LastAckDone, appVars
  <2>3. QED
    BY <2>1, <2>2 DEF TypeOK
<1>16. CASE SendCloseRequest
  <2>1. LoopTypes'
    BY <1>16 DEF SendCloseRequest, CloseRequest, TypeOK, LoopTypes, LoopStates
  <2>2. HistTypes'
    BY <1>16 DEF SendCloseRequest, CloseRequest, TypeOK, HistTypes, InnerTypes, LoopTypes
  <2>3. AppTypes' /\ InnerTypes' /\ ResumeTypes' /\ ConnTypes' /\ ServerTypes'
    BY <1>16, UnchangedTypes DEF SendCloseRequest, appVars
  <2>4. QED
    BY <2>1, <2>2, <2>3 DEF TypeOK
<1>17. CASE CloseAnswered
  <2>1. AppTypes'
    BY <1>17 DEF CloseAnswered, Reply, Exit, TypeOK, AppTypes, AppStates
  <2>2. InnerTypes'
    BY <1>17 DEF CloseAnswered, Reply, Exit, TypeOK, AppTypes, InnerTypes
  <2>3. LoopTypes'
    BY <1>17 DEF CloseAnswered, Reply, Exit, TypeOK, LoopTypes, LoopStates
  <2>4. ConnTypes'
    BY <1>17 DEF CloseAnswered, Reply, Exit, TypeOK, ConnTypes
  <2>5. HistTypes'
    BY <1>17 DEF CloseAnswered, Reply, Exit, TypeOK, HistTypes
  <2>6. ResumeTypes' /\ ServerTypes'
    BY <1>17, UnchangedTypes DEF CloseAnswered
  <2>7. QED
    BY <2>1, <2>2, <2>3, <2>4, <2>5, <2>6 DEF TypeOK
<1>18. CASE CloseFailed
  <2>1. AppTypes'
    BY <1>18 DEF CloseFailed, Reply, Exit, TypeOK, AppTypes, AppStates
  <2>2. InnerTypes'
    BY <1>18 DEF CloseFailed, Reply, Exit, TypeOK, AppTypes, InnerTypes
  <2>3. LoopTypes'
    BY <1>18 DEF CloseFailed, Reply, Exit, TypeOK, LoopTypes, LoopStates
  <2>4. ConnTypes'
    BY <1>18 DEF CloseFailed, Reply, Exit, TypeOK, ConnTypes
  <2>5. ResumeTypes' /\ ServerTypes' /\ HistTypes'
    BY <1>18, UnchangedTypes DEF CloseFailed
  <2>6. QED
    BY <2>1, <2>2, <2>3, <2>4, <2>5 DEF TypeOK
<1>19. CASE ProcessRemaining
  <2>1. InnerTypes'
    BY <1>19, TakeChunkType DEF ProcessRemaining, TypeOK, AppTypes, InnerTypes, appVars
  <2>2. LoopTypes'
    BY <1>19, TakeChunkType DEF ProcessRemaining, TypeOK, LoopTypes, LoopStates
  <2>3. HistTypes'
    BY <1>19, TakeChunkType DEF ProcessRemaining, TypeOK, HistTypes
  <2>4. AppTypes' /\ ResumeTypes' /\ ConnTypes' /\ ServerTypes'
    BY <1>19, UnchangedTypes DEF ProcessRemaining
  <2>5. QED
    BY <2>1, <2>2, <2>3, <2>4 DEF TypeOK
<1>20. QED
  BY <1>1, <1>2, <1>3, <1>4, <1>5, <1>6, <1>7, <1>8, <1>9, <1>10, <1>11, <1>12, <1>13,
     <1>14, <1>15, <1>16, <1>17, <1>18, <1>19 DEF Loop

\* The steps of get_conn_and_resume keep the types.
LEMMA ResumeTaskType == TypeOK /\ ResumeTask => TypeOK'
<1> SUFFICES ASSUME TypeOK, ResumeTask PROVE TypeOK'
  OBVIOUS
<1>1. CASE ResumeTakeToken
  <2>1. InnerTypes'
    BY <1>1 DEF ResumeTakeToken, TypeOK, AppTypes, InnerTypes, appVars
  <2>2. ResumeTypes'
    BY <1>1 DEF ResumeTakeToken, TypeOK, ResumeTypes, InnerTypes
  <2>3. AppTypes' /\ LoopTypes' /\ ConnTypes' /\ ServerTypes' /\ HistTypes'
    BY <1>1, UnchangedTypes DEF ResumeTakeToken
  <2>4. QED
    BY <2>1, <2>2, <2>3 DEF TypeOK
<1>2. CASE ResumeOk
  <2>1. InnerTypes'
    BY <1>2, ConstantsAssumption DEF ResumeOk, ServerResume, TypeOK, AppTypes,
       InnerTypes, ServerTypes, appVars
  <2>2. ResumeTypes'
    BY <1>2 DEF ResumeOk, ServerResume, TypeOK, ResumeTypes
  <2>3. ServerTypes'
    BY <1>2, ConstantsAssumption DEF ResumeOk, ServerResume, TypeOK, ServerTypes, ResumeTypes
  <2>4. AppTypes' /\ LoopTypes' /\ ConnTypes' /\ HistTypes'
    BY <1>2, UnchangedTypes DEF ResumeOk, histVars
  <2>5. QED
    BY <2>1, <2>2, <2>3, <2>4 DEF TypeOK
<1>3. CASE ResumeResponseLost
  <2>1. ResumeTypes'
    BY <1>3 DEF ResumeResponseLost, ServerResume, TypeOK, ResumeTypes
  <2>2. ServerTypes'
    BY <1>3, ConstantsAssumption DEF ResumeResponseLost, ServerResume, TypeOK,
       ServerTypes, ResumeTypes
  <2>3. AppTypes' /\ InnerTypes' /\ LoopTypes' /\ ConnTypes' /\ HistTypes'
    BY <1>3, UnchangedTypes DEF ResumeResponseLost, appVars
  <2>4. QED
    BY <2>1, <2>2, <2>3 DEF TypeOK
<1>4. CASE ResumeRetry
  <2>1. ResumeTypes'
    BY <1>4 DEF ResumeRetry, TypeOK, ResumeTypes
  <2>2. AppTypes' /\ InnerTypes' /\ LoopTypes' /\ ConnTypes' /\ ServerTypes' /\ HistTypes'
    BY <1>4, UnchangedTypes DEF ResumeRetry, appVars
  <2>3. QED
    BY <2>1, <2>2 DEF TypeOK
<1>5. CASE ResumeRefused
  <2>1. ResumeTypes'
    BY <1>5 DEF ResumeRefused, TypeOK, ResumeTypes
  <2>2. AppTypes' /\ InnerTypes' /\ LoopTypes' /\ ConnTypes' /\ ServerTypes' /\ HistTypes'
    BY <1>5, UnchangedTypes DEF ResumeRefused, appVars
  <2>3. QED
    BY <2>1, <2>2 DEF TypeOK
<1>6. CASE AddUpstream
  <2>1. LoopTypes'
    BY <1>6 DEF AddUpstream, TypeOK, LoopTypes
  <2>2. ResumeTypes'
    BY <1>6 DEF AddUpstream, TypeOK, ResumeTypes
  <2>3. AppTypes' /\ InnerTypes' /\ ConnTypes' /\ ServerTypes' /\ HistTypes'
    BY <1>6, UnchangedTypes DEF AddUpstream, appVars
  <2>4. QED
    BY <2>1, <2>2, <2>3 DEF TypeOK
<1>7. CASE GetUpdated
  <2>1. ResumeTypes'
    BY <1>7 DEF GetUpdated, TypeOK, ResumeTypes, ConnTypes
  <2>2. AppTypes' /\ InnerTypes' /\ LoopTypes' /\ ConnTypes' /\ ServerTypes' /\ HistTypes'
    BY <1>7, UnchangedTypes DEF GetUpdated, appVars
  <2>3. QED
    BY <2>1, <2>2 DEF TypeOK
<1>8. CASE ResumeTimeout
  <2>1. ResumeTypes'
    BY <1>8 DEF ResumeTimeout, TypeOK, ResumeTypes
  <2>2. AppTypes' /\ InnerTypes' /\ LoopTypes' /\ ConnTypes' /\ ServerTypes' /\ HistTypes'
    BY <1>8, UnchangedTypes DEF ResumeTimeout, appVars
  <2>3. QED
    BY <2>1, <2>2 DEF TypeOK
<1>9. CASE ResumeCancelled
  <2>1. ResumeTypes'
    BY <1>9 DEF ResumeCancelled, TypeOK, ResumeTypes
  <2>2. AppTypes' /\ InnerTypes' /\ LoopTypes' /\ ConnTypes' /\ ServerTypes' /\ HistTypes'
    BY <1>9, UnchangedTypes DEF ResumeCancelled, appVars
  <2>3. QED
    BY <2>1, <2>2 DEF TypeOK
<1>10. QED
  BY <1>1, <1>2, <1>3, <1>4, <1>5, <1>6, <1>7, <1>8, <1>9 DEF ResumeTask

\* The steps of the connection and the server keep the types.
LEMMA EnvironmentType == TypeOK /\ Environment => TypeOK'
<1> SUFFICES ASSUME TypeOK, Environment PROVE TypeOK'
  OBVIOUS
<1>1. CASE ConnDown
  <2>1. ConnTypes'
    <3>1. up' \in BOOLEAN /\ registered' \in BOOLEAN
      BY <1>1, Zenon DEF ConnDown
    <3>2. net' \in Seq(Chunk)
      BY <1>1 DEF ConnDown
    <3>3. epoch' = epoch /\ shutdown' = shutdown
      BY <1>1 DEF ConnDown
    <3>4. QED
      BY <3>1, <3>2, <3>3 DEF TypeOK, ConnTypes
  <2>2. ServerTypes'
    BY <1>1 DEF ConnDown, TypeOK, ServerTypes
  <2>3. AppTypes' /\ InnerTypes' /\ LoopTypes' /\ ResumeTypes' /\ HistTypes'
    BY <1>1, UnchangedTypes DEF ConnDown, appVars
  <2>4. QED
    BY <2>1, <2>2, <2>3 DEF TypeOK
<1>2. CASE Reconnect
  <2>1. ConnTypes'
    BY <1>2, ConstantsAssumption DEF Reconnect, TypeOK, ConnTypes
  <2>2. AppTypes' /\ InnerTypes' /\ LoopTypes' /\ ResumeTypes' /\ ServerTypes' /\ HistTypes'
    BY <1>2, UnchangedTypes DEF Reconnect, appVars
  <2>3. QED
    BY <2>1, <2>2 DEF TypeOK
<1>3. CASE ConnShutdown
  <2>1. ConnTypes'
    BY <1>3 DEF ConnShutdown, TypeOK, ConnTypes
  <2>2. AppTypes' /\ InnerTypes' /\ LoopTypes' /\ ResumeTypes' /\ ServerTypes' /\ HistTypes'
    BY <1>3, UnchangedTypes DEF ConnShutdown, appVars
  <2>3. QED
    BY <2>1, <2>2 DEF TypeOK
<1>4. CASE ConnClose
  <2>1. InnerTypes'
    BY <1>4 DEF ConnClose, TypeOK, AppTypes, InnerTypes, appVars
  <2>2. AppTypes' /\ LoopTypes' /\ ResumeTypes' /\ ConnTypes' /\ ServerTypes' /\ HistTypes'
    BY <1>4, UnchangedTypes DEF ConnClose
  <2>3. QED
    BY <2>1, <2>2 DEF TypeOK
<1>5. CASE ReadLoopRegister
  <2>1. ConnTypes'
    BY <1>5 DEF ReadLoopRegister, TypeOK, ConnTypes
  <2>2. AppTypes' /\ InnerTypes' /\ LoopTypes' /\ ResumeTypes' /\ ServerTypes' /\ HistTypes'
    BY <1>5, UnchangedTypes DEF ReadLoopRegister, appVars
  <2>3. QED
    BY <2>1, <2>2 DEF TypeOK
<1>6. CASE ServerReceive
  <2>1. ConnTypes'
    BY <1>6, LeavesType DEF ServerReceive, TypeOK, ConnTypes
  <2>2. ServerTypes'
    BY <1>6, LeavesType DEF ServerReceive, Chunk, TypeOK, ServerTypes
  <2>3. AppTypes' /\ InnerTypes' /\ LoopTypes' /\ ResumeTypes' /\ HistTypes'
    BY <1>6, UnchangedTypes DEF ServerReceive, appVars
  <2>4. QED
    BY <2>1, <2>2, <2>3 DEF TypeOK
<1>7. CASE NetDrop
  <2>1. ConnTypes'
    BY <1>7, LeavesType DEF NetDrop, TypeOK, ConnTypes
  <2>2. AppTypes' /\ InnerTypes' /\ LoopTypes' /\ ResumeTypes' /\ ServerTypes' /\ HistTypes'
    BY <1>7, UnchangedTypes DEF NetDrop, appVars
  <2>3. QED
    BY <2>1, <2>2 DEF TypeOK
<1>8. CASE ServerAck
  <2>1. LoopTypes'
    BY <1>8 DEF ServerAck, TypeOK, LoopTypes, LoopStates, ServerTypes
  <2>2. ServerTypes'
    BY <1>8 DEF ServerAck, TypeOK, ServerTypes
  <2>3. AppTypes' /\ InnerTypes' /\ ResumeTypes' /\ ConnTypes' /\ HistTypes'
    BY <1>8, UnchangedTypes DEF ServerAck, appVars
  <2>4. QED
    BY <2>1, <2>2, <2>3 DEF TypeOK
<1>9. QED
  BY <1>1, <1>2, <1>3, <1>4, <1>5, <1>6, <1>7, <1>8 DEF Environment

\* Every step keeps the types.
LEMMA TypeStep == TypeOK /\ [Next]_vars => TypeOK'
<1>1. TypeOK /\ UNCHANGED vars => TypeOK'
  BY UnchangedTypes DEF vars, appVars, TypeOK
<1>2. QED
  BY <1>1, AppType, LoopType, ResumeTaskType, EnvironmentType DEF Next, Finished

\* Every variable keeps its type in every behaviour of the stream.
THEOREM TypeCorrect == Spec => []TypeOK
<1>1. Init => TypeOK
  <2> SUFFICES ASSUME Init PROVE TypeOK
    OBVIOUS
  <2>1. /\ notify \in BOOLEAN /\ ct \in BOOLEAN /\ is_connected \in BOOLEAN
        /\ closing \in BOOLEAN /\ need_resume \in BOOLEAN
        /\ up \in BOOLEAN /\ shutdown \in BOOLEAN /\ registered \in BOOLEAN
    BY Zenon DEF Init
  <2>2. AppTypes
    BY ConstantsAssumption DEF Init, AppTypes, AppStates
  <2>3. /\ buffer \subseteq 1 .. written /\ last_issued \in 0 .. MaxSeq /\ total \in Nat
        /\ stream_id_alias \in Nat /\ resume_token \in Nat
        /\ tx_result \in {"none", "flush", "close"}
    BY ConstantsAssumption DEF Init
  <2>4. /\ pc \in LoopStates /\ sending = {} /\ resend = {} /\ chunks = {}
        /\ last_received \in 0 .. MaxSeq /\ rx_ack = {}
    BY ConstantsAssumption DEF Init, LoopStates
  <2>5. /\ rpc \in {"top", "request", "some", "none", "err"} /\ local_token \in Nat
        /\ wire_conn \in 1 .. MaxConns
        /\ epoch \in 1 .. MaxConns /\ net \in Seq(Chunk)
    BY ConstantsAssumption DEF Init
  <2>6. ServerTypes /\ HistTypes
    BY ConstantsAssumption DEF Init, ServerTypes, HistTypes
  <2>7. QED
    BY <2>1, <2>2, <2>3, <2>4, <2>5, <2>6
    DEF TypeOK, InnerTypes, LoopTypes, ResumeTypes, ConnTypes
<1>2. QED
  BY <1>1, TypeStep, PTL DEF Spec

-----------------------------------------------------------------------------
(* What a step can do to the chunks *)

\* The numbering, storing and receiving of chunks.
chunkVars == <<last_issued, issued, chunks, srv_received>>

\* Nothing is stored, issued or received, and an ack channel gets nothing but
\* what the server was about to acknowledge.
NoChunkStep ==
    /\ UNCHANGED chunkVars
    /\ rx_ack' \subseteq rx_ack \cup srv_pending
    /\ srv_pending' \subseteq srv_pending

\* take_chunk and add_chunk, from any of their callers.
TakeStep == TakeChunk /\ UNCHANGED <<srv_received, srv_pending, rx_ack>>

\* process_ack, from the flush loop or from the close path.
AckStep ==
    /\ \E s \in rx_ack : ProcessAck(s)
    /\ UNCHANGED <<last_issued, issued, srv_received, srv_pending>>

\* The server takes a chunk.
ReceiveStep ==
    /\ UNCHANGED <<last_issued, issued, chunks, rx_ack>>
    /\ \E n \in 0 .. MaxSeq : /\ srv_received' = srv_received \cup {n}
                              /\ srv_pending' = srv_pending \cup {n}

\* As far as chunks go, every step of the stream is one of these four.
LEMMA ChunkSteps ==
    ASSUME TypeOK, [Next]_vars
    PROVE  NoChunkStep \/ TakeStep \/ AckStep \/ ReceiveStep
<1> USE DEF chunkVars, NoChunkStep, innerVars, loopVars, srvVars, histVars
<1>1. CASE App
  BY <1>1 DEF App, WritePush, WriteReturn, FlushCall, FlushDropped, CloseCall,
              CloseCallTimeout
<1>2. CASE Loop
  <2>1. CASE ResumingFlush \/ SelectFlush \/ SelectCancelled \/ ProcessRemaining
    BY <2>1 DEF ResumingFlush, SelectFlush, SelectCancelled, ProcessRemaining, FlushTake,
                TakeStep
  <2>2. CASE ResumeDone
    BY <2>2 DEF ResumeDone, TakeStep
  <2>3. CASE SelectAck \/ LastAckReceive
    BY <2>3 DEF SelectAck, LastAckReceive, AckStep
  <2>4. CASE ResumingReply \/ ResumeGaveUp \/ Resend \/ ResendDone
    BY <2>4 DEF ResumingReply, ResumeGaveUp, Exit, Resend, ResendDone
  <2>5. CASE ResendFailed \/ SelectAckClosed \/ FlushFailed
    BY <2>5 DEF ResendFailed, SelectAckClosed, FlushFailed, BackToResume, Exit
  <2>6. CASE Flushed \/ LastAckDone \/ SendCloseRequest \/ CloseAnswered \/ CloseFailed
    BY <2>6 DEF Flushed, LastAckDone, SendCloseRequest, CloseAnswered, CloseFailed, Exit
  <2>7. QED
    BY <1>2, <2>1, <2>2, <2>3, <2>4, <2>5, <2>6 DEF Loop
<1>3. CASE ResumeTask
  BY <1>3 DEF ResumeTask, ResumeTakeToken, ResumeOk, ResumeResponseLost, ResumeRetry,
              ResumeRefused, AddUpstream, GetUpdated, ResumeTimeout, ResumeCancelled,
              ServerResume
<1>4. CASE Environment
  <2>1. CASE ConnDown \/ Reconnect \/ ConnShutdown \/ ConnClose \/ ReadLoopRegister \/ NetDrop
    BY <2>1 DEF ConnDown, Reconnect, ConnShutdown, ConnClose, ReadLoopRegister, NetDrop
  <2>2. CASE ServerAck
    BY <2>2 DEF ServerAck
  <2>3. CASE ServerReceive
    <3>1. PICK i \in 1 .. Len(net) :
            /\ Leaves(i)
            /\ IF srv_conn = epoch /\ net[i].alias = srv_alias
               THEN /\ srv_received' = srv_received \cup {net[i].seq}
                    /\ srv_pending' = srv_pending \cup {net[i].seq}
               ELSE UNCHANGED <<srv_received, srv_pending>>
      BY <2>3 DEF ServerReceive
    <3>2. net[i].seq \in 0 .. MaxSeq
      BY <3>1, LeavesType DEF Chunk
    <3>3. QED
      BY <2>3, <3>1, <3>2 DEF ServerReceive, ReceiveStep
  <2>4. QED
    BY <1>4, <2>1, <2>2, <2>3 DEF Environment
<1>5. CASE UNCHANGED vars
  BY <1>5 DEF vars
<1>6. QED
  BY <1>1, <1>2, <1>3, <1>4, <1>5 DEF Next, Finished

-----------------------------------------------------------------------------
(* A reliable stream retains what the server has not got *)

\* Until they wrap around, sequence numbers are the positions of the chunks.
Numbered ==
    NoWrap => /\ last_issued = Len(issued)
              /\ \A i \in 1 .. Len(issued) : issued[i].seq = i

\* Acks, pending or in the channel of the stream, are for received chunks.
AcksAreReceived == srv_pending \subseteq srv_received /\ rx_ack \subseteq srv_received

RetainedInv == Numbered /\ AcksAreReceived /\ Retained

\* The retention of chunks is inductive: take_chunk stores what it issues under
\* a number no other stored chunk has, and process_ack removes what the server
\* has got.
LEMMA RetainedStep == TypeOK /\ RetainedInv /\ [Next]_vars => RetainedInv'
<1> SUFFICES ASSUME TypeOK, RetainedInv, [Next]_vars PROVE RetainedInv'
  OBVIOUS
<1>1. CASE NoChunkStep
  BY <1>1 DEF NoChunkStep, chunkVars, RetainedInv, Numbered, AcksAreReceived, Retained, NoWrap
<1>2. CASE TakeStep
  <2>1. CASE buffer = {}
    BY <1>2, <2>1 DEF TakeStep, TakeChunk, AddChunk, RetainedInv, Numbered, AcksAreReceived,
                     Retained, NoWrap
  <2>2. CASE buffer # {}
    <3>1. /\ issued' = Append(issued, NewChunk) /\ last_issued' = NextSeq
          /\ srv_received' = srv_received /\ srv_pending' = srv_pending /\ rx_ack' = rx_ack
      BY <1>2, <2>2 DEF TakeStep, TakeChunk, AddChunk
    <3>2. issued \in Seq(Chunk) /\ NewChunk \in Chunk /\ NewChunk.seq = NextSeq
      BY NewChunkType DEF TypeOK, HistTypes, NewChunk
    <3>3. /\ Len(issued) \in Nat /\ Len(issued') = Len(issued) + 1
          /\ \A i \in 1 .. Len(issued) : issued'[i] = issued[i]
          /\ issued'[Len(issued) + 1] = NewChunk
      BY <3>1, <3>2
    <3>4. NoWrap' => NoWrap /\ NextSeq = Len(issued) + 1
      BY <3>3, ConstantsAssumption DEF NoWrap, RetainedInv, Numbered, NextSeq
    <3>5. Numbered'
      BY <3>1, <3>2, <3>3, <3>4 DEF RetainedInv, Numbered
    <3>6. Retained'
      <4> SUFFICES ASSUME QoS = "Reliable", NoWrap', NEW i \in 1 .. Len(issued')
                   PROVE  issued'[i] \in chunks' \/ issued'[i].seq \in srv_received'
        BY DEF Retained
      <4>1. chunks' = {c \in chunks : c.seq # NextSeq} \cup {NewChunk}
        BY <1>2, <2>2, <3>2 DEF TakeStep, TakeChunk, AddChunk
      <4>2. CASE i = Len(issued) + 1
        BY <3>3, <4>1, <4>2
      <4>3. CASE i # Len(issued) + 1
        <5>1. i \in 1 .. Len(issued) /\ issued'[i] = issued[i]
          BY <3>3, <4>3
        <5>2. issued[i].seq = i /\ i # NextSeq
          BY <3>3, <3>4, <5>1 DEF RetainedInv, Numbered
        <5>3. issued[i] \in chunks \/ issued[i].seq \in srv_received
          BY <3>4, <5>1 DEF RetainedInv, Retained
        <5>4. QED
          BY <3>1, <4>1, <5>1, <5>2, <5>3
      <4>4. QED
        BY <4>2, <4>3
    <3>7. QED
      BY <3>1, <3>5, <3>6 DEF RetainedInv, AcksAreReceived
  <2>3. QED
    BY <2>1, <2>2
<1>3. CASE AckStep
  <2>1. PICK s \in rx_ack : ProcessAck(s)
    BY <1>3 DEF AckStep
  <2>2. /\ last_issued' = last_issued /\ issued' = issued
        /\ srv_received' = srv_received /\ srv_pending' = srv_pending
        /\ rx_ack' \subseteq rx_ack /\ s \in srv_received
        /\ \A c \in chunks : c.seq # s => c \in chunks'
    BY <1>3, <2>1 DEF AckStep, ProcessAck, RetainedInv, AcksAreReceived
  <2>3. QED
    BY <2>2 DEF RetainedInv, Numbered, AcksAreReceived, Retained, NoWrap
<1>4. CASE ReceiveStep
  BY <1>4 DEF ReceiveStep, RetainedInv, Numbered, AcksAreReceived, Retained, NoWrap
<1>5. QED
  BY <1>1, <1>2, <1>3, <1>4, ChunkSteps

\* With reliable QoS no chunk leaves the storage before the server has it,
\* through any number of disconnections, resumes, resends and lost acks.
THEOREM ReliableRetains == Spec => []Retained
<1>1. Init => RetainedInv
  BY DEF Init, RetainedInv, Numbered, AcksAreReceived, Retained
<1>2. RetainedInv => Retained
  BY DEF RetainedInv
<1>3. QED
  BY <1>1, <1>2, TypeCorrect, RetainedStep, PTL DEF Spec

-----------------------------------------------------------------------------
(* Every data point that was accepted goes into exactly one chunk *)

\* take_chunk from any caller; the end of the task comes with the last one.
TakePoints == TakeChunk /\ UNCHANGED <<written, accepted>>

\* No data point moves, and the task does not reach its end.
KeepPoints ==
    /\ UNCHANGED <<written, accepted, buffer, issued>>
    /\ pc' = "done" => pc = "done"

\* As far as data points go, every step of the stream is one of these four.
LEMMA PointSteps ==
    ASSUME [Next]_vars
    PROVE  WritePush \/ WriteReturn \/ TakePoints \/ KeepPoints
<1> USE DEF appVars, innerVars, loopVars, histVars, KeepPoints
<1>1. CASE App
  BY <1>1 DEF App, FlushCall, FlushDropped, CloseCall, CloseCallTimeout
<1>2. CASE Loop
  <2>1. CASE ResumingFlush \/ SelectFlush \/ SelectCancelled \/ ProcessRemaining
    BY <2>1 DEF ResumingFlush, SelectFlush, SelectCancelled, ProcessRemaining, FlushTake,
                TakePoints
  <2>2. CASE ResumeDone
    BY <2>2 DEF ResumeDone, TakePoints
  <2>3. CASE SelectAck \/ LastAckReceive
    BY <2>3 DEF SelectAck, LastAckReceive
  <2>4. CASE ResumingReply \/ ResumeGaveUp \/ Resend \/ ResendDone
    BY <2>4 DEF ResumingReply, ResumeGaveUp, Exit, Resend, ResendDone
  <2>5. CASE ResendFailed \/ SelectAckClosed \/ FlushFailed
    BY <2>5 DEF ResendFailed, SelectAckClosed, FlushFailed, BackToResume, Exit
  <2>6. CASE Flushed \/ LastAckDone \/ SendCloseRequest \/ CloseAnswered \/ CloseFailed
    BY <2>6 DEF Flushed, LastAckDone, SendCloseRequest, CloseAnswered, CloseFailed, Exit
  <2>7. QED
    BY <1>2, <2>1, <2>2, <2>3, <2>4, <2>5, <2>6 DEF Loop
<1>3. CASE ResumeTask
  BY <1>3 DEF ResumeTask, ResumeTakeToken, ResumeOk, ResumeResponseLost, ResumeRetry,
              ResumeRefused, AddUpstream, GetUpdated, ResumeTimeout, ResumeCancelled
<1>4. CASE Environment
  BY <1>4 DEF Environment, ConnDown, Reconnect, ConnShutdown, ConnClose, ReadLoopRegister,
              NetDrop, ServerAck, ServerReceive
<1>5. CASE UNCHANGED vars
  BY <1>5 DEF vars
<1>6. QED
  BY <1>1, <1>2, <1>3, <1>4, <1>5 DEF Next, Finished

\* take_chunk empties the buffer into the chunks.
LEMMA TakenPoints ==
    ASSUME TypeOK, TakeChunk
    PROVE  /\ buffer' = {}
           /\ PointsOf(Len(issued))' = PointsOf(Len(issued)) \cup buffer
<1>1. CASE buffer = {}
  BY <1>1 DEF TakeChunk, AddChunk, PointsOf
<1>2. CASE buffer # {}
  <2>1. buffer' = {} /\ issued' = Append(issued, NewChunk) /\ NewChunk.data = buffer
    BY <1>2 DEF TakeChunk, AddChunk, NewChunk
  <2>2. issued \in Seq(Chunk) /\ NewChunk \in Chunk /\ buffer \subseteq Points
    BY NewChunkType, BufferFinite DEF TypeOK, HistTypes
  <2>3. /\ Len(issued) \in Nat /\ Len(issued') = Len(issued) + 1
        /\ \A i \in 1 .. Len(issued) : issued'[i] = issued[i]
        /\ issued'[Len(issued) + 1] = NewChunk
    BY <2>1, <2>2
  <2>4. \A p \in Points : (\E i \in 1 .. Len(issued') : p \in issued'[i].data)
                            <=> (\E i \in 1 .. Len(issued) : p \in issued[i].data) \/ p \in buffer
    BY <2>1, <2>3
  <2>5. QED
    BY <2>1, <2>2, <2>4 DEF PointsOf
<1>3. QED
  BY <1>1, <1>2

\* The task leaves upstream_loop with a cancelled token.
CancelledWhenEnded == pc \in {"remaining", "done"} => ct

\* The drop guard cancels the token on every way out, and nothing resets it.
LEMMA CancelledStep ==
    ASSUME TypeOK, CancelledWhenEnded, [Next]_vars
    PROVE  CancelledWhenEnded'
<1> USE DEF CancelledWhenEnded, innerVars, loopVars
<1>1. CASE App
  BY <1>1 DEF App, WritePush, WriteReturn, FlushCall, FlushDropped, CloseCall,
              CloseCallTimeout
<1>2. CASE Loop
  <2>1. CASE ResumingFlush \/ SelectFlush \/ SelectCancelled \/ ProcessRemaining
    BY <2>1 DEF ResumingFlush, SelectFlush, SelectCancelled, ProcessRemaining, FlushTake
  <2>2. CASE ResumeDone \/ SelectAck \/ LastAckReceive
    BY <2>2 DEF ResumeDone, SelectAck, LastAckReceive
  <2>3. CASE ResumingReply \/ ResumeGaveUp \/ Resend \/ ResendDone
    BY <2>3 DEF ResumingReply, ResumeGaveUp, Exit, Resend, ResendDone
  <2>4. CASE ResendFailed \/ SelectAckClosed \/ FlushFailed
    BY <2>4 DEF ResendFailed, SelectAckClosed, FlushFailed, BackToResume, Exit
  <2>5. CASE Flushed \/ LastAckDone \/ SendCloseRequest \/ CloseAnswered \/ CloseFailed
    BY <2>5 DEF Flushed, LastAckDone, SendCloseRequest, CloseAnswered, CloseFailed, Exit
  <2>6. QED
    BY <1>2, <2>1, <2>2, <2>3, <2>4, <2>5 DEF Loop
<1>3. CASE ResumeTask
  BY <1>3 DEF ResumeTask, ResumeTakeToken, ResumeOk, ResumeResponseLost, ResumeRetry,
              ResumeRefused, AddUpstream, GetUpdated, ResumeTimeout, ResumeCancelled
<1>4. CASE Environment
  BY <1>4 DEF Environment, ConnDown, Reconnect, ConnShutdown, ConnClose, ReadLoopRegister,
              NetDrop, ServerAck, ServerReceive
<1>5. CASE UNCHANGED vars
  BY <1>5 DEF vars
<1>6. QED
  BY <1>1, <1>2, <1>3, <1>4, <1>5 DEF Next, Finished

\* What write_data_points pushed stays in the buffer until it is in a chunk.
WrittenIsHeld == 1 .. written \subseteq buffer \cup PointsOf(Len(issued))

AcceptedInv == CancelledWhenEnded /\ WrittenIsHeld /\ AcceptedIsIssued

\* The fate of accepted data points is inductive: a write is accepted only while
\* the token is not cancelled, so before the final take_chunk.
LEMMA AcceptedStep == TypeOK /\ AcceptedInv /\ [Next]_vars => AcceptedInv'
<1> SUFFICES ASSUME TypeOK, AcceptedInv, [Next]_vars PROVE AcceptedInv'
  OBVIOUS
<1>1. CancelledWhenEnded'
  BY CancelledStep DEF AcceptedInv
<1>2. TypeOK'
  BY TypeStep
<1>3. accepted' \subseteq 1 .. written'
  BY <1>2 DEF TypeOK, AppTypes
<1>4. CASE WritePush
  <2>1. /\ written' = written + 1 /\ buffer' = buffer \cup {written + 1}
        /\ accepted' = accepted /\ issued' = issued /\ pc' = pc
    BY <1>4 DEF WritePush, loopVars, histVars
  <2>2. written \in Nat /\ accepted \subseteq 1 .. written
    BY DEF TypeOK, AppTypes
  <2>3. WrittenIsHeld'
    BY <2>1, <2>2 DEF AcceptedInv, WrittenIsHeld, PointsOf
  <2>4. pc = "done" => accepted \cap buffer' = {}
    BY <2>1, <2>2 DEF AcceptedInv, AcceptedIsIssued
  <2>5. QED
    BY <1>1, <1>3, <2>1, <2>3, <2>4 DEF AcceptedInv, AcceptedIsIssued, WrittenIsHeld
<1>5. CASE WriteReturn
  <2>1. /\ written' = written /\ buffer' = buffer /\ issued' = issued /\ pc' = pc
        /\ ct => accepted' = accepted
    BY <1>5 DEF WriteReturn, loopVars, histVars
  <2>2. QED
    BY <1>1, <1>3, <2>1 DEF AcceptedInv, AcceptedIsIssued, WrittenIsHeld, PointsOf,
                            CancelledWhenEnded
<1>6. CASE TakePoints
  BY <1>1, <1>3, <1>6, TakenPoints DEF TakePoints, AcceptedInv, AcceptedIsIssued, WrittenIsHeld
<1>7. CASE KeepPoints
  BY <1>1, <1>3, <1>7 DEF KeepPoints, AcceptedInv, AcceptedIsIssued, WrittenIsHeld, PointsOf
<1>8. QED
  BY <1>4, <1>5, <1>6, <1>7, PointSteps

\* A data point whose write returned Ok is in the buffer or in a chunk, and in a
\* chunk once the task has ended, wherever the close interleaves with the write.
THEOREM AcceptedNotLost == Spec => []AcceptedIsIssued
<1>1. Init => AcceptedInv
  BY DEF Init, AcceptedInv, CancelledWhenEnded, WrittenIsHeld, AcceptedIsIssued
<1>2. AcceptedInv => AcceptedIsIssued
  BY DEF AcceptedInv
<1>3. QED
  BY <1>1, <1>2, TypeCorrect, AcceptedStep, PTL DEF Spec

\* A chunk holds data points that were written, and shares none.
OnceInv ==
    /\ \A i \in 1 .. Len(issued) : issued[i].data \subseteq 1 .. written
    /\ IssuedOnce

\* Issuing once is inductive: take_chunk takes the whole buffer, which shares
\* nothing with the chunks, and a push adds a new data point.
LEMMA OnceStep == TypeOK /\ OnceInv /\ [Next]_vars => OnceInv'
<1> SUFFICES ASSUME TypeOK, OnceInv, [Next]_vars PROVE OnceInv'
  OBVIOUS
<1>1. issued \in Seq(Chunk) /\ Len(issued) \in Nat
  BY DEF TypeOK, HistTypes
<1>2. CASE WritePush
  <2>1. /\ written' = written + 1 /\ buffer' = buffer \cup {written + 1}
        /\ issued' = issued
    BY <1>2 DEF WritePush, histVars
  <2>2. written \in Nat
    BY DEF TypeOK, AppTypes
  <2>3. \A i \in 1 .. Len(issued) : issued[i].data \subseteq 1 .. written'
    BY <2>1, <2>2 DEF OnceInv
  <2>4. written + 1 \notin PointsOf(Len(issued))
    BY <2>2 DEF OnceInv, PointsOf
  <2>5. QED
    BY <2>1, <2>3, <2>4 DEF OnceInv, IssuedOnce, PointsOf
<1>3. CASE WriteReturn \/ KeepPoints
  BY <1>3 DEF WriteReturn, KeepPoints, histVars, OnceInv, IssuedOnce, PointsOf
<1>4. CASE TakePoints
  <2>1. CASE buffer = {}
    BY <1>4, <2>1 DEF TakePoints, TakeChunk, AddChunk, OnceInv, IssuedOnce, PointsOf
  <2>2. CASE buffer # {}
    <3>1. buffer' = {} /\ issued' = Append(issued, NewChunk) /\ written' = written
      BY <1>4, <2>2 DEF TakePoints, TakeChunk, AddChunk
    <3>2. /\ Len(issued') = Len(issued) + 1
          /\ \A i \in 1 .. Len(issued) : issued'[i] = issued[i]
          /\ issued'[Len(issued) + 1].data = buffer
      BY <1>1, <3>1, NewChunkType DEF NewChunk
    <3>3. buffer \subseteq 1 .. written /\ buffer \subseteq Points
      BY BufferFinite DEF TypeOK, InnerTypes
    <3>4. \A i \in 1 .. Len(issued) : issued[i].data \cap buffer = {}
      BY <3>3 DEF OnceInv, IssuedOnce, PointsOf
    <3>5. \A i \in 1 .. Len(issued') : issued'[i].data \subseteq 1 .. written
      <4> SUFFICES ASSUME NEW i \in 1 .. Len(issued')
                   PROVE  issued'[i].data \subseteq 1 .. written
        OBVIOUS
      <4>1. CASE i = Len(issued) + 1
        BY <3>2, <3>3, <4>1
      <4>2. CASE i # Len(issued) + 1
        BY <1>1, <3>2, <4>2 DEF OnceInv
      <4>3. QED
        BY <4>1, <4>2
    <3>6. \A i, j \in 1 .. Len(issued') : i # j => issued'[i].data \cap issued'[j].data = {}
      <4> SUFFICES ASSUME NEW i \in 1 .. Len(issued'), NEW j \in 1 .. Len(issued'), i # j
                   PROVE  issued'[i].data \cap issued'[j].data = {}
        OBVIOUS
      <4>1. CASE i # Len(issued) + 1 /\ j # Len(issued) + 1
        BY <1>1, <3>2, <4>1 DEF OnceInv, IssuedOnce
      <4>2. CASE i = Len(issued) + 1 \/ j = Len(issued) + 1
        BY <1>1, <3>2, <3>4, <4>2
      <4>3. QED
        BY <4>1, <4>2
    <3>7. QED
      BY <3>1, <3>5, <3>6 DEF OnceInv, IssuedOnce
  <2>3. QED
    BY <2>1, <2>2
<1>5. QED
  BY <1>2, <1>3, <1>4, PointSteps

\* No data point is in two chunks, or in a chunk and still in the buffer.
THEOREM ChunksShareNothing == Spec => []IssuedOnce
<1>1. Init => OnceInv
  BY DEF Init, OnceInv, IssuedOnce, PointsOf
<1>2. OnceInv => IssuedOnce
  BY DEF OnceInv
<1>3. QED
  BY <1>1, <1>2, TypeCorrect, OnceStep, PTL DEF Spec

-----------------------------------------------------------------------------
(* Nothing is sent before the stream is resumed *)

\* The token is in the shared cell or with the resume task, which keeps it until
\* the resume has succeeded.
TokenSomewhere == resume_token = 0 => local_token # 0 /\ need_resume

\* The loop works with a connection that the resume task delivered.
LoopHasConn ==
    /\ rpc = "some" => ~need_resume
    /\ pc \in {"after_resume", "select", "send"} => rpc = "some"

\* Unless a resume is due, the server knows the stream on the connection it uses.
ResumedOnConn == ~need_resume => srv_conn = wire_conn

\* Chunks are on the way only on the connection that the stream uses now.
NetIsCurrent ==
    /\ wire_conn <= epoch
    /\ net # <<>> => up /\ wire_conn = epoch /\ srv_conn = epoch

ResumeInv == /\ ResumeTokenPresented /\ TokenSomewhere /\ LoopHasConn /\ ResumedOnConn
             /\ NetIsCurrent

\* A group of steps that leave these variables alone keeps the resume invariant.
LEMMA ResumeUnchanged ==
    ASSUME ResumeInv, UNCHANGED <<resume_token, rpc, local_token, need_resume, wire_conn,
                                  epoch, srv_conn>>,
           pc' \in {"after_resume", "select", "send"} => rpc = "some",
           net' # <<>> => net # <<>> /\ up'
    PROVE  ResumeInv'
  BY DEF ResumeInv, ResumeTokenPresented, TokenSomewhere, LoopHasConn, ResumedOnConn, NetIsCurrent

\* A chunk is sent only on a connection on which the stream is resumed.
LEMMA SendResumed ==
    ASSUME ResumeInv, Connected, pc \in {"after_resume", "send"},
           UNCHANGED <<resume_token, rpc, local_token, need_resume, wire_conn, epoch, up,
                       srv_conn>>
    PROVE  ResumeInv'
  BY DEF ResumeInv, ResumeTokenPresented, TokenSomewhere, LoopHasConn, ResumedOnConn,
         NetIsCurrent, Connected

\* Back to the resume task: the token that the next one takes is in the cell.
LEMMA BackResumed ==
    ASSUME TypeOK, ResumeInv, pc \in {"after_resume", "select", "send"},
           BackToResume(TRUE) \/ BackToResume(FALSE),
           UNCHANGED <<resume_token, epoch, up, srv_conn, net>>
    PROVE  ResumeInv'
<1>1. rpc = "some" /\ ~need_resume /\ resume_token # 0
  BY DEF ResumeInv, LoopHasConn, TokenSomewhere
<1>2. CASE ExpiryZero \/ ct
  <2>1. pc' = "remaining" /\ UNCHANGED resumeVars
    BY <1>2 DEF BackToResume, Exit
  <2>2. QED
    BY <2>1, ResumeUnchanged DEF resumeVars, ResumeInv, NetIsCurrent
<1>3. CASE ~(ExpiryZero \/ ct)
  <2>1. pc' = "resuming" /\ rpc' = "top" /\ wire_conn' = wire_conn
    BY <1>3 DEF BackToResume
  <2>2. ~need_resume' => ~need_resume
    BY <1>1
  <2>3. QED
    BY <1>1, <2>1, <2>2 DEF ResumeInv, ResumeTokenPresented, TokenSomewhere, LoopHasConn,
       ResumedOnConn, NetIsCurrent
<1>4. QED
  BY <1>2, <1>3

\* The resume invariant is inductive.
LEMMA ResumeStep == TypeOK /\ ResumeInv /\ [Next]_vars => ResumeInv'
<1> SUFFICES ASSUME TypeOK, ResumeInv, [Next]_vars PROVE ResumeInv'
  OBVIOUS
<1> USE DEF innerVars, loopVars, resumeVars, connVars, srvVars
<1>0. net # <<>> => up
  BY DEF ResumeInv, NetIsCurrent
<1>1. CASE App
  <2>1. UNCHANGED <<resume_token, pc, resumeVars, connVars, srvVars>>
    BY <1>1 DEF App, WritePush, WriteReturn, FlushCall, FlushDropped, CloseCall,
                CloseCallTimeout
  <2>2. QED
    BY <1>0, <2>1, ResumeUnchanged DEF ResumeInv, LoopHasConn
<1>2. CASE Loop
  <2>1. CASE ResumingFlush \/ ResumingReply \/ ResumeGaveUp \/ ResumeDone
    <3>1. /\ UNCHANGED <<resume_token, resumeVars, epoch, up, net, srvVars>>
          /\ pc' \in {"after_resume", "select", "send"} => rpc = "some"
      BY <2>1 DEF ResumingFlush, ResumingReply, ResumeGaveUp, ResumeDone, Exit
    <3>2. QED
      BY <1>0, <3>1, ResumeUnchanged
  <2>2. CASE ResendDone \/ SelectFlush \/ SelectCancelled \/ SelectAck
    <3>1. /\ UNCHANGED <<resume_token, resumeVars, connVars, srvVars>>
          /\ pc \in {"after_resume", "select"}
      BY <2>2 DEF ResendDone, SelectFlush, SelectCancelled, SelectAck
    <3>2. QED
      BY <1>0, <3>1, ResumeUnchanged DEF ResumeInv, LoopHasConn
  <2>3. CASE Resend
    <3>1. /\ UNCHANGED <<resume_token, resumeVars, epoch, up, srvVars>> /\ pc = "after_resume"
          /\ Connected
      BY <2>3 DEF Resend, SendOk
    <3>2. QED
      BY <3>1, SendResumed
  <2>4. CASE Flushed
    <3>1. UNCHANGED <<resume_token, resumeVars, epoch, up, srvVars>> /\ pc = "send"
      BY <2>4 DEF Flushed
    <3>2. CASE net' = net
      BY <1>0, <3>1, <3>2, ResumeUnchanged DEF ResumeInv, LoopHasConn
    <3>3. CASE net' # net
      <4>1. Connected
        BY <2>4, <3>3 DEF Flushed, SendOk
      <4>2. QED
        BY <3>1, <4>1, SendResumed
    <3>4. QED
      BY <3>2, <3>3
  <2>5. CASE ResendFailed \/ SelectAckClosed \/ FlushFailed
    <3>1. /\ pc \in {"after_resume", "select", "send"}
          /\ BackToResume(TRUE) \/ BackToResume(FALSE)
          /\ UNCHANGED <<resume_token, epoch, up, srv_conn, net>>
      BY <2>5 DEF ResendFailed, SelectAckClosed, FlushFailed, SendErr
    <3>2. QED
      BY <3>1, BackResumed
  <2>6. CASE LastAckReceive \/ LastAckDone \/ SendCloseRequest \/ CloseAnswered \/ CloseFailed
              \/ ProcessRemaining
    <3>1. /\ UNCHANGED <<resume_token, resumeVars, epoch, up, net, srvVars>>
          /\ pc' \notin {"after_resume", "select", "send"}
      BY <2>6 DEF LastAckReceive, LastAckDone, SendCloseRequest, CloseAnswered, CloseFailed,
                  ProcessRemaining, Exit
    <3>2. QED
      BY <1>0, <3>1, ResumeUnchanged
  <2>7. QED
    BY <1>2, <2>1, <2>2, <2>3, <2>4, <2>5, <2>6 DEF Loop
<1>3. CASE ResumeTask
  <2> USE DEF ResumeInv, ResumeTokenPresented, TokenSomewhere, LoopHasConn, ResumedOnConn,
              NetIsCurrent, Resuming, Connected
  <2>0. pc' = pc /\ pc \in {"resuming", "resuming_reply"}
    BY <1>3 DEF ResumeTask, ResumeTakeToken, ResumeOk, ResumeResponseLost, ResumeRetry,
                ResumeRefused, AddUpstream, GetUpdated, ResumeTimeout, ResumeCancelled
  <2>1. CASE ResumeTakeToken
    BY <2>0, <2>1 DEF ResumeTakeToken
  <2>2. CASE ResumeOk
    <3>1. resume_token' # 0
      BY <2>2 DEF ResumeOk, ServerResume, TypeOK, ServerTypes
    <3>2. QED
      BY <2>0, <2>2, <3>1 DEF ResumeOk, ServerResume
  <2>3. CASE ResumeResponseLost
    BY <2>0, <2>3 DEF ResumeResponseLost, ServerResume
  <2>4. CASE ResumeRetry \/ ResumeRefused \/ ResumeTimeout \/ ResumeCancelled
    BY <2>0, <2>4 DEF ResumeRetry, ResumeRefused, ResumeTimeout, ResumeCancelled
  <2>5. CASE AddUpstream
    BY <2>0, <2>5 DEF AddUpstream
  <2>6. CASE GetUpdated
    BY <2>0, <2>6 DEF GetUpdated, TypeOK, ConnTypes
  <2>7. QED
    BY <1>3, <2>1, <2>2, <2>3, <2>4, <2>5, <2>6 DEF ResumeTask
<1>4. CASE Environment
  <2>1. CASE ConnDown \/ ConnShutdown \/ ConnClose \/ ReadLoopRegister \/ ServerAck
    <3>1. /\ UNCHANGED <<resume_token, pc, resumeVars, epoch, srv_conn>>
          /\ net' # <<>> => net # <<>> /\ up'
      BY <1>0, <2>1 DEF ConnDown, ConnShutdown, ConnClose, ReadLoopRegister, ServerAck
    <3>2. QED
      BY <3>1, ResumeUnchanged DEF ResumeInv, LoopHasConn
  <2>2. CASE Reconnect
    <3>1. net' = <<>>
      BY <1>0, <2>2 DEF Reconnect
    <3>2. epoch' = epoch + 1 /\ epoch \in Nat /\ wire_conn \in Nat
      BY <2>2 DEF Reconnect, TypeOK, ConnTypes, ResumeTypes
    <3>3. QED
      BY <2>2, <3>1, <3>2 DEF Reconnect, ResumeInv, ResumeTokenPresented, TokenSomewhere,
         LoopHasConn, ResumedOnConn, NetIsCurrent
  <2>3. CASE ServerReceive \/ NetDrop
    <3>1. /\ UNCHANGED <<resume_token, pc, resumeVars, epoch, up, srv_conn>>
          /\ net # <<>>
      BY <2>3 DEF ServerReceive, NetDrop
    <3>2. QED
      BY <1>0, <3>1, ResumeUnchanged DEF ResumeInv, LoopHasConn
  <2>4. QED
    BY <1>4, <2>1, <2>2, <2>3 DEF Environment
<1>5. CASE UNCHANGED vars
  BY <1>0, <1>5, ResumeUnchanged DEF vars, ResumeInv, LoopHasConn
<1>6. QED
  BY <1>1, <1>2, <1>3, <1>4, <1>5 DEF Next, Finished

\* A stream starts resumed, with its token in the cell.
LEMMA ResumeInit == Init => ResumeInv
  BY DEF Init, ResumeInv, ResumeTokenPresented, TokenSomewhere, LoopHasConn, ResumedOnConn,
         NetIsCurrent

\* After a break, however often the resume was retried and whichever answers were
\* lost, the stream is resumed with a token before anything is sent.
THEOREM ResumesFirst == Spec => []ResumedBeforeSending
<1>1. ResumeInv => ResumedBeforeSending
  BY DEF ResumeInv, NetIsCurrent, ResumedBeforeSending, SentWhereResumed
<1>2. QED
  BY <1>1, ResumeInit, TypeCorrect, ResumeStep, PTL DEF Spec

-----------------------------------------------------------------------------
(* The server receives a reliable stream in order *)

\* Chunk m has been received, or is among the first k chunks on the way.
OnTheWay(m, k) == m \in srv_received \/ \E j \in 1 .. k : net[j].seq = m

\* A chunk under an issued number, and under the alias the server knows.
Proper(c) == c.seq \in 1 .. Len(issued) /\ c.alias = 1

ProperChunks ==
    /\ srv_alias = 1 /\ stream_id_alias = 1
    /\ \A c \in chunks \cup resend \cup sending : Proper(c)
    /\ \A i \in 1 .. Len(net) : Proper(net[i])

\* What is received is a prefix of what was issued.
ReceivedPrefix == \E r \in 0 .. Len(issued) : srv_received = 1 .. r

\* No chunk overtakes one before it that the server has not got.
NetGapless ==
    \A i \in 1 .. Len(net) : \A m \in 1 .. net[i].seq - 1 : OnTheWay(m, i - 1)

\* While the connection lasts, what the loop has not yet sent on it is what it
\* is about to send.
LoopComplete ==
    Connected => \A m \in 1 .. Len(issued) :
        /\ pc = "select" => OnTheWay(m, Len(net))
        /\ pc = "after_resume" => OnTheWay(m, Len(net)) \/ \E c \in resend : c.seq = m
        /\ pc = "send" => OnTheWay(m, Len(net)) \/ \E c \in sending : c.seq = m

\* The chunk of a flush in progress is the last one issued.
SendingIsLast == pc = "send" => \A c \in sending : c.seq = Len(issued)

OrderInv ==
    NoWrap => /\ ProperChunks /\ ReceivedPrefix /\ NetGapless /\ LoopComplete
              /\ SendingIsLast

\* Steps that issue, send and receive nothing keep the order, when the loop goes
\* on as it was or leaves the states in which it sends.
LEMMA OrderUnchanged ==
    ASSUME OrderInv,
           UNCHANGED <<issued, net, srv_received, srv_alias, stream_id_alias>>,
           chunks' \subseteq chunks, resend' \subseteq resend, sending' \subseteq sending,
           \/ UNCHANGED <<pc, resend, sending>> /\ (Connected' => Connected)
           \/ pc' \notin {"after_resume", "select", "send"}
    PROVE  OrderInv'
<1> SUFFICES ASSUME NoWrap'
             PROVE  /\ ProperChunks' /\ ReceivedPrefix' /\ NetGapless' /\ LoopComplete'
                    /\ SendingIsLast'
  BY DEF OrderInv
<1>1. ProperChunks /\ ReceivedPrefix /\ NetGapless /\ LoopComplete /\ SendingIsLast
  BY DEF OrderInv, NoWrap
<1>2. ProperChunks' /\ ReceivedPrefix'
  BY <1>1 DEF ProperChunks, Proper, ReceivedPrefix
<1>3. NetGapless'
  BY <1>1 DEF NetGapless, OnTheWay
<1>4. LoopComplete' /\ SendingIsLast'
  BY <1>1 DEF LoopComplete, SendingIsLast, OnTheWay
<1>5. QED
  BY <1>2, <1>3, <1>4

\* take_chunk issues the next number under the alias the server knows, and what
\* it issues while the loop works with a connection is what it sends next.
LEMMA OrderTake ==
    ASSUME TypeOK, RetainedInv, OrderInv, TakeChunk,
           UNCHANGED <<net, srv_received, srv_alias, stream_id_alias, resend>>,
           \/ pc' \notin {"after_resume", "select", "send"} /\ sending' = sending
           \/ /\ pc = "select" /\ pc' = "send" /\ (Connected' => Connected)
              /\ sending' = IF buffer = {} THEN {} ELSE {NewChunk}
    PROVE  OrderInv'
<1> SUFFICES ASSUME NoWrap'
             PROVE  /\ ProperChunks' /\ ReceivedPrefix' /\ NetGapless' /\ LoopComplete'
                    /\ SendingIsLast'
  BY DEF OrderInv
<1>1. issued \in Seq(Chunk) /\ Len(issued) \in Nat /\ NewChunk \in Chunk
  BY NewChunkType DEF TypeOK, HistTypes
<1>2. CASE buffer = {}
  <2>1. UNCHANGED <<issued, chunks>> /\ NoWrap
    BY <1>2 DEF TakeChunk, NoWrap
  <2>2. ProperChunks /\ ReceivedPrefix /\ NetGapless /\ LoopComplete /\ SendingIsLast
    BY <2>1 DEF OrderInv
  <2>3. ProperChunks' /\ ReceivedPrefix'
    BY <1>2, <2>1, <2>2 DEF ProperChunks, Proper, ReceivedPrefix
  <2>4. NetGapless'
    BY <2>2 DEF NetGapless, OnTheWay
  <2>5. LoopComplete' /\ SendingIsLast'
    BY <1>2, <2>1, <2>2 DEF LoopComplete, SendingIsLast, OnTheWay
  <2>6. QED
    BY <2>3, <2>4, <2>5
<1>3. CASE buffer # {}
  <2>1. /\ issued' = Append(issued, NewChunk) /\ Len(issued') = Len(issued) + 1
        /\ chunks' \subseteq chunks \cup {NewChunk}
    BY <1>1, <1>3 DEF TakeChunk, AddChunk
  <2>2. NoWrap /\ NewChunk.seq = Len(issued) + 1
    BY <1>1, <2>1, ConstantsAssumption DEF NoWrap, RetainedInv, Numbered, NewChunk, NextSeq
  <2>3. ProperChunks /\ ReceivedPrefix /\ NetGapless /\ LoopComplete /\ SendingIsLast
    BY <2>2 DEF OrderInv
  <2>4. NewChunk.alias = 1 /\ 1 .. Len(issued) \subseteq 1 .. Len(issued')
    BY <1>1, <2>1, <2>3 DEF NewChunk, ProperChunks
  <2>5. ProperChunks'
    BY <1>1, <1>3, <2>1, <2>2, <2>3, <2>4 DEF ProperChunks, Proper
  <2>6. ReceivedPrefix'
    BY <1>1, <2>1, <2>3 DEF ReceivedPrefix
  <2>7. NetGapless'
    BY <2>3 DEF NetGapless, OnTheWay
  <2>8. LoopComplete'
    <3> SUFFICES ASSUME pc' = "send", Connected', NEW m \in 1 .. Len(issued')
                 PROVE  OnTheWay(m, Len(net))' \/ \E c \in sending' : c.seq = m
      BY DEF LoopComplete
    <3>1. CASE m = Len(issued) + 1
      BY <1>3, <2>2, <3>1
    <3>2. CASE m # Len(issued) + 1
      <4>1. m \in 1 .. Len(issued)
        BY <1>1, <2>1, <3>2
      <4>2. OnTheWay(m, Len(net))
        BY <2>3, <4>1 DEF LoopComplete
      <4>3. QED
        BY <4>2 DEF OnTheWay
    <3>3. QED
      BY <3>1, <3>2
  <2>9. SendingIsLast'
    BY <1>3, <2>1, <2>2 DEF SendingIsLast
  <2>10. QED
    BY <2>5, <2>6, <2>7, <2>8, <2>9
<1>4. QED
  BY <1>2, <1>3

\* A chunk may be sent when all chunks before it are received or on the way.
LEMMA OrderSend ==
    ASSUME TypeOK, OrderInv, NoWrap, NEW c \in Chunk, net' = Append(net, c), Proper(c),
           \A m \in 1 .. c.seq - 1 : OnTheWay(m, Len(net)),
           UNCHANGED <<issued, srv_received, srv_alias, stream_id_alias, chunks>>,
           resend' \subseteq resend, sending' \subseteq sending
    PROVE  /\ ProperChunks' /\ ReceivedPrefix' /\ NetGapless'
           /\ OnTheWay(c.seq, Len(net))'
           /\ \A m \in 1 .. Len(issued) : OnTheWay(m, Len(net)) => OnTheWay(m, Len(net))'
<1>1. ProperChunks /\ ReceivedPrefix /\ NetGapless
  BY DEF OrderInv
<1>2. /\ Len(net) \in Nat /\ Len(net') = Len(net) + 1
      /\ \A i \in 1 .. Len(net) : net'[i] = net[i]
      /\ net'[Len(net) + 1] = c
  BY DEF TypeOK, ConnTypes
<1>3. \A i \in 1 .. Len(net') : i \in 1 .. Len(net) \/ i = Len(net) + 1
  BY <1>2
<1>4. ProperChunks' /\ ReceivedPrefix'
  BY <1>1, <1>2, <1>3 DEF ProperChunks, Proper, ReceivedPrefix
<1>5. NetGapless'
  <2> SUFFICES ASSUME NEW i \in 1 .. Len(net'), NEW m \in 1 .. net'[i].seq - 1
               PROVE  OnTheWay(m, i - 1)'
    BY DEF NetGapless
  <2>1. OnTheWay(m, i - 1)
    <3>1. CASE i \in 1 .. Len(net)
      BY <1>1, <1>2, <3>1 DEF NetGapless
    <3>2. CASE i = Len(net) + 1
      <4>1. i - 1 = Len(net) /\ net'[i] = c
        BY <1>2, <3>2
      <4>2. QED
        BY <4>1
    <3>3. QED
      BY <1>3, <3>1, <3>2
  <2>2. \A j \in 1 .. i - 1 : j \in 1 .. Len(net) /\ net'[j] = net[j]
    BY <1>2, <1>3
  <2>3. QED
    BY <2>1, <2>2 DEF OnTheWay
<1>6. OnTheWay(c.seq, Len(net))'
  BY <1>2 DEF OnTheWay
<1>7. \A m \in 1 .. Len(issued) : OnTheWay(m, Len(net)) => OnTheWay(m, Len(net))'
  BY <1>2 DEF OnTheWay
<1>8. QED
  BY <1>4, <1>5, <1>6, <1>7

\* after_resume sends the stored chunks in their order.
LEMMA OrderResend ==
    ASSUME TypeOK, OrderInv, Resend
    PROVE  OrderInv'
<1> SUFFICES ASSUME NoWrap
             PROVE  /\ ProperChunks' /\ ReceivedPrefix' /\ NetGapless' /\ LoopComplete'
                    /\ SendingIsLast'
  BY DEF OrderInv, NoWrap, Resend, histVars
<1> USE DEF innerVars, resumeVars, srvVars, histVars
<1>1. PICK c \in resend : /\ \A d \in resend : c.seq <= d.seq
                          /\ SendOk(c) /\ resend' = resend \ {c}
  BY DEF Resend
<1>2. /\ pc = "after_resume" /\ pc' = pc /\ Connected
      /\ UNCHANGED <<issued, srv_received, srv_alias, stream_id_alias, chunks, sending>>
      /\ net' = Append(net, c)
  BY <1>1 DEF Resend, SendOk
<1>3. c \in Chunk /\ resend \subseteq Chunk
  BY DEF TypeOK, LoopTypes
<1>4. Proper(c) /\ LoopComplete
  BY DEF OrderInv, ProperChunks
<1>5. \A m \in 1 .. c.seq - 1 : OnTheWay(m, Len(net))
  <2> SUFFICES ASSUME NEW m \in 1 .. c.seq - 1 PROVE OnTheWay(m, Len(net))
    OBVIOUS
  <2>1. c.seq \in Nat /\ Len(issued) \in Nat
    BY <1>3 DEF Chunk, TypeOK, HistTypes
  <2>2. m \in 1 .. Len(issued)
    BY <1>4, <2>1 DEF Proper
  <2>3. ~\E d \in resend : d.seq = m
    BY <1>1, <1>3, <2>1
  <2>4. QED
    BY <1>2, <1>4, <2>2, <2>3 DEF LoopComplete
<1>6. /\ ProperChunks' /\ ReceivedPrefix' /\ NetGapless'
      /\ OnTheWay(c.seq, Len(net))'
      /\ \A m \in 1 .. Len(issued) : OnTheWay(m, Len(net)) => OnTheWay(m, Len(net))'
  BY <1>1, <1>2, <1>3, <1>4, <1>5, OrderSend
<1>7. LoopComplete'
  <2> SUFFICES ASSUME NEW m \in 1 .. Len(issued)
               PROVE  OnTheWay(m, Len(net))' \/ \E d \in resend' : d.seq = m
    BY <1>2 DEF LoopComplete
  <2>1. OnTheWay(m, Len(net)) \/ \E d \in resend : d.seq = m
    BY <1>2, <1>4 DEF LoopComplete
  <2>2. CASE OnTheWay(m, Len(net))
    BY <1>6, <2>2
  <2>3. CASE \E d \in resend : d.seq = m
    BY <1>1, <1>6, <2>3
  <2>4. QED
    BY <2>1, <2>2, <2>3
<1>8. SendingIsLast'
  BY <1>2 DEF SendingIsLast
<1>9. QED
  BY <1>6, <1>7, <1>8

\* The flush loop sends the chunk it issued last, after all the others.
LEMMA OrderFlushed ==
    ASSUME TypeOK, OrderInv, Flushed
    PROVE  OrderInv'
<1> SUFFICES ASSUME NoWrap
             PROVE  /\ ProperChunks' /\ ReceivedPrefix' /\ NetGapless' /\ LoopComplete'
                    /\ SendingIsLast'
  BY DEF OrderInv, NoWrap, Flushed, histVars
<1> USE DEF resumeVars, srvVars, histVars
<1>1. /\ pc = "send" /\ sending' = {} /\ pc' \in {"select", "last_ack"}
      /\ UNCHANGED <<issued, srv_received, srv_alias, stream_id_alias, chunks, resend,
                     wire_conn, epoch, up>>
  BY DEF Flushed
<1>2. ProperChunks /\ ReceivedPrefix /\ NetGapless /\ LoopComplete /\ SendingIsLast
  BY DEF OrderInv
<1>3. CASE sending = {}
  <2>1. net' = net
    BY <1>3 DEF Flushed
  <2>2. ProperChunks' /\ ReceivedPrefix'
    BY <1>1, <1>2, <2>1 DEF ProperChunks, Proper, ReceivedPrefix
  <2>3. NetGapless'
    BY <1>1, <1>2, <2>1 DEF NetGapless, OnTheWay
  <2>4. LoopComplete' /\ SendingIsLast'
    BY <1>1, <1>2, <1>3, <2>1 DEF LoopComplete, SendingIsLast, OnTheWay, Connected
  <2>5. QED
    BY <2>2, <2>3, <2>4
<1>4. CASE sending # {}
  <2>1. PICK c \in sending : SendOk(c)
    BY <1>4 DEF Flushed
  <2>2. Connected /\ net' = Append(net, c) /\ c \in Chunk /\ c.seq = Len(issued) /\ Proper(c)
    BY <1>1, <1>2, <2>1 DEF SendOk, TypeOK, LoopTypes, SendingIsLast, ProperChunks
  <2>3. \A m \in 1 .. Len(issued) : OnTheWay(m, Len(net)) \/ m = c.seq
    BY <1>1, <1>2, <2>2 DEF LoopComplete, SendingIsLast
  <2>4. \A m \in 1 .. c.seq - 1 : OnTheWay(m, Len(net))
    <3>1. Len(issued) \in Nat
      BY DEF TypeOK, HistTypes
    <3>2. \A m \in 1 .. c.seq - 1 : m \in 1 .. Len(issued) /\ m # c.seq
      BY <2>2, <3>1
    <3>3. QED
      BY <2>3, <3>2
  <2>5. /\ ProperChunks' /\ ReceivedPrefix' /\ NetGapless'
        /\ OnTheWay(c.seq, Len(net))'
        /\ \A m \in 1 .. Len(issued) : OnTheWay(m, Len(net)) => OnTheWay(m, Len(net))'
    BY <1>1, <2>2, <2>4, OrderSend
  <2>6. LoopComplete' /\ SendingIsLast'
    BY <1>1, <2>3, <2>5 DEF LoopComplete, SendingIsLast
  <2>7. QED
    BY <2>5, <2>6
<1>5. QED
  BY <1>3, <1>4

\* On a reliable lane the first chunk leaves, and the others move up.
LEMMA FirstLeaves ==
    ASSUME TypeOK, QoS = "Reliable", NEW i \in 1 .. Len(net), Leaves(i)
    PROVE  /\ i = 1
           /\ Len(net) \in Nat /\ Len(net') = Len(net) - 1
           /\ \A j \in 1 .. Len(net') : j + 1 \in 1 .. Len(net) /\ net'[j] = net[j + 1]
<1>1. i = 1 /\ net \in Seq(Chunk) /\ Len(net) \in Nat
  BY DEF Leaves, TypeOK, ConnTypes
<1>2. net' = SubSeq(net, 1, 0) \o SubSeq(net, 2, Len(net))
  BY <1>1 DEF Leaves
<1>3. /\ SubSeq(net, 1, 0) \in Seq(Chunk) /\ Len(SubSeq(net, 1, 0)) = 0
      /\ SubSeq(net, 2, Len(net)) \in Seq(Chunk) /\ Len(SubSeq(net, 2, Len(net))) = Len(net) - 1
      /\ \A j \in 1 .. Len(net) - 1 : SubSeq(net, 2, Len(net))[j] = net[j + 1]
  <2>1. SubSeq(net, 1, 0) \in Seq(Chunk) /\ Len(SubSeq(net, 1, 0)) = 0
    BY <1>1
  <2>2. Len(net) >= 1
    BY <1>1
  <2>3. \A j \in 2 .. Len(net) : net[j] \in Chunk
    BY <1>1
  <2>4. /\ SubSeq(net, 2, Len(net)) \in Seq(Chunk)
        /\ 2 <= Len(net) => Len(SubSeq(net, 2, Len(net))) = Len(net) - 2 + 1
        /\ ~(2 <= Len(net)) => Len(SubSeq(net, 2, Len(net))) = 0
        /\ \A j \in 1 .. Len(net) - 2 + 1 : SubSeq(net, 2, Len(net))[j] = net[2 + j - 1]
    BY <1>1, <2>3, SubSeqProperties
  <2>5. Len(SubSeq(net, 2, Len(net))) = Len(net) - 1
    <3>1. CASE 2 <= Len(net)
      <4>1. Len(net) - 2 + 1 = Len(net) - 1
        BY <1>1
      <4>2. QED
        BY <2>4, <3>1, <4>1
    <3>2. CASE Len(net) = 1
      BY <2>4, <3>2
    <3>3. \A n \in Nat : n >= 1 => n = 1 \/ 2 <= n
      OBVIOUS
    <3>4. QED
      BY <1>1, <2>2, <3>1, <3>2, <3>3
  <2>6. \A j \in 1 .. Len(net) - 1 : j \in 1 .. Len(net) - 2 + 1 /\ 2 + j - 1 = j + 1
    BY <1>1
  <2>7. \A j \in 1 .. Len(net) - 1 : SubSeq(net, 2, Len(net))[j] = net[j + 1]
    BY <2>4, <2>6
  <2>8. QED
    BY <2>1, <2>4, <2>5, <2>7
<1>4. Len(net') = Len(net) - 1 /\ \A j \in 1 .. Len(net') : net'[j] = net[j + 1]
  BY <1>1, <1>2, <1>3, ConcatProperties
<1>5. QED
  BY <1>1, <1>4

\* The server takes the first chunk on the way: it is the next one, or one that
\* it has already.
LEMMA OrderReceive ==
    ASSUME TypeOK, QoS = "Reliable", ResumeInv, OrderInv, ServerReceive
    PROVE  /\ OrderInv'
           /\ NoWrap => \E n \in 1 .. Len(issued) :
                            /\ srv_received' = srv_received \cup {n}
                            /\ 1 .. n - 1 \subseteq srv_received
<1> SUFFICES ASSUME NoWrap
             PROVE  /\ ProperChunks' /\ ReceivedPrefix' /\ NetGapless' /\ LoopComplete'
                    /\ SendingIsLast'
                    /\ \E n \in 1 .. Len(issued) : /\ srv_received' = srv_received \cup {n}
                                                   /\ 1 .. n - 1 \subseteq srv_received
  BY DEF OrderInv, NoWrap, ServerReceive, histVars
<1> USE DEF innerVars, loopVars, resumeVars, histVars
<1>1. UNCHANGED <<issued, srv_alias, stream_id_alias, chunks, resend, sending, pc,
                  wire_conn, epoch, up>>
  BY DEF ServerReceive
<1>2. ProperChunks /\ ReceivedPrefix /\ NetGapless /\ LoopComplete /\ SendingIsLast
  BY DEF OrderInv
<1>3. PICK i \in 1 .. Len(net) :
        /\ Leaves(i)
        /\ IF srv_conn = epoch /\ net[i].alias = srv_alias
           THEN /\ srv_received' = srv_received \cup {net[i].seq}
                /\ srv_pending' = srv_pending \cup {net[i].seq}
           ELSE UNCHANGED <<srv_received, srv_pending>>
  BY DEF ServerReceive
<1>4. /\ i = 1
      /\ Len(net) \in Nat /\ Len(net') = Len(net) - 1
      /\ \A j \in 1 .. Len(net') : j + 1 \in 1 .. Len(net) /\ net'[j] = net[j + 1]
  BY <1>3, FirstLeaves
<1>5. srv_conn = epoch /\ Proper(net[1]) /\ srv_alias = 1
  BY <1>2, <1>3, <1>4 DEF ResumeInv, NetIsCurrent, ProperChunks
<1>6. srv_received' = srv_received \cup {net[1].seq}
  BY <1>3, <1>4, <1>5 DEF Proper
<1>7. net[1].seq \in 1 .. Len(issued) /\ 1 .. net[1].seq - 1 \subseteq srv_received
  <2>1. \A m \in 1 .. net[1].seq - 1 : OnTheWay(m, 0)
    BY <1>2, <1>3, <1>4 DEF NetGapless
  <2>2. QED
    BY <1>5, <2>1 DEF OnTheWay, Proper
<1>8. ReceivedPrefix'
  <2>1. PICK r \in 0 .. Len(issued) : srv_received = 1 .. r
    BY <1>2 DEF ReceivedPrefix
  <2>2. net[1].seq <= r + 1
    <3> SUFFICES ASSUME r + 1 < net[1].seq PROVE FALSE
      BY <1>7, <2>1
    <3>1. r + 1 \in 1 .. net[1].seq - 1 /\ r + 1 \notin 1 .. r
      BY <1>7, <2>1
    <3>2. QED
      BY <1>7, <2>1, <3>1
  <2>3. CASE net[1].seq <= r
    BY <1>1, <1>6, <1>7, <2>1, <2>3 DEF ReceivedPrefix
  <2>4. CASE net[1].seq = r + 1
    <3>1. srv_received' = 1 .. r + 1
      BY <1>6, <2>1, <2>4
    <3>2. r + 1 \in 0 .. Len(issued')
      BY <1>1, <1>7, <2>1, <2>4
    <3>3. QED
      BY <3>1, <3>2 DEF ReceivedPrefix
  <2>5. QED
    BY <1>7, <2>1, <2>2, <2>3, <2>4
<1>9. ASSUME NEW m, NEW k \in 0 .. Len(net'), OnTheWay(m, k + 1) PROVE OnTheWay(m, k)'
  <2>1. CASE m \in srv_received
    BY <1>6, <2>1 DEF OnTheWay
  <2>2. CASE \E j \in 1 .. k + 1 : net[j].seq = m
    <3>1. PICK j \in 1 .. k + 1 : net[j].seq = m
      BY <2>2
    <3>2. CASE j = 1
      BY <1>6, <3>1, <3>2 DEF OnTheWay
    <3>3. CASE j # 1
      <4>1. j - 1 \in 1 .. k /\ j - 1 \in 1 .. Len(net')
        BY <1>4, <3>1, <3>3
      <4>2. net'[j - 1] = net[(j - 1) + 1] /\ (j - 1) + 1 = j
        BY <1>4, <3>1, <4>1
      <4>3. net'[j - 1].seq = m
        BY <3>1, <4>2
      <4>4. QED
        BY <4>1, <4>3 DEF OnTheWay
    <3>4. QED
      BY <3>2, <3>3
  <2>3. QED
    BY <1>9, <2>1, <2>2 DEF OnTheWay
<1>10. NetGapless'
  <2> SUFFICES ASSUME NEW j \in 1 .. Len(net'), NEW m \in 1 .. net'[j].seq - 1
               PROVE  OnTheWay(m, j - 1)'
    BY DEF NetGapless
  <2>1. net'[j] = net[j + 1] /\ j + 1 \in 1 .. Len(net) /\ (j + 1) - 1 = (j - 1) + 1
    BY <1>4
  <2>2. OnTheWay(m, (j + 1) - 1)
    BY <1>2, <2>1 DEF NetGapless
  <2>3. j - 1 \in 0 .. Len(net')
    BY <1>4
  <2>4. QED
    BY <1>9, <2>1, <2>2, <2>3
<1>11. ProperChunks'
  BY <1>1, <1>2, <1>4 DEF ProperChunks, Proper
<1>12. LoopComplete' /\ SendingIsLast'
  <2>1. Len(net') \in 0 .. Len(net') /\ Len(net') + 1 = Len(net)
    BY <1>3, <1>4
  <2>2. \A m \in 1 .. Len(issued) : OnTheWay(m, Len(net)) => OnTheWay(m, Len(net))'
    BY <1>9, <2>1
  <2>3. Connected' => Connected
    BY <1>1 DEF Connected
  <2>4. QED
    BY <1>1, <1>2, <2>2, <2>3 DEF LoopComplete, SendingIsLast
<1>13. QED
  BY <1>6, <1>7, <1>8, <1>10, <1>11, <1>12

\* after_resume starts with everything the server has not got.
LEMMA OrderResumeDone ==
    ASSUME TypeOK, QoS = "Reliable", RetainedInv, OrderInv, ResumeDone
    PROVE  OrderInv'
<1> SUFFICES ASSUME NoWrap
             PROVE  /\ ProperChunks' /\ ReceivedPrefix' /\ NetGapless' /\ LoopComplete'
                    /\ SendingIsLast'
  BY DEF OrderInv, NoWrap, ResumeDone
<1>1. /\ resend' = chunks /\ pc' = "after_resume"
      /\ UNCHANGED <<issued, net, srv_received, srv_alias, stream_id_alias, chunks, sending>>
  BY DEF ResumeDone, connVars, srvVars
<1>2. ProperChunks /\ ReceivedPrefix /\ NetGapless
  BY DEF OrderInv
<1>3. ProperChunks' /\ ReceivedPrefix'
  BY <1>1, <1>2 DEF ProperChunks, Proper, ReceivedPrefix
<1>4. NetGapless'
  BY <1>1, <1>2 DEF NetGapless, OnTheWay
<1>5. \A m \in 1 .. Len(issued) : m \in srv_received \/ \E c \in chunks : c.seq = m
  BY DEF RetainedInv, Retained, Numbered
<1>6. LoopComplete' /\ SendingIsLast'
  BY <1>1, <1>5 DEF LoopComplete, SendingIsLast, OnTheWay
<1>7. QED
  BY <1>3, <1>4, <1>6

\* The order in which the server receives is inductive.
LEMMA OrderStep ==
    ASSUME QoS = "Reliable", ~AliasPerResume, TypeOK, ResumeInv, RetainedInv, OrderInv,
           [Next]_vars
    PROVE  OrderInv'
<1> USE DEF innerVars, loopVars, resumeVars, connVars, srvVars, histVars
<1>1. CASE App
  <2>1. UNCHANGED <<issued, net, srv_received, srv_alias, stream_id_alias, chunks, resend,
                    sending, pc, wire_conn, epoch, up>>
    BY <1>1 DEF App, WritePush, WriteReturn, FlushCall, FlushDropped, CloseCall,
                CloseCallTimeout
  <2>2. QED
    BY <2>1, OrderUnchanged DEF Connected
<1>2. CASE Loop
  <2>1. CASE ResumingFlush \/ ProcessRemaining
    BY <2>1, OrderTake DEF ResumingFlush, ProcessRemaining
  <2>2. CASE SelectFlush \/ SelectCancelled
    <3>1. /\ TakeChunk /\ pc = "select" /\ pc' = "send"
          /\ sending' = IF buffer = {} THEN {} ELSE {NewChunk}
          /\ UNCHANGED <<net, srv_received, srv_alias, stream_id_alias, resend, wire_conn,
                         epoch, up>>
      BY <2>2 DEF SelectFlush, SelectCancelled, FlushTake
    <3>2. Connected' => Connected
      BY <3>1 DEF Connected
    <3>3. QED
      BY <3>1, <3>2, OrderTake
  <2>3. CASE ResumingReply \/ ResumeGaveUp
    BY <2>3, OrderUnchanged DEF ResumingReply, ResumeGaveUp, Exit
  <2>4. CASE ResendFailed \/ SelectAckClosed \/ FlushFailed
    <3>1. /\ pc' \in {"resuming", "remaining"}
          /\ UNCHANGED <<issued, net, srv_received, srv_alias, stream_id_alias, chunks>>
          /\ resend' \subseteq resend /\ sending' \subseteq sending
      BY <2>4 DEF ResendFailed, SelectAckClosed, FlushFailed, BackToResume, Exit, SendErr
    <3>2. QED
      BY <3>1, OrderUnchanged
  <2>5. CASE ResendDone
    <3>1. /\ pc = "after_resume" /\ resend = {} /\ pc' = "select"
          /\ UNCHANGED <<issued, net, srv_received, srv_alias, stream_id_alias, chunks, resend,
                         sending, wire_conn, epoch, up>>
      BY <2>5 DEF ResendDone
    <3>2. QED
      BY <3>1 DEF OrderInv, NoWrap, ProperChunks, Proper, ReceivedPrefix, NetGapless,
                  LoopComplete, SendingIsLast, OnTheWay, Connected
  <2>6. CASE SelectAck \/ LastAckReceive
    <3>1. /\ UNCHANGED <<issued, net, srv_received, srv_alias, stream_id_alias, resend,
                         sending, pc, wire_conn, epoch, up>>
          /\ chunks' \subseteq chunks
      BY <2>6 DEF SelectAck, LastAckReceive, ProcessAck
    <3>2. QED
      BY <3>1, OrderUnchanged DEF Connected
  <2>7. CASE LastAckDone \/ SendCloseRequest \/ CloseAnswered \/ CloseFailed
    BY <2>7, OrderUnchanged DEF LastAckDone, SendCloseRequest, CloseAnswered, CloseFailed, Exit
  <2>8. QED
    BY <1>2, <2>1, <2>2, <2>3, <2>4, <2>5, <2>6, <2>7, OrderResumeDone, OrderResend,
       OrderFlushed DEF Loop
<1>3. CASE ResumeTask
  <2>1. /\ UNCHANGED <<issued, net, srv_received, chunks, resend, sending, pc>>
        /\ pc \in {"resuming", "resuming_reply"}
    BY <1>3 DEF ResumeTask, ResumeTakeToken, ResumeOk, ResumeResponseLost, ResumeRetry,
                ResumeRefused, AddUpstream, GetUpdated, ResumeTimeout, ResumeCancelled,
                ServerResume, Resuming
  <2>2. \/ UNCHANGED <<srv_alias, stream_id_alias>>
        \/ srv_alias' = 1 /\ stream_id_alias' \in {1, stream_id_alias}
    BY <1>3 DEF ResumeTask, ResumeTakeToken, ResumeOk, ResumeResponseLost, ResumeRetry,
                ResumeRefused, AddUpstream, GetUpdated, ResumeTimeout, ResumeCancelled,
                ServerResume
  <2>3. NoWrap => UNCHANGED <<srv_alias, stream_id_alias>>
    BY <2>2 DEF OrderInv, ProperChunks
  <2>4. CASE NoWrap
    BY <2>1, <2>3, <2>4, OrderUnchanged
  <2>5. CASE ~NoWrap
    BY <2>1, <2>5 DEF OrderInv, NoWrap
  <2>6. QED
    BY <2>4, <2>5
<1>4. CASE Environment
  <2>1. CASE ConnDown
    <3>1. /\ UNCHANGED <<issued, srv_received, srv_alias, stream_id_alias, chunks, resend,
                         sending, pc>>
          /\ net' = <<>> /\ ~up'
      BY <2>1 DEF ConnDown
    <3>2. QED
      BY <3>1 DEF OrderInv, NoWrap, ProperChunks, Proper, ReceivedPrefix, NetGapless,
                  LoopComplete, SendingIsLast, Connected
  <2>2. CASE Reconnect
    <3>1. /\ UNCHANGED <<issued, net, srv_received, srv_alias, stream_id_alias, chunks, resend,
                         sending, pc, wire_conn>>
          /\ epoch' = epoch + 1
      BY <2>2 DEF Reconnect
    <3>2. ~Connected'
      BY <3>1 DEF ResumeInv, NetIsCurrent, TypeOK, ConnTypes, ResumeTypes, Connected
    <3>3. QED
      BY <3>1, <3>2, OrderUnchanged
  <2>3. CASE ConnShutdown \/ ConnClose \/ ReadLoopRegister \/ ServerAck
    <3>1. UNCHANGED <<issued, net, srv_received, srv_alias, stream_id_alias, chunks, resend,
                      sending, pc, wire_conn, epoch, up>>
      BY <2>3 DEF ConnShutdown, ConnClose, ReadLoopRegister, ServerAck
    <3>2. QED
      BY <3>1, OrderUnchanged DEF Connected
  <2>4. CASE NetDrop
    BY <2>4 DEF NetDrop
  <2>5. QED
    BY <1>4, <2>1, <2>2, <2>3, <2>4, OrderReceive DEF Environment
<1>5. CASE UNCHANGED vars
  <2>1. UNCHANGED <<issued, net, srv_received, srv_alias, stream_id_alias, chunks, resend,
                    sending, pc, wire_conn, epoch, up>>
    BY <1>5 DEF vars
  <2>2. QED
    BY <2>1, OrderUnchanged DEF Connected
<1>6. QED
  BY <1>1, <1>2, <1>3, <1>4, <1>5 DEF Next, Finished

\* The order holds of a stream that has sent nothing.
LEMMA OrderInit == Init => OrderInv
  BY DEF Init, OrderInv, ProperChunks, ReceivedPrefix, NetGapless, LoopComplete, SendingIsLast

-----------------------------------------------------------------------------
(* The close request *)

\* What a step can do to the close request and to what it tells.
LEMMA CloseSteps ==
    ASSUME TypeOK, [Next]_vars
    PROVE  /\ close_request' = close_request \/ SendCloseRequest \/ CloseAnswered
           /\ last_received' = last_received \/ last_received' \in rx_ack
           /\ UNCHANGED <<last_issued, issued, total>> \/ TakeChunk
<1> USE DEF innerVars, loopVars, histVars
<1>1. CASE App
  BY <1>1 DEF App, WritePush, WriteReturn, FlushCall, FlushDropped, CloseCall,
              CloseCallTimeout
<1>2. CASE Loop
  <2>1. CASE ResumingFlush \/ SelectFlush \/ SelectCancelled \/ ProcessRemaining
    BY <2>1 DEF ResumingFlush, SelectFlush, SelectCancelled, ProcessRemaining, FlushTake
  <2>2. CASE ResumeDone
    BY <2>2 DEF ResumeDone
  <2>3. CASE SelectAck \/ LastAckReceive
    BY <2>3 DEF SelectAck, LastAckReceive, ProcessAck
  <2>4. CASE ResumingReply \/ ResumeGaveUp \/ Resend \/ ResendDone
    BY <2>4 DEF ResumingReply, ResumeGaveUp, Exit, Resend, ResendDone
  <2>5. CASE ResendFailed \/ SelectAckClosed \/ FlushFailed
    BY <2>5 DEF ResendFailed, SelectAckClosed, FlushFailed, BackToResume, Exit
  <2>6. CASE Flushed \/ LastAckDone \/ SendCloseRequest \/ CloseAnswered \/ CloseFailed
    BY <2>6 DEF Flushed, LastAckDone, SendCloseRequest, CloseAnswered, CloseFailed, Exit
  <2>7. QED
    BY <1>2, <2>1, <2>2, <2>3, <2>4, <2>5, <2>6 DEF Loop
<1>3. CASE ResumeTask
  BY <1>3 DEF ResumeTask, ResumeTakeToken, ResumeOk, ResumeResponseLost, ResumeRetry,
              ResumeRefused, AddUpstream, GetUpdated, ResumeTimeout, ResumeCancelled
<1>4. CASE Environment
  BY <1>4 DEF Environment, ConnDown, Reconnect, ConnShutdown, ConnClose, ReadLoopRegister,
              NetDrop, ServerAck, ServerReceive
<1>5. CASE UNCHANGED vars
  BY <1>5 DEF vars
<1>6. QED
  BY <1>1, <1>2, <1>3, <1>4, <1>5 DEF Next, Finished

\* The answer to the close request changes nothing of what it told.
LEMMA AnsweredRequest ==
    ASSUME TypeOK, CloseAnswered, NEW r \in close_request'
    PROVE  \E q \in close_request : r.final = q.final /\ r.total = q.total /\ r.acked = q.acked
<1>1. PICK q \in close_request : r = [q EXCEPT !.answered = TRUE]
  BY DEF CloseAnswered
<1>2. q \in [final: 0 .. MaxSeq, total: Nat, answered: BOOLEAN, acked: BOOLEAN]
  BY DEF TypeOK, HistTypes
<1>3. QED
  BY <1>1, <1>2

\* The last ack is of a chunk that the server has.
LastReceived == last_received # 0 => last_received \in srv_received

CloseInv == LastReceived /\ AckedCloseIsComplete

\* Whatever is acknowledged last comes with all that was issued before it.
LEMMA CloseStep ==
    ASSUME ~AliasPerResume, TypeOK, RetainedInv, QoS = "Reliable" => OrderInv, CloseInv,
           [Next]_vars
    PROVE  CloseInv'
<1>1. srv_received \subseteq srv_received'
  BY ChunkSteps DEF NoChunkStep, TakeStep, AckStep, ReceiveStep, chunkVars
<1>2. rx_ack \subseteq srv_received
  BY DEF RetainedInv, AcksAreReceived
<1>3. LastReceived'
  BY <1>1, <1>2, CloseSteps DEF CloseInv, LastReceived
<1>4. NoWrap' => NoWrap
  <2>1. CASE issued' = issued
    BY <2>1 DEF NoWrap
  <2>2. CASE issued' = Append(issued, NewChunk)
    BY <2>2, NewChunkType, ConstantsAssumption DEF NoWrap, TypeOK, HistTypes
  <2>3. QED
    BY <2>1, <2>2, CloseSteps DEF TakeChunk
<1>5. AckedCloseIsComplete'
  <2> SUFFICES ASSUME QoS = "Reliable", NoWrap', NEW r \in close_request', r.acked
               PROVE  1 .. r.final \subseteq srv_received'
    BY DEF AckedCloseIsComplete
  <2>1. NoWrap
    BY <1>4
  <2>2. CASE close_request' = close_request
    BY <1>1, <2>1, <2>2 DEF CloseInv, AckedCloseIsComplete
  <2>3. CASE CloseAnswered
    BY <1>1, <2>1, <2>3, AnsweredRequest DEF CloseInv, AckedCloseIsComplete
  <2>4. CASE SendCloseRequest
    <3>1. r = CloseRequest /\ srv_received' = srv_received
      BY <2>4 DEF SendCloseRequest, srvVars
    <3>2. r.final = last_issued /\ last_received = last_issued
      BY <3>1 DEF CloseRequest
    <3>3. last_issued \in Nat
      BY ConstantsAssumption DEF TypeOK, InnerTypes
    <3>4. PICK k \in 0 .. Len(issued) : srv_received = 1 .. k
      BY <2>1 DEF OrderInv, ReceivedPrefix
    <3>5. k \in Int
      BY <3>4 DEF TypeOK, HistTypes
    <3>6. CASE last_issued = 0
      BY <3>2, <3>6
    <3>7. CASE last_issued # 0
      <4>1. last_issued \in 1 .. k
        BY <3>2, <3>4, <3>7 DEF CloseInv, LastReceived
      <4>2. QED
        BY <3>1, <3>2, <3>3, <3>4, <3>5, <4>1
    <3>8. QED
      BY <3>6, <3>7
  <2>5. QED
    BY <2>2, <2>3, <2>4, CloseSteps
<1>6. QED
  BY <1>3, <1>5 DEF CloseInv

\* The invariants that the retention of chunks needs hold in every behaviour.
LEMMA AlwaysRetained == Spec => []RetainedInv
<1>1. Init => RetainedInv
  BY DEF Init, RetainedInv, Numbered, AcksAreReceived, Retained
<1>2. QED
  BY <1>1, TypeCorrect, RetainedStep, PTL DEF Spec

\* The invariants that resuming needs hold in every behaviour.
LEMMA AlwaysResumed == Spec => []ResumeInv
  BY ResumeInit, TypeCorrect, ResumeStep, PTL DEF Spec

\* The order of a reliable stream holds in every behaviour.
LEMMA AlwaysInOrder ==
    ASSUME QoS = "Reliable", ~AliasPerResume
    PROVE  Spec => []OrderInv
<1>1. TypeOK /\ ResumeInv /\ RetainedInv /\ OrderInv /\ [Next]_vars => OrderInv'
  BY OrderStep
<1>2. QED
  BY <1>1, OrderInit, TypeCorrect, AlwaysRetained, AlwaysResumed, PTL DEF Spec

\* When the ack of the last chunk has arrived before the close request, the
\* server has every chunk: the close path need not wait for the other acks.  It
\* is assumed that the server keeps the alias of a stream that it resumes.
THEOREM AckedCloseComplete ==
    ASSUME ~AliasPerResume
    PROVE  Spec => []AckedCloseIsComplete
<1>1. CASE QoS = "Reliable"
  <2>1. Init => CloseInv
    BY DEF Init, CloseInv, LastReceived, AckedCloseIsComplete
  <2>2. TypeOK /\ RetainedInv /\ OrderInv /\ CloseInv /\ [Next]_vars => CloseInv'
    BY CloseStep
  <2>3. CloseInv => AckedCloseIsComplete
    BY DEF CloseInv
  <2>4. Spec => []OrderInv
    BY <1>1, AlwaysInOrder
  <2>5. QED
    BY <2>1, <2>2, <2>3, <2>4, TypeCorrect, AlwaysRetained, PTL DEF Spec
<1>2. CASE QoS # "Reliable"
  <2>1. AckedCloseIsComplete
    BY <1>2 DEF AckedCloseIsComplete
  <2>2. QED
    BY <2>1, PTL
<1>3. QED
  BY <1>1, <1>2

\* total_data_points counts the data points of the chunks.
TotalCounts == total = Cardinality(PointsOf(Len(issued)))

TotalsInv == TotalCounts /\ CloseRequestTotals

\* The total goes with the last sequence number: take_chunk advances both.
LEMMA TotalsStep ==
    ASSUME TypeOK, RetainedInv, OnceInv, TotalsInv, [Next]_vars
    PROVE  TotalsInv'
<1> USE DEF TypeOK, HistTypes
<1>1. IsFiniteSet(Points) /\ \A n : IsFiniteSet(PointsOf(n))
  <2>1. IsFiniteSet(Points)
    BY FS_Interval, ConstantsAssumption DEF Points
  <2>2. \A n : PointsOf(n) \subseteq Points
    BY DEF PointsOf
  <2>3. QED
    BY <2>1, <2>2, FS_Subset
<1>2. TotalCounts'
  <2>1. CASE UNCHANGED <<issued, total>>
    BY <2>1 DEF TotalsInv, TotalCounts, PointsOf
  <2>2. CASE TakeChunk /\ buffer # {}
    <3>1. PointsOf(Len(issued))' = PointsOf(Len(issued)) \cup buffer
      BY <2>2, TakenPoints
    <3>2. PointsOf(Len(issued)) \cap buffer = {}
      BY DEF OnceInv, IssuedOnce
    <3>3. Cardinality(PointsOf(Len(issued)) \cup buffer)
            = Cardinality(PointsOf(Len(issued))) + Cardinality(buffer)
                - Cardinality(PointsOf(Len(issued)) \cap buffer)
      BY <1>1, BufferFinite, FS_Union
    <3>4. Cardinality(PointsOf(Len(issued)) \cap buffer) = 0
      BY <3>2, FS_EmptySet
    <3>5. Cardinality(PointsOf(Len(issued))) \in Nat /\ Cardinality(buffer) \in Nat
      BY <1>1, BufferFinite, FS_CardinalityType
    <3>6. total' = total + Cardinality(buffer)
      BY <2>2 DEF TakeChunk
    <3>7. QED
      BY <3>1, <3>3, <3>4, <3>5, <3>6 DEF TotalsInv, TotalCounts
  <2>3. QED
    BY <2>1, <2>2, CloseSteps DEF TakeChunk
<1>3. CloseRequestTotals'
  <2> SUFFICES ASSUME NoWrap', NEW r \in close_request'
               PROVE  /\ r.final <= Len(issued')
                      /\ r.total = Cardinality(PointsOf(r.final)')
    BY DEF CloseRequestTotals
  <2>1. \/ issued' = issued
        \/ issued' = Append(issued, NewChunk) /\ NewChunk \in Chunk
    BY CloseSteps, NewChunkType DEF TakeChunk
  <2>2. /\ Len(issued) \in Nat /\ Len(issued) <= Len(issued') /\ Len(issued') \in Nat
        /\ \A i \in 1 .. Len(issued) : issued'[i] = issued[i]
    BY <2>1
  <2>3. NoWrap
    BY <2>2, ConstantsAssumption DEF NoWrap
  <2>4. \A n \in Nat : n <= Len(issued) => PointsOf(n)' = PointsOf(n)
    BY <2>2 DEF PointsOf
  <2>5. CASE close_request' = close_request \/ CloseAnswered
    <3>1. PICK q \in close_request : r.final = q.final /\ r.total = q.total
      BY <2>5, AnsweredRequest
    <3>2. q.final \in Nat /\ q.final <= Len(issued) /\ q.total = Cardinality(PointsOf(q.final))
      BY <2>3, ConstantsAssumption DEF TotalsInv, CloseRequestTotals
    <3>3. PointsOf(q.final)' = PointsOf(q.final)
      BY <2>4, <3>2
    <3>4. QED
      BY <2>2, <3>1, <3>2, <3>3
  <2>6. CASE SendCloseRequest
    <3>1. r = CloseRequest /\ issued' = issued
      BY <2>6 DEF SendCloseRequest
    <3>2. r.final = Len(issued) /\ r.total = total
      BY <2>3, <3>1 DEF CloseRequest, RetainedInv, Numbered
    <3>3. PointsOf(r.final)' = PointsOf(Len(issued))
      BY <2>2, <2>4, <3>2
    <3>4. QED
      BY <2>2, <3>1, <3>2, <3>3 DEF TotalsInv, TotalCounts
  <2>7. QED
    BY <2>5, <2>6, CloseSteps
<1>4. QED
  BY <1>2, <1>3 DEF TotalsInv

\* The close request tells the number of data points in the chunks up to the
\* final sequence number it tells, for every QoS and whoever issued them.
THEOREM CloseTotals == Spec => []CloseRequestTotals
<1>1. Init => TotalsInv /\ OnceInv
  BY FS_EmptySet DEF Init, TotalsInv, TotalCounts, CloseRequestTotals, OnceInv, IssuedOnce, PointsOf
<1>2. TypeOK /\ RetainedInv /\ OnceInv /\ TotalsInv /\ [Next]_vars => TotalsInv'
  BY TotalsStep
<1>3. TotalsInv => CloseRequestTotals
  BY DEF TotalsInv
<1>4. QED
  BY <1>1, <1>2, <1>3, TypeCorrect, AlwaysRetained, OnceStep, PTL DEF Spec

-----------------------------------------------------------------------------
(* A reliable stream implements InOrderLog *)

\* The chunks count what was written: none is empty.
IssuedBound == Len(issued) + Cardinality(buffer) <= written

\* Every chunk takes a data point out of the buffer.
LEMMA BoundStep == TypeOK /\ IssuedBound /\ [Next]_vars => IssuedBound'
<1> SUFFICES ASSUME TypeOK, IssuedBound, [Next]_vars PROVE IssuedBound'
  OBVIOUS
<1>1. /\ issued \in Seq(Chunk) /\ Len(issued) \in Nat /\ written \in Nat
      /\ IsFiniteSet(buffer) /\ Cardinality(buffer) \in Nat
  BY BufferFinite DEF TypeOK, HistTypes, AppTypes
<1>2. CASE WritePush
  <2>1. written' = written + 1 /\ buffer' = buffer \cup {written + 1} /\ issued' = issued
    BY <1>2 DEF WritePush, histVars
  <2>2. \/ Cardinality(buffer') = Cardinality(buffer)
        \/ Cardinality(buffer') = Cardinality(buffer) + 1
    BY <1>1, <2>1, FS_AddElement, Zenon
  <2>3. Cardinality(buffer') \in Nat
    BY <1>1, <2>1, FS_AddElement, FS_CardinalityType
  <2>4. QED
    BY <1>1, <2>1, <2>2, <2>3 DEF IssuedBound
<1>3. CASE TakePoints /\ buffer # {}
  <2>1. written' = written /\ buffer' = {} /\ issued' = Append(issued, NewChunk)
    BY <1>3 DEF TakePoints, TakeChunk
  <2>2. Cardinality(buffer) # 0 /\ Cardinality(buffer') = 0
    BY <1>1, <1>3, <2>1, FS_EmptySet
  <2>3. Len(issued') = Len(issued) + 1
    BY <1>1, <2>1, NewChunkType
  <2>4. QED
    BY <1>1, <2>1, <2>2, <2>3 DEF IssuedBound
<1>4. CASE UNCHANGED <<written, buffer, issued>>
  BY <1>4 DEF IssuedBound
<1>5. QED
  BY <1>2, <1>3, <1>4, PointSteps DEF TakePoints, TakeChunk, KeepPoints, WriteReturn, histVars

\* As far as the log goes, a step writes, cuts, delivers or stutters.
LEMMA LogSteps ==
    ASSUME TypeOK, [Next]_vars
    PROVE  \/ WritePush
           \/ TakeChunk /\ UNCHANGED <<written, srv_received>>
           \/ ServerReceive
           \/ UNCHANGED <<written, buffer, issued, srv_received>>
<1> USE DEF appVars, innerVars, loopVars, srvVars, histVars
<1>1. CASE App
  BY <1>1 DEF App, WriteReturn, FlushCall, FlushDropped, CloseCall, CloseCallTimeout
<1>2. CASE Loop
  <2>1. CASE ResumingFlush \/ SelectFlush \/ SelectCancelled \/ ProcessRemaining
    BY <2>1 DEF ResumingFlush, SelectFlush, SelectCancelled, ProcessRemaining, FlushTake
  <2>2. CASE ResumeDone
    BY <2>2 DEF ResumeDone
  <2>3. CASE SelectAck \/ LastAckReceive
    BY <2>3 DEF SelectAck, LastAckReceive
  <2>4. CASE ResumingReply \/ ResumeGaveUp \/ Resend \/ ResendDone
    BY <2>4 DEF ResumingReply, ResumeGaveUp, Resend, ResendDone
  <2>5. CASE ResendFailed \/ SelectAckClosed \/ FlushFailed
    BY <2>5 DEF ResendFailed, SelectAckClosed, FlushFailed
  <2>6. CASE Flushed \/ LastAckDone \/ SendCloseRequest \/ CloseAnswered \/ CloseFailed
    BY <2>6 DEF Flushed, LastAckDone, SendCloseRequest, CloseAnswered, CloseFailed
  <2>7. QED
    BY <1>2, <2>1, <2>2, <2>3, <2>4, <2>5, <2>6 DEF Loop
<1>3. CASE ResumeTask
  BY <1>3 DEF ResumeTask, ResumeTakeToken, ResumeOk, ResumeResponseLost, ResumeRetry,
              ResumeRefused, AddUpstream, GetUpdated, ResumeTimeout, ResumeCancelled,
              ServerResume
<1>4. CASE Environment
  BY <1>4 DEF Environment, ConnDown, Reconnect, ConnShutdown, ConnClose, ReadLoopRegister,
              NetDrop, ServerAck
<1>5. CASE UNCHANGED vars
  BY <1>5 DEF vars
<1>6. QED
  BY <1>1, <1>2, <1>3, <1>4, <1>5 DEF Next, Finished

\* The log that the stream implements: what its chunks hold.
LogOf(q) == [i \in 1 .. Len(q) |-> q[i].data]

\* A chunk that is issued is an entry appended to the log.
LEMMA LogAppend ==
    ASSUME NEW q \in Seq(Chunk), NEW c \in Chunk
    PROVE  LogOf(Append(q, c)) = Append(LogOf(q), c.data)
<1>1. /\ Len(Append(q, c)) = Len(q) + 1 /\ Len(q) \in Nat
      /\ \A i \in 1 .. Len(q) : Append(q, c)[i] = q[i]
      /\ Append(q, c)[Len(q) + 1] = c
  OBVIOUS
<1>2. LogOf(q) \in Seq(SUBSET Points) /\ Len(LogOf(q)) = Len(q)
  <2>1. \A i \in 1 .. Len(q) : q[i] \in Chunk
    OBVIOUS
  <2>2. \A i \in 1 .. Len(q) : q[i].data \in SUBSET Points
    BY <2>1 DEF Chunk
  <2>3. QED
    BY <1>1, <2>2 DEF LogOf
<1>3. c.data \in SUBSET Points
  BY DEF Chunk
<1>4. /\ Append(LogOf(q), c.data) \in Seq(SUBSET Points)
      /\ Len(Append(LogOf(q), c.data)) = Len(q) + 1
      /\ \A i \in 1 .. Len(q) : Append(LogOf(q), c.data)[i] = LogOf(q)[i]
      /\ Append(LogOf(q), c.data)[Len(q) + 1] = c.data
  BY <1>1, <1>2, <1>3
<1>5. /\ LogOf(Append(q, c)) \in Seq(SUBSET Points)
      /\ Len(LogOf(Append(q, c))) = Len(q) + 1
  <2>1. \A i \in 1 .. Len(q) + 1 : Append(q, c)[i] \in Chunk
    OBVIOUS
  <2>2. \A i \in 1 .. Len(q) + 1 : Append(q, c)[i].data \in SUBSET Points
    BY <2>1 DEF Chunk
  <2>3. QED
    BY <1>1, <2>2 DEF LogOf
<1>6. \A i \in 1 .. Len(q) + 1 : LogOf(Append(q, c))[i] = Append(LogOf(q), c.data)[i]
  <2> SUFFICES ASSUME NEW i \in 1 .. Len(q) + 1
               PROVE  LogOf(Append(q, c))[i] = Append(LogOf(q), c.data)[i]
    OBVIOUS
  <2>1. LogOf(Append(q, c))[i] = Append(q, c)[i].data
    BY <1>1 DEF LogOf
  <2>2. CASE i \in 1 .. Len(q)
    <3>1. LogOf(q)[i] = q[i].data
      BY <2>2 DEF LogOf
    <3>2. QED
      BY <1>1, <1>4, <2>1, <2>2, <3>1
  <2>3. CASE i = Len(q) + 1
    BY <1>1, <1>4, <2>1, <2>3
  <2>4. i \in 1 .. Len(q) \/ i = Len(q) + 1
    BY <1>1
  <2>5. QED
    BY <2>2, <2>3, <2>4
<1>7. QED
  BY <1>4, <1>5, <1>6, SeqEqual

\* Every step of a reliable stream is a step of the log, or leaves it alone.
LEMMA LogStep ==
    ASSUME QoS = "Reliable", ~AliasPerResume, TypeOK, NoWrap, ResumeInv, OrderInv,
           [Next]_vars
    PROVE  [Log!Next]_Log!vars
<1> USE DEF Log!Next, Log!vars
<1>1. issued \in Seq(Chunk) /\ Len(issued) \in Nat
  BY DEF TypeOK, HistTypes
<1>2. CASE WritePush
  BY <1>2 DEF WritePush, histVars, srvVars, Log!Write
<1>3. CASE TakeChunk /\ UNCHANGED <<written, srv_received>>
  <2>1. CASE buffer = {}
    BY <1>3, <2>1 DEF TakeChunk
  <2>2. CASE buffer # {}
    <3>1. issued' = Append(issued, NewChunk) /\ buffer' = {} /\ NewChunk.data = buffer
      BY <1>3, <2>2 DEF TakeChunk, NewChunk
    <3>2. LogOf(issued') = Append(LogOf(issued), buffer)
      BY <1>1, <3>1, NewChunkType, LogAppend
    <3>3. Log!Cut
      BY <1>3, <2>2, <3>1, <3>2 DEF Log!Cut, LogOf
    <3>4. QED
      BY <3>3
  <2>3. QED
    BY <2>1, <2>2
<1>4. CASE ServerReceive
  <2>1. PICK n \in 1 .. Len(issued) : /\ srv_received' = srv_received \cup {n}
                                      /\ 1 .. n - 1 \subseteq srv_received
    BY <1>4, OrderReceive
  <2>2. PICK k \in 0 .. Len(issued) : srv_received = 1 .. k
    BY DEF OrderInv, ReceivedPrefix
  <2>3. UNCHANGED <<written, buffer, issued>>
    BY <1>4 DEF ServerReceive, appVars, innerVars, histVars
  <2>4. CASE n <= k
    <3>1. srv_received' = srv_received
      BY <2>1, <2>2, <2>4
    <3>2. QED
      BY <2>3, <3>1
  <2>5. CASE n = k + 1
    <3>1. srv_received = 1 .. n - 1 /\ srv_received' = 1 .. n
      BY <2>1, <2>2, <2>5
    <3>2. Len(LogOf(issued)) = Len(issued)
      BY <1>1 DEF LogOf
    <3>3. Log!Deliver
      BY <2>1, <2>3, <3>1, <3>2 DEF Log!Deliver, LogOf
    <3>4. QED
      BY <3>3
  <2>6. CASE k + 1 < n
    <3>1. k + 1 \in 1 .. n - 1 /\ k + 1 \notin 1 .. k
      BY <1>1, <2>2, <2>6
    <3>2. QED
      BY <2>1, <2>2, <3>1
  <2>7. QED
    BY <1>1, <2>1, <2>2, <2>4, <2>5, <2>6
<1>5. CASE UNCHANGED <<written, buffer, issued, srv_received>>
  BY <1>5
<1>6. QED
  BY <1>2, <1>3, <1>4, <1>5, LogSteps

\* A reliable stream delivers its data points as a log, in order and without a
\* gap, through any number of breaks and resumes.  It is assumed that the
\* sequence numbers suffice and that the server keeps the alias of the stream.
THEOREM RefinesInOrderLog ==
    ASSUME QoS = "Reliable", ~AliasPerResume, MaxWrites <= MaxSeq
    PROVE  Spec => ImplementsInOrderLog
<1>1. Init => Log!Init
  BY DEF Init, Log!Init
<1>2. TypeOK /\ IssuedBound => NoWrap
  <2> SUFFICES ASSUME TypeOK, IssuedBound PROVE NoWrap
    OBVIOUS
  <2>1. /\ Len(issued) \in Nat /\ Cardinality(buffer) \in Nat
        /\ written \in Nat /\ written <= MaxWrites
    BY BufferFinite, ConstantsAssumption DEF TypeOK, HistTypes, AppTypes
  <2>2. QED
    BY <2>1, ConstantsAssumption DEF IssuedBound, NoWrap
<1>3. TypeOK /\ NoWrap /\ ResumeInv /\ OrderInv /\ [Next]_vars => [Log!Next]_Log!vars
  BY LogStep
<1>4. Init => IssuedBound
  BY FS_EmptySet DEF Init, IssuedBound
<1>5. Spec => []OrderInv
  BY AlwaysInOrder
<1>6. QED
  BY <1>1, <1>2, <1>3, <1>4, <1>5, TypeCorrect, AlwaysResumed, BoundStep, PTL
     DEF Spec, ImplementsInOrderLog, Log!Spec
=============================================================================
