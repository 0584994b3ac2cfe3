-------------------------- MODULE DownstreamProofs --------------------------
(***************************************************************************)
(* What a downstream guarantees for every limit, capacity, number of        *)
(* chunks, connections and resumes: a resume carries a token, an ack tells  *)
(* the server nothing false, the application gets what the reorderer        *)
(* yields, none skipped, unless the try_send of the last loop fails, and a  *)
(* chunk that was acknowledged and not delivered has one of few reasons.    *)
(* What the reorderer does is proved in DownReordererProofs.                *)
(***************************************************************************)
EXTENDS Downstream, Functions, FiniteSetTheorems, TLAPS

\* The theorems about the reorderer, of this stream's reorderer.
RP == INSTANCE DownReordererProofs WITH Streams <- {u}

-----------------------------------------------------------------------------
(* Types *)

RTypes == R!TypeOK

AppTypes ==
    /\ app \in {"idle", "close", "dropped"} /\ app_chan \in Seq(Chunks)
    /\ read_result \in {"none", "cause", "closed"} /\ close_result \in {"none", "ok", "err"}
    /\ meta_chan \in 0 .. ChannelSize /\ meta_open \in BOOLEAN /\ Len(app_chan) <= ChannelSize

AckTypes ==
    /\ results \subseteq Chunks /\ last_ack \in Nat \cup {-1}
    /\ info_known \in BOOLEAN /\ info_for_ack \in BOOLEAN

LoopTypes ==
    /\ pc \in {"top", "request", "read", "deliver", "sending", "meta", "drain",
               "drain_deliver", "ack_complete", "close_request", "failed", "done"}
    /\ flight \subseteq Chunks /\ ack_id_complete \in Nat

\* One chunk waits for room, and only where the loop waits for it.
FlightIsOne == IF pc = "sending" THEN \E n \in Chunks : flight = {n} ELSE flight = {}

ResTypes ==
    /\ resume_token \in 0 .. MaxResumes + 1 /\ local_token \in 0 .. MaxResumes + 1
    /\ need_resume \in BOOLEAN

ConnTypes ==
    /\ epoch \in 1 .. MaxConns /\ wire_conn \in 1 .. epoch /\ srv_conn \in 1 .. epoch
    /\ up \in BOOLEAN /\ shutdown \in BOOLEAN /\ registered \in BOOLEAN

FlagTypes == ct \in BOOLEAN /\ close_cause \in BOOLEAN /\ tx_result \in BOOLEAN

\* The messages of the server: a chunk is one of its chunks.
ServerMessages == {m \in Messages : m.type = "chunk" => m.n \in Chunks}

QueueTypes ==
    /\ rx_msg \in Seq(ServerMessages) /\ inbound \in Seq(ServerMessages)
    /\ outbound \in Seq(Acks)
    /\ Len(rx_msg) <= ChannelSize /\ Len(inbound) <= ChannelSize /\ Len(outbound) <= ChannelSize

SrvTypes ==
    /\ srv_resumes \in 0 .. MaxResumes /\ srv_meta \in 0 .. MaxMeta /\ srv_alias \in BOOLEAN
    /\ srv_sent \subseteq Chunks /\ srv_unacked \subseteq Chunks /\ srv_resend \subseteq Chunks
    /\ srv_acked \subseteq Chunks

HistTypes ==
    /\ delivered \subseteq Chunks /\ discarded \subseteq Chunks /\ completed \subseteq Nat
    /\ close_wait \in {"none", "complete", "channel", "timeout"} /\ close_answered \in BOOLEAN

TypeInv == /\ RTypes /\ AppTypes /\ AckTypes /\ LoopTypes /\ FlightIsOne
           /\ ResTypes /\ ConnTypes /\ FlagTypes /\ QueueTypes /\ SrvTypes /\ HistTypes

-----------------------------------------------------------------------------
(* The inductive invariants *)

\* Outside the resume loop, and until a resume begins, the shared token is there;
\* in a resume, it or the local one.
TokenKept ==
    /\ ~need_resume => resume_token # 0
    /\ resume_token # 0 \/ local_token # 0
    /\ pc = "request" => local_token # 0
    /\ pc \notin {"top", "request", "failed", "done"} => ~need_resume

\* What is recorded for the next ack was taken in, as long as the stream lives,
\* and so was what is on its way to the server.
RecordedWasTaken ==
    /\ pc \notin {"failed", "done"} => results \subseteq arrived[u]
    /\ \A a \in Range(outbound) : a.results \subseteq arrived[u]
    /\ srv_acked \subseteq arrived[u]

\* An alias is known here before the server is told of it, and the server uses it
\* after that.
AliasKnownFirst ==
    /\ info_for_ack \/ srv_alias => info_known
    /\ \A a \in Range(outbound) : a.alias => info_known
    /\ \A m \in Range(inbound) \cup Range(rx_msg) : m.alias => info_known

\* What was yielded got into the application's channel, waits for room in it, or
\* found none.
YieldedIsThere ==
    app # "dropped" =>
        \A i \in 1 .. Len(output[u]) : output[u][i] \in delivered \cup flight \cup discarded

\* A strict reorderer has yielded every number from the first one to the one
\* before next: the chunks of the server stay below u32::MAX.
YieldedRun ==
    R!Strict /\ Len(output[u]) > 0 =>
        /\ \A i \in 1 .. Len(output[u]) : output[u][i] < next[u]
        /\ \A n \in Chunks : output[u][1] <= n /\ n < next[u] =>
               \E i \in 1 .. Len(output[u]) : output[u][i] = n

\* Its first chunk stays in the store until it is yielded.
FirstIsKept ==
    R!Strict => /\ store[u] # {} \/ output[u] # <<>> => u \in known
                /\ u \in known /\ output[u] = <<>> => next[u] \in store[u]

\* An iterator is left early only for an application that has left.
StoppedForNobody == stopped => app = "dropped"

\* The application has got everything that was yielded, except the chunk that
\* waits for room; one that has left got the beginning of it.
Yielded(k) ==
    /\ delivered = {output[u][i] : i \in 1 .. k}
    /\ app # "dropped" => IF pc = "sending"
                          THEN k + 1 = Len(output[u]) /\ flight = {output[u][k + 1]}
                          ELSE k = Len(output[u])

DeliveredSoFar == discarded = {} => \E k \in 0 .. Len(output[u]) : Yielded(k)

\* The groups make up the type invariant.
LEMMA TypesAgree == TypeInv => TypeOK
<1> SUFFICES ASSUME TypeInv PROVE TypeOK
  OBVIOUS
<1>0. /\ RTypes /\ AppTypes /\ AckTypes /\ LoopTypes /\ FlightIsOne
      /\ ResTypes /\ ConnTypes /\ FlagTypes /\ QueueTypes /\ SrvTypes /\ HistTypes
  BY DEF TypeInv
<1>1. R!TypeOK
  BY <1>0 DEF RTypes
<1>2. /\ app \in {"idle", "close", "dropped"} /\ app_chan \in Seq(Chunks)
      /\ read_result \in {"none", "cause", "closed"} /\ close_result \in {"none", "ok", "err"}
      /\ meta_chan \in 0 .. ChannelSize
  BY <1>0 DEF AppTypes
<1>3. {meta_open, ct, close_cause, tx_result, info_known, info_for_ack, need_resume, up,
       shutdown, registered, srv_alias, close_answered} \subseteq BOOLEAN
  BY <1>0, Zenon DEF AppTypes, AckTypes, ResTypes, ConnTypes, FlagTypes, SrvTypes, HistTypes
<1>4. /\ resume_token \in 0 .. MaxResumes + 1 /\ local_token \in 0 .. MaxResumes + 1
      /\ results \subseteq Chunks /\ last_ack \in Nat \cup {-1} /\ ack_id_complete \in Nat
  BY <1>0, Zenon DEF ResTypes, AckTypes, LoopTypes
<1>5. /\ pc \in {"top", "request", "read", "deliver", "sending", "meta", "drain",
                 "drain_deliver", "ack_complete", "close_request", "failed", "done"}
      /\ flight \subseteq Chunks
  BY <1>0, Zenon DEF LoopTypes
<1>6. Cardinality(flight) = (IF pc = "sending" THEN 1 ELSE 0)
  <2>1. CASE pc = "sending"
    BY <1>0, <2>1, FS_Singleton DEF FlightIsOne
  <2>2. CASE pc # "sending"
    BY <1>0, <2>2, FS_EmptySet DEF FlightIsOne
  <2>3. QED
    BY <2>1, <2>2
<1>7. ServerMessages \subseteq Messages
  BY DEF ServerMessages
<1>8. /\ rx_msg \in Seq(Messages) /\ inbound \in Seq(Messages) /\ outbound \in Seq(Acks)
  <2>1. \A q \in Seq(ServerMessages) : q \in Seq(Messages)
    BY <1>7
  <2>2. QED
    BY <1>0, <2>1 DEF QueueTypes
<1>9. {Len(app_chan), Len(rx_msg), Len(inbound), Len(outbound)} \subseteq 0 .. ChannelSize
  <2>1. /\ Len(app_chan) \in Nat /\ Len(rx_msg) \in Nat
        /\ Len(inbound) \in Nat /\ Len(outbound) \in Nat
    BY <1>2, <1>8
  <2>2. /\ Len(app_chan) <= ChannelSize /\ Len(rx_msg) <= ChannelSize
        /\ Len(inbound) <= ChannelSize /\ Len(outbound) <= ChannelSize
    BY <1>0 DEF AppTypes, QueueTypes
  <2>3. QED
    BY <2>1, <2>2, DownstreamAssumption
<1>10. /\ wire_conn \in 1 .. epoch /\ epoch \in 1 .. MaxConns /\ srv_conn \in 1 .. epoch
       /\ srv_resumes \in 0 .. MaxResumes /\ srv_meta \in 0 .. MaxMeta
       /\ {srv_sent, srv_unacked, srv_resend, srv_acked, delivered, discarded}
            \subseteq SUBSET Chunks
       /\ completed \subseteq Nat
       /\ close_wait \in {"none", "complete", "channel", "timeout"}
  BY <1>0, Zenon DEF ConnTypes, SrvTypes, HistTypes
<1>11. QED
  BY <1>1, <1>2, <1>3, <1>4, <1>5, <1>6, <1>8, <1>9, <1>10, Zenon DEF TypeOK

\* A group keeps its types when a step does not touch it.
LEMMA Kept ==
    ASSUME TypeInv
    PROVE  /\ rVars' = rVars => RTypes'
           /\ appVars' = appVars => AppTypes'
           /\ ackVars' = ackVars => AckTypes'
           /\ <<pc, flight>>' = <<pc, flight>> => FlightIsOne'
           /\ <<pc, flight, ack_id_complete>>' = <<pc, flight, ack_id_complete>> => LoopTypes'
           /\ <<resume_token, local_token, need_resume>>'
                = <<resume_token, local_token, need_resume>> => ResTypes'
           /\ <<epoch, wire_conn, srv_conn, up, shutdown, registered>>'
                = <<epoch, wire_conn, srv_conn, up, shutdown, registered>> => ConnTypes'
           /\ <<ct, close_cause, tx_result>>' = <<ct, close_cause, tx_result>> => FlagTypes'
           /\ <<rx_msg, inbound, outbound>>' = <<rx_msg, inbound, outbound>> => QueueTypes'
           /\ srvVars' = srvVars => SrvTypes'
           /\ histVars' = histVars => HistTypes'
<1>0. /\ RTypes /\ AppTypes /\ AckTypes /\ LoopTypes /\ FlightIsOne
      /\ ResTypes /\ ConnTypes /\ FlagTypes /\ QueueTypes /\ SrvTypes /\ HistTypes
  BY DEF TypeInv
<1>1. rVars' = rVars => RTypes'
  BY <1>0 DEF RTypes, R!TypeOK, rVars, R!SeqNumbers
<1>2. appVars' = appVars => AppTypes'
  BY <1>0 DEF AppTypes, appVars
<1>3. ackVars' = ackVars => AckTypes'
  BY <1>0 DEF AckTypes, ackVars
<1>4. <<pc, flight>>' = <<pc, flight>> => FlightIsOne'
  BY <1>0 DEF FlightIsOne
<1>5. <<pc, flight, ack_id_complete>>' = <<pc, flight, ack_id_complete>> => LoopTypes'
  BY <1>0 DEF LoopTypes
<1>6. <<resume_token, local_token, need_resume>>'
         = <<resume_token, local_token, need_resume>> => ResTypes'
  BY <1>0 DEF ResTypes
<1>7. <<epoch, wire_conn, srv_conn, up, shutdown, registered>>'
         = <<epoch, wire_conn, srv_conn, up, shutdown, registered>> => ConnTypes'
  BY <1>0 DEF ConnTypes
<1>8. <<ct, close_cause, tx_result>>' = <<ct, close_cause, tx_result>> => FlagTypes'
  BY <1>0 DEF FlagTypes
<1>9. <<rx_msg, inbound, outbound>>' = <<rx_msg, inbound, outbound>> => QueueTypes'
  BY <1>0 DEF QueueTypes
<1>10. srvVars' = srvVars => SrvTypes'
  BY <1>0 DEF SrvTypes, srvVars
<1>11. histVars' = histVars => HistTypes'
  BY <1>0 DEF HistTypes, histVars
<1>12. QED
  BY <1>1, <1>2, <1>3, <1>4, <1>5, <1>6, <1>7, <1>8, <1>9, <1>10, <1>11

\* What the operators on queues do.
LEMMA QueueOps ==
    ASSUME NEW S, NEW q \in Seq(S)
    PROVE  /\ Len(q) \in Nat
           /\ \A x \in S : Append(q, x) \in Seq(S) /\ Len(Append(q, x)) = Len(q) + 1
           /\ q # <<>> => Head(q) \in S /\ Tail(q) \in Seq(S) /\ Len(Tail(q)) = Len(q) - 1
           /\ <<>> \in Seq(S) /\ Len(<<>>) = 0
  OBVIOUS

\* The application keeps the types.
LEMMA ApplicationTypes == ASSUME TypeInv, Application PROVE TypeInv'
<1>0. AppTypes /\ FlagTypes /\ ChannelSize \in Nat
  BY DownstreamAssumption DEF TypeInv
<1>1. ASSUME AppTypes', FlagTypes',
             UNCHANGED <<rVars, ackVars, loopVars, resVars, connVars, inbound, outbound, srvVars,
                         histVars>>
      PROVE  TypeInv'
  <2>1. /\ UNCHANGED <<rVars, ackVars, srvVars, histVars>>
        /\ <<pc, flight>>' = <<pc, flight>>
        /\ <<pc, flight, ack_id_complete>>' = <<pc, flight, ack_id_complete>>
        /\ <<resume_token, local_token, need_resume>>' = <<resume_token, local_token, need_resume>>
        /\ <<epoch, wire_conn, srv_conn, up, shutdown, registered>>'
             = <<epoch, wire_conn, srv_conn, up, shutdown, registered>>
        /\ <<rx_msg, inbound, outbound>>' = <<rx_msg, inbound, outbound>>
    BY <1>1 DEF loopVars, resVars, connVars, srvVars
  <2>2. QED
    BY <1>1, <2>1, Kept DEF TypeInv
<1>2. app_chan \in Seq(Chunks) /\ Len(app_chan) \in Nat /\ <<>> \in Seq(Chunks)
  BY <1>0 DEF AppTypes
<1>3. CASE ReadChunk
  <2>1. app_chan' \in Seq(Chunks) /\ Len(app_chan') <= ChannelSize
    <3>1. app_chan' = Tail(app_chan) /\ app_chan # <<>>
      BY <1>3 DEF ReadChunk
    <3>2. Tail(app_chan) \in Seq(Chunks) /\ Len(Tail(app_chan)) = Len(app_chan) - 1
      BY <1>2, <3>1, QueueOps, Zenon
    <3>3. QED
      BY <1>0, <1>2, <3>1, <3>2 DEF AppTypes
  <2>2. AppTypes'
    BY <1>0, <1>3, <2>1 DEF ReadChunk, AppTypes
  <2>3. FlagTypes'
    BY <1>0, <1>3 DEF ReadChunk, FlagTypes
  <2>4. QED
    BY <1>1, <1>3, <2>2, <2>3 DEF ReadChunk
<1>4. CASE ReadEnd
  <2>0. read_result' \in {"cause", "closed"}
    BY <1>4 DEF ReadEnd
  <2>1. AppTypes'
    BY <1>0, <1>4, <2>0 DEF ReadEnd, AppTypes
  <2>2. FlagTypes'
    BY <1>0, <1>4 DEF ReadEnd, FlagTypes
  <2>3. QED
    BY <1>1, <1>4, <2>1, <2>2 DEF ReadEnd
<1>5. CASE CloseCall
  <2>1. AppTypes'
    BY <1>0, <1>5 DEF CloseCall, AppTypes
  <2>2. FlagTypes'
    BY <1>0, <1>5 DEF CloseCall, FlagTypes
  <2>3. QED
    BY <1>1, <1>5, <2>1, <2>2 DEF CloseCall
<1>6. CASE CloseTimeout
  <2>1. AppTypes'
    BY <1>0, <1>6 DEF CloseTimeout, AppTypes
  <2>2. FlagTypes'
    BY <1>0, <1>6 DEF CloseTimeout, FlagTypes
  <2>3. QED
    BY <1>1, <1>6, <2>1, <2>2 DEF CloseTimeout
<1>7. CASE DropDownstream
  <2>1. app_chan' = <<>> /\ app' = "dropped"
    BY <1>7 DEF DropDownstream
  <2>2. Len(app_chan') = 0
    BY <2>1
  <2>3. AppTypes'
    BY <1>0, <1>2, <1>7, <2>1, <2>2 DEF DropDownstream, AppTypes
  <2>4. FlagTypes'
    BY <1>0, <1>7 DEF DropDownstream, FlagTypes
  <2>5. QED
    BY <1>1, <1>7, <2>3, <2>4 DEF DropDownstream
<1>8. CASE ReadMetadata
  <2>1. AppTypes'
    BY <1>0, <1>8 DEF ReadMetadata, AppTypes
  <2>2. FlagTypes'
    BY <1>0, <1>8 DEF ReadMetadata, FlagTypes
  <2>3. QED
    BY <1>1, <1>8, <2>1, <2>2 DEF ReadMetadata
<1>9. CASE DropMetadataReader
  <2>a. meta_open' \in BOOLEAN
    BY <1>9, Zenon DEF DropMetadataReader
  <2>b. meta_chan' \in 0 .. ChannelSize
    BY <1>0, <1>9 DEF DropMetadataReader
  <2>c. UNCHANGED <<app, app_chan, read_result, close_result>>
    BY <1>9 DEF DropMetadataReader
  <2>1. AppTypes'
    BY <1>0, <2>a, <2>b, <2>c DEF AppTypes
  <2>2. FlagTypes'
    BY <1>0, <1>9 DEF DropMetadataReader, FlagTypes
  <2>3. QED
    BY <1>1, <1>9, <2>1, <2>2 DEF DropMetadataReader
<1>10. QED
  BY <1>3, <1>4, <1>5, <1>6, <1>7, <1>8, <1>9 DEF Application

\* A loop that returns keeps the types.
LEMMA ReturnTypes ==
    ASSUME TypeInv, NEW place \in {"failed", "done"}, Return(place), pc # "sending",
           UNCHANGED <<flight, ack_id_complete, close_cause, epoch, wire_conn, srv_conn, up,
                       shutdown, inbound, outbound>>
    PROVE  LoopTypes' /\ FlightIsOne' /\ ConnTypes' /\ QueueTypes'
           /\ ct' \in BOOLEAN /\ close_cause' \in BOOLEAN
<1>0. LoopTypes /\ FlightIsOne /\ ConnTypes /\ QueueTypes /\ FlagTypes /\ ChannelSize \in Nat
  BY DownstreamAssumption DEF TypeInv
<1>1. pc' = place /\ rx_msg' = <<>>
  BY DEF Return
<1>2. LoopTypes' /\ FlightIsOne'
  BY <1>0, <1>1 DEF LoopTypes, FlightIsOne
<1>3. registered' \in BOOLEAN /\ ct' \in BOOLEAN
  BY Zenon DEF Return
<1>4. ConnTypes'
  BY <1>0, <1>3 DEF ConnTypes
<1>5. rx_msg' \in Seq(ServerMessages) /\ Len(rx_msg') <= ChannelSize
  BY <1>0, <1>1
<1>6. QueueTypes'
  BY <1>0, <1>5 DEF QueueTypes
<1>7. close_cause' \in BOOLEAN
  BY <1>0 DEF FlagTypes
<1>8. QED
  BY <1>2, <1>3, <1>4, <1>6, <1>7

\* The server performs a resume.
LEMMA ServerResumeTypes ==
    ASSUME TypeInv, ServerResume
    PROVE  SrvTypes' /\ srv_conn' = wire_conn
  BY DownstreamAssumption DEF TypeInv, ServerResume, SrvTypes

ResumeSteps == \/ ResumeTakeToken \/ ResumeOk \/ ResumeRetry \/ ResumeGaveUp \/ GetUpdated
               \/ AddDownstream

\* The resume loop keeps the types.
LEMMA ResumeTypes == ASSUME TypeInv, ResumeSteps PROVE TypeInv'
<1>0. /\ LoopTypes /\ FlightIsOne /\ ConnTypes /\ QueueTypes /\ FlagTypes /\ ResTypes /\ SrvTypes
      /\ ChannelSize \in Nat /\ MaxResumes \in Nat
  BY DownstreamAssumption DEF TypeInv
<1>1. ASSUME LoopTypes', FlightIsOne', ConnTypes', QueueTypes', FlagTypes', ResTypes', SrvTypes',
             UNCHANGED <<rVars, appVars, ackVars, histVars>>
      PROVE  TypeInv'
  BY <1>1, Kept DEF TypeInv
<1>2. ASSUME NEW place \in {"top", "request", "read"}, pc' = place, pc # "sending",
             UNCHANGED <<flight, ack_id_complete>>
      PROVE  LoopTypes' /\ FlightIsOne'
  BY <1>0, <1>2 DEF LoopTypes, FlightIsOne
<1>3. UNCHANGED <<rVars, appVars, ackVars, histVars>>
  BY DEF ResumeSteps, ResumeTakeToken, ResumeOk, ResumeRetry, ResumeGaveUp, GetUpdated,
         AddDownstream
<1>4. CASE ResumeTakeToken
  <2>1. LoopTypes' /\ FlightIsOne'
    BY <1>2, <1>4 DEF ResumeTakeToken
  <2>a. UNCHANGED <<wire_conn, connVars, srvVars, ct, close_cause, tx_result, rx_msg, inbound,
                    outbound>>
    BY <1>4 DEF ResumeTakeToken
  <2>2. ConnTypes' /\ QueueTypes' /\ FlagTypes' /\ SrvTypes'
    BY <2>a, Kept DEF connVars, srvVars
  <2>3. local_token' \in {local_token, resume_token} /\ resume_token' \in {resume_token, 0}
    BY <1>4 DEF ResumeTakeToken
  <2>4. need_resume' = need_resume
    BY <1>4 DEF ResumeTakeToken
  <2>5. ResTypes'
    BY <1>0, <2>3, <2>4 DEF ResTypes
  <2>6. QED
    BY <1>1, <1>3, <2>1, <2>2, <2>5
<1>5. CASE ResumeOk
  <2>1. LoopTypes' /\ FlightIsOne'
    BY <1>2, <1>5 DEF ResumeOk
  <2>2. SrvTypes' /\ srv_conn' = wire_conn
    BY <1>5, ServerResumeTypes DEF ResumeOk
  <2>3. QueueTypes' /\ FlagTypes'
    BY <1>5, Kept DEF ResumeOk
  <2>4. ConnTypes'
    BY <1>0, <1>5, <2>2 DEF ResumeOk, ConnTypes, connVars
  <2>a. resume_token' = srv_resumes' + 1
    BY <1>5 DEF ResumeOk
  <2>b. srv_resumes' \in 0 .. MaxResumes
    BY <2>2 DEF SrvTypes
  <2>c. \A m, n \in Nat : n \in 0 .. m => n + 1 \in 0 .. m + 1
    OBVIOUS
  <2>d. MaxResumes \in Nat /\ srv_resumes' \in Nat
    BY <1>0, <2>b
  <2>5. resume_token' \in 0 .. MaxResumes + 1
    BY <2>a, <2>b, <2>c, <2>d, Zenon
  <2>6. need_resume' \in BOOLEAN
    BY <1>5, Zenon DEF ResumeOk
  <2>7. ResTypes'
    BY <1>0, <1>5, <2>5, <2>6 DEF ResumeOk, ResTypes
  <2>8. QED
    BY <1>1, <1>3, <2>1, <2>2, <2>3, <2>4, <2>7
<1>6. CASE ResumeRetry
  <2>1. LoopTypes' /\ FlightIsOne'
    BY <1>2, <1>6 DEF ResumeRetry
  <2>2. QueueTypes' /\ FlagTypes' /\ ResTypes'
    BY <1>6, Kept DEF ResumeRetry, resVars
  <2>3. SrvTypes' /\ srv_conn' \in {srv_conn, wire_conn}
    BY <1>6, Kept, ServerResumeTypes DEF ResumeRetry, srvVars
  <2>4. ConnTypes'
    BY <1>0, <1>6, <2>3 DEF ResumeRetry, ConnTypes, connVars, resVars
  <2>5. QED
    BY <1>1, <1>3, <2>1, <2>2, <2>3, <2>4
<1>7. CASE ResumeGaveUp
  <2>1. Return("done") /\ pc # "sending"
        /\ UNCHANGED <<flight, ack_id_complete, close_cause, epoch, wire_conn, srv_conn, up,
                       shutdown, inbound, outbound>>
    BY <1>7 DEF ResumeGaveUp, resVars, srvVars
  <2>2. /\ LoopTypes' /\ FlightIsOne' /\ ConnTypes' /\ QueueTypes'
        /\ ct' \in BOOLEAN /\ close_cause' \in BOOLEAN
    BY <2>1, ReturnTypes
  <2>3. ResTypes' /\ SrvTypes'
    BY <1>7, Kept DEF ResumeGaveUp, resVars
  <2>4. FlagTypes'
    BY <1>0, <1>7, <2>2 DEF ResumeGaveUp, FlagTypes
  <2>5. QED
    BY <1>1, <1>3, <2>2, <2>3, <2>4
<1>8. CASE GetUpdated
  <2>1. LoopTypes' /\ FlightIsOne' /\ QueueTypes' /\ FlagTypes' /\ SrvTypes'
    BY <1>8, Kept DEF GetUpdated, loopVars
  <2>2. ConnTypes'
    BY <1>0, <1>8 DEF GetUpdated, ConnTypes, connVars, srvVars
  <2>3. need_resume' \in BOOLEAN
    BY <1>8, Zenon DEF GetUpdated
  <2>4. ResTypes'
    BY <1>0, <1>8, <2>3 DEF GetUpdated, ResTypes
  <2>5. QED
    BY <1>1, <1>3, <2>1, <2>2, <2>4
<1>9. CASE AddDownstream
  <2>1. LoopTypes' /\ FlightIsOne'
    BY <1>2, <1>9 DEF AddDownstream
  <2>2. ConnTypes' /\ FlagTypes' /\ ResTypes' /\ SrvTypes'
    BY <1>9, Kept DEF AddDownstream, resVars, connVars, srvVars
  <2>3. rx_msg' = <<>> /\ UNCHANGED <<inbound, outbound>>
    BY <1>9 DEF AddDownstream
  <2>4. rx_msg' \in Seq(ServerMessages) /\ Len(rx_msg') <= ChannelSize
    BY <1>0, <2>3
  <2>5. QueueTypes'
    BY <1>0, <2>3, <2>4 DEF QueueTypes
  <2>6. QED
    BY <1>1, <1>3, <2>1, <2>2, <2>5
<1>10. QED
  BY <1>4, <1>5, <1>6, <1>7, <1>8, <1>9 DEF ResumeSteps

\* The reorderer takes in a chunk, and keeps its types.
LEMMA IterTypes ==
    ASSUME TypeInv, NEW n \in Chunks, R!Iter(u, n)
    PROVE  RTypes'
<1>0. /\ reordering \in Modes /\ known \subseteq {u} /\ next \in [{u} -> 0 .. MaxSeq]
      /\ store \in [{u} -> SUBSET (0 .. MaxSeq)] /\ current \subseteq {u}
      /\ failed \in BOOLEAN /\ stopped \in BOOLEAN /\ arrivals \in 0 .. MaxArrivals
      /\ arrived \in [{u} -> SUBSET (0 .. MaxSeq)] /\ output \in [{u} -> Seq(0 .. MaxSeq)]
  BY DEF TypeInv, RTypes, R!TypeOK, R!SeqNumbers
<1>1. n \in 0 .. MaxSeq
  BY DownstreamAssumption DEF Chunks
<1>2. R!Expected(u, n) \in 0 .. MaxSeq
  BY <1>0, <1>1 DEF R!Expected
<1>3. next' \in [{u} -> 0 .. MaxSeq]
  BY <1>0, <1>2 DEF R!Iter
<1>4. known' \subseteq {u}
  BY <1>0 DEF R!Iter
<1>5. /\ store' \in [{u} -> SUBSET (0 .. MaxSeq)] /\ arrived' \in [{u} -> SUBSET (0 .. MaxSeq)]
      /\ current' \subseteq {u}
  BY <1>0, <1>1 DEF R!Iter
<1>6. arrivals' \in 0 .. MaxArrivals
  BY <1>0, DownstreamAssumption DEF R!Iter
<1>7. failed' \in BOOLEAN
  <2>1. failed' = TRUE \/ failed' = failed
    BY Zenon DEF R!Iter
  <2>2. QED
    BY <1>0, <2>1, Zenon
<1>8. UNCHANGED <<reordering, stopped, output>>
  BY DEF R!Iter
<1>9. QED
  BY <1>0, <1>3, <1>4, <1>5, <1>6, <1>7, <1>8 DEF RTypes, R!TypeOK, R!SeqNumbers

\* The reorderer yields a chunk, and keeps its types.
LEMMA PopTypes ==
    ASSUME TypeInv, NEW n \in Chunks, R!Pop(u, n)
    PROVE  RTypes'
<1>0. /\ reordering \in Modes /\ known \subseteq {u} /\ next \in [{u} -> 0 .. MaxSeq]
      /\ store \in [{u} -> SUBSET (0 .. MaxSeq)] /\ current \subseteq {u}
      /\ failed \in BOOLEAN /\ stopped \in BOOLEAN /\ arrivals \in 0 .. MaxArrivals
      /\ arrived \in [{u} -> SUBSET (0 .. MaxSeq)] /\ output \in [{u} -> Seq(0 .. MaxSeq)]
  BY DEF TypeInv, RTypes, R!TypeOK, R!SeqNumbers
<1>1. n \in 0 .. MaxSeq
  BY DownstreamAssumption DEF Chunks
<1>2. R!Succ(n) \in 0 .. MaxSeq
  BY <1>1, DownstreamAssumption DEF R!Succ
<1>3. next' \in [{u} -> 0 .. MaxSeq]
  BY <1>0, <1>2 DEF R!Pop
<1>4. store' \in [{u} -> SUBSET (0 .. MaxSeq)]
  BY <1>0 DEF R!Pop
<1>5. output' \in [{u} -> Seq(0 .. MaxSeq)]
  <2>1. Append(output[u], n) \in Seq(0 .. MaxSeq)
    <3>1. output[u] \in Seq(0 .. MaxSeq)
      BY <1>0
    <3>2. QED
      BY <1>1, <3>1, QueueOps, Zenon
  <2>2. output' = [output EXCEPT ![u] = Append(@, n)]
    BY DEF R!Pop
  <2>3. QED
    BY <1>0, <2>1, <2>2
<1>6. UNCHANGED <<reordering, known, current, failed, stopped, arrivals, arrived>>
  BY DEF R!Pop
<1>7. QED
  BY <1>0, <1>3, <1>4, <1>5, <1>6 DEF RTypes, R!TypeOK, R!SeqNumbers

\* The iterator ends, used up or dropped.
LEMMA EndTypes ==
    ASSUME TypeInv, R!PopNone(u) \/ R!Break(u)
    PROVE  RTypes'
<1>0. /\ reordering \in Modes /\ known \subseteq {u} /\ next \in [{u} -> 0 .. MaxSeq]
      /\ store \in [{u} -> SUBSET (0 .. MaxSeq)] /\ current \subseteq {u}
      /\ failed \in BOOLEAN /\ stopped \in BOOLEAN /\ arrivals \in 0 .. MaxArrivals
      /\ arrived \in [{u} -> SUBSET (0 .. MaxSeq)] /\ output \in [{u} -> Seq(0 .. MaxSeq)]
  BY DEF TypeInv, RTypes, R!TypeOK, R!SeqNumbers
<1>1. UNCHANGED <<reordering, known, next, store, failed, arrivals, arrived, output>>
  BY DEF R!PopNone, R!Break
<1>2. current' \subseteq {u}
  BY DEF R!PopNone, R!Break
<1>3. stopped' \in BOOLEAN
  <2>1. stopped' = TRUE \/ stopped' = stopped
    BY Zenon DEF R!PopNone, R!Break
  <2>2. QED
    BY <1>0, <2>1, Zenon
<1>4. QED
  BY <1>0, <1>1, <1>2, <1>3 DEF RTypes, R!TypeOK, R!SeqNumbers

\* The first message leaves the channel.
LEMMA TakeMessage ==
    ASSUME TypeInv, rx_msg # <<>>, rx_msg' = Tail(rx_msg), UNCHANGED <<inbound, outbound>>
    PROVE  QueueTypes' /\ Head(rx_msg) \in ServerMessages
<1>0. QueueTypes /\ ChannelSize \in Nat
  BY DownstreamAssumption DEF TypeInv
<1>1. rx_msg \in Seq(ServerMessages) /\ Len(rx_msg) \in Nat
  BY <1>0 DEF QueueTypes
<1>2. /\ Tail(rx_msg) \in Seq(ServerMessages) /\ Len(Tail(rx_msg)) = Len(rx_msg) - 1
      /\ Head(rx_msg) \in ServerMessages
  BY <1>1, QueueOps, Zenon
<1>3. Len(rx_msg') <= ChannelSize
  BY <1>0, <1>1, <1>2 DEF QueueTypes
<1>4. QED
  BY <1>0, <1>2, <1>3 DEF QueueTypes

\* A chunk is taken in.
LEMMA TakeInTypes ==
    ASSUME TypeInv, NEW place \in {"deliver", "drain_deliver"}, TakeIn(place),
           pc \in {"read", "drain"}
    PROVE  TypeInv'
<1> DEFINE n == Head(rx_msg).n
<1>0. /\ RTypes /\ AckTypes /\ LoopTypes /\ FlightIsOne /\ QueueTypes /\ FlagTypes
      /\ rx_msg # <<>> /\ pc # "sending"
  BY DEF TypeInv, TakeIn, Received
<1>1. n \in Chunks
  <2>1. Head(rx_msg) \in ServerMessages
    <3>1. rx_msg \in Seq(ServerMessages)
      BY <1>0 DEF QueueTypes
    <3>2. QED
      BY <1>0, <3>1, QueueOps, Zenon
  <2>2. Head(rx_msg).type = "chunk"
    BY DEF TakeIn, Received
  <2>3. QED
    BY <2>1, <2>2 DEF ServerMessages
<1>2. /\ UNCHANGED <<appVars, close_cause, tx_result, flight, ack_id_complete, resVars, epoch,
                     up, shutdown, inbound, outbound, srvVars, histVars>>
      /\ UNCHANGED <<wire_conn, srv_conn>>
  BY DEF TakeIn, resVars, srvVars
<1>3. AppTypes' /\ ResTypes' /\ SrvTypes' /\ HistTypes'
  BY <1>2, Kept DEF resVars
<1>4. CASE ~Resolvable(Head(rx_msg))
  <2>1. /\ rx_msg' = Tail(rx_msg)
        /\ UNCHANGED <<rVars, ackVars, ct, registered, pc>>
    BY <1>4 DEF TakeIn
  <2>2. QueueTypes'
    BY <1>0, <1>2, <2>1, TakeMessage
  <2>3. RTypes' /\ AckTypes' /\ LoopTypes' /\ FlightIsOne' /\ ConnTypes' /\ FlagTypes'
    BY <1>2, <2>1, Kept
  <2>4. QED
    BY <1>3, <2>2, <2>3 DEF TypeInv
<1>5. CASE Resolvable(Head(rx_msg))
  <2>1. Convert(n) /\ R!Iter(u, n)
    BY <1>5 DEF TakeIn
  <2>2. RTypes'
    BY <1>1, <2>1, IterTypes
  <2>3. AckTypes'
    <3>1. results' = results \cup {n} /\ last_ack' = last_ack
      BY <2>1 DEF Convert, AddSequenceNumber
    <3>2. info_known' \in BOOLEAN /\ info_for_ack' \in BOOLEAN
      BY <2>1, Zenon DEF Convert, AddUpstreamInfo
    <3>3. QED
      BY <1>0, <1>1, <3>1, <3>2 DEF AckTypes
  <2>4. CASE failed'
    <3>1. Return("failed")
      BY <1>5, <2>4 DEF TakeIn
    <3>2. /\ LoopTypes' /\ FlightIsOne' /\ ConnTypes' /\ QueueTypes'
          /\ ct' \in BOOLEAN /\ close_cause' \in BOOLEAN
      BY <1>0, <1>2, <3>1, ReturnTypes
    <3>3. FlagTypes'
      BY <1>0, <1>2, <3>2 DEF FlagTypes
    <3>4. QED
      BY <1>3, <2>2, <2>3, <3>2, <3>3 DEF TypeInv
  <2>5. CASE ~failed'
    <3>1. pc' = place /\ rx_msg' = Tail(rx_msg) /\ UNCHANGED <<ct, registered>>
      BY <1>5, <2>5 DEF TakeIn
    <3>2. QueueTypes'
      BY <1>0, <1>2, <3>1, TakeMessage
    <3>3. LoopTypes' /\ FlightIsOne'
      BY <1>0, <1>2, <3>1 DEF LoopTypes, FlightIsOne
    <3>4. ConnTypes' /\ FlagTypes'
      BY <1>2, <3>1, Kept
    <3>5. QED
      BY <1>3, <2>2, <2>3, <3>2, <3>3, <3>4 DEF TypeInv
  <2>6. QED
    BY <2>4, <2>5
<1>6. QED
  BY <1>4, <1>5

Places == {"top", "request", "read", "deliver", "meta", "drain", "drain_deliver",
           "ack_complete", "close_request", "failed", "done"}

\* The loop goes to another place, with no chunk that waits for room.
LEMMA GoesOn ==
    ASSUME TypeInv, pc' \in Places, ack_id_complete' = ack_id_complete,
           flight' = {} \/ (flight' = flight /\ pc # "sending")
    PROVE  LoopTypes' /\ FlightIsOne'
<1>0. LoopTypes /\ FlightIsOne
  BY DEF TypeInv
<1>1. flight' = {}
  BY <1>0 DEF FlightIsOne
<1>2. QED
  BY <1>0, <1>1 DEF LoopTypes, FlightIsOne, Places

\* A chunk is put into the application's channel.
LEMMA PutTypes ==
    ASSUME TypeInv, NEW n \in Chunks, Len(app_chan) < ChannelSize,
           app_chan' = Append(app_chan, n),
           UNCHANGED <<app, read_result, close_result, meta_chan, meta_open>>
    PROVE  AppTypes'
<1>0. AppTypes /\ ChannelSize \in Nat
  BY DownstreamAssumption DEF TypeInv
<1>1. app_chan \in Seq(Chunks)
  BY <1>0 DEF AppTypes
<1>2. /\ app_chan' \in Seq(Chunks) /\ Len(app_chan') = Len(app_chan) + 1
      /\ Len(app_chan) \in Nat
  BY <1>1, QueueOps, Zenon
<1>3. Len(app_chan') <= ChannelSize
  BY <1>0, <1>2
<1>4. QED
  BY <1>0, <1>2, <1>3 DEF AppTypes

\* The chunks go from the reorderer to the application.
LEMMA DeliverTypes ==
    ASSUME TypeInv, LoopPop \/ LoopDeliver \/ LoopDeliverClosed \/ LoopPopNone \/ DrainPop
    PROVE  TypeInv'
<1>0. AppTypes /\ LoopTypes /\ FlightIsOne /\ FlagTypes /\ HistTypes
  BY DEF TypeInv
<1>1. /\ UNCHANGED <<close_cause, tx_result, ackVars, rx_msg, ack_id_complete, resVars, connVars,
                     inbound, outbound, srvVars>>
  BY DEF LoopPop, LoopDeliver, LoopDeliverClosed, LoopPopNone, DrainPop, loopVars
<1>2. AckTypes' /\ ResTypes' /\ SrvTypes' /\ ConnTypes' /\ QueueTypes'
  BY <1>1, Kept DEF resVars, connVars, srvVars
<1>3. ASSUME RTypes', AppTypes', LoopTypes', FlightIsOne', FlagTypes', HistTypes' PROVE TypeInv'
  BY <1>2, <1>3 DEF TypeInv
<1>4. CASE LoopPop
  <2>1. PICK n \in Chunks : R!Pop(u, n) /\ flight' = {n}
    BY <1>4 DEF LoopPop
  <2>2. RTypes'
    BY <2>1, PopTypes
  <2>3. LoopTypes' /\ FlightIsOne'
    <3>1. pc' = "sending"
      BY <1>4 DEF LoopPop
    <3>2. QED
      BY <1>0, <1>1, <2>1, <3>1 DEF LoopTypes, FlightIsOne
  <2>4. AppTypes' /\ FlagTypes' /\ HistTypes'
    BY <1>1, <1>4, Kept DEF LoopPop
  <2>5. QED
    BY <1>3, <2>2, <2>3, <2>4
<1>5. CASE LoopDeliver
  <2>1. PICK n \in flight : app_chan' = Append(app_chan, n)
    BY <1>5 DEF LoopDeliver
  <2>2. AppTypes'
    BY <1>0, <1>5, <2>1, PutTypes DEF LoopDeliver, LoopTypes
  <2>3. LoopTypes' /\ FlightIsOne'
    BY <1>5, GoesOn DEF LoopDeliver, Places
  <2>4. HistTypes'
    BY <1>0, <1>5 DEF LoopDeliver, HistTypes, LoopTypes
  <2>5. RTypes' /\ FlagTypes'
    BY <1>5, Kept DEF LoopDeliver
  <2>6. QED
    BY <1>3, <2>2, <2>3, <2>4, <2>5
<1>6. CASE LoopDeliverClosed
  <2>1. RTypes'
    BY <1>6, EndTypes DEF LoopDeliverClosed
  <2>2. LoopTypes' /\ FlightIsOne'
    BY <1>6, GoesOn DEF LoopDeliverClosed, Places
  <2>3. ct' \in BOOLEAN
    BY <1>6, Zenon DEF LoopDeliverClosed
  <2>4. FlagTypes'
    BY <1>0, <1>1, <2>3 DEF FlagTypes
  <2>5. AppTypes' /\ HistTypes'
    BY <1>6, Kept DEF LoopDeliverClosed
  <2>6. QED
    BY <1>3, <2>1, <2>2, <2>4, <2>5
<1>7. CASE LoopPopNone
  <2>1. RTypes'
    BY <1>7, EndTypes DEF LoopPopNone
  <2>2. pc' \in {"read", "drain"} /\ pc # "sending" /\ flight' = flight
    BY <1>7 DEF LoopPopNone
  <2>3. LoopTypes' /\ FlightIsOne'
    BY <1>1, <2>2, GoesOn DEF Places
  <2>4. AppTypes' /\ FlagTypes' /\ HistTypes'
    BY <1>7, Kept DEF LoopPopNone
  <2>5. QED
    BY <1>3, <2>1, <2>3, <2>4
<1>8. CASE DrainPop
  <2>1. PICK n \in Chunks :
          /\ R!Pop(u, n)
          /\ IF app # "dropped" /\ Len(app_chan) < ChannelSize
             THEN /\ app_chan' = Append(app_chan, n)
                  /\ delivered' = delivered \cup {n}
                  /\ UNCHANGED discarded
             ELSE /\ discarded' = discarded \cup {n}
                  /\ UNCHANGED <<app_chan, delivered>>
    BY <1>8 DEF DrainPop
  <2>2. RTypes'
    BY <2>1, PopTypes
  <2>3. /\ UNCHANGED <<app, read_result, close_result, meta_chan, meta_open>>
        /\ UNCHANGED <<completed, close_wait, close_answered>>
        /\ UNCHANGED <<pc, flight, ack_id_complete, ct, close_cause, tx_result>>
    BY <1>8 DEF DrainPop, loopVars
  <2>4. LoopTypes' /\ FlightIsOne' /\ FlagTypes'
    BY <2>3, Kept
  <2>5. AppTypes'
    <3>1. CASE app # "dropped" /\ Len(app_chan) < ChannelSize
      BY <2>1, <2>3, <3>1, PutTypes
    <3>2. CASE ~(app # "dropped" /\ Len(app_chan) < ChannelSize)
      BY <2>1, <2>3, <3>2, Kept DEF appVars
    <3>3. QED
      BY <3>1, <3>2
  <2>6. delivered' \subseteq Chunks
    BY <1>0, <2>1 DEF HistTypes
  <2>7. discarded' \subseteq Chunks
    BY <1>0, <2>1 DEF HistTypes
  <2>8. HistTypes'
    BY <1>0, <2>3, <2>6, <2>7 DEF HistTypes
  <2>9. QED
    BY <1>3, <2>2, <2>4, <2>5, <2>8
<1>9. QED
  BY <1>4, <1>5, <1>6, <1>7, <1>8

\* Messages other than chunks keep the types.
LEMMA MessageTypes ==
    ASSUME TypeInv, \/ LoopMetadata \/ MetadataSend \/ MetadataClosed \/ LoopComplete \/ LoopBreak
                    \/ DrainMetadata \/ AckCompleteDiscard \/ AckCompleteDone \/ StoreCause
    PROVE  TypeInv'
<1>0. AppTypes /\ LoopTypes /\ FlightIsOne /\ FlagTypes /\ HistTypes /\ ChannelSize \in Nat
  BY DownstreamAssumption DEF TypeInv
<1>1. /\ UNCHANGED <<rVars, tx_result, ackVars, flight, resVars, connVars, inbound, outbound,
                     srvVars>>
  BY DEF LoopMetadata, MetadataSend, MetadataClosed, LoopComplete, LoopBreak, DrainMetadata,
         AckCompleteDiscard, AckCompleteDone, StoreCause
<1>2. RTypes' /\ AckTypes' /\ ResTypes' /\ SrvTypes' /\ ConnTypes'
  BY <1>1, Kept DEF resVars, connVars, srvVars
<1>3. ASSUME AppTypes', LoopTypes', FlightIsOne', FlagTypes', QueueTypes', HistTypes'
      PROVE  TypeInv'
  BY <1>2, <1>3 DEF TypeInv
<1>4. CASE LoopMetadata
  <2>1. QueueTypes'
    BY <1>4, TakeMessage DEF LoopMetadata, Received
  <2>2. LoopTypes' /\ FlightIsOne'
    BY <1>4, GoesOn DEF LoopMetadata, Places
  <2>3. AppTypes' /\ FlagTypes' /\ HistTypes'
    BY <1>4, Kept DEF LoopMetadata
  <2>4. QED
    BY <1>3, <2>1, <2>2, <2>3
<1>5. CASE MetadataSend
  <2>1. pc' \in {"read", "drain"} /\ pc # "sending" /\ flight' = flight
    BY <1>5 DEF MetadataSend
  <2>2. LoopTypes' /\ FlightIsOne'
    BY <1>5, <2>1, GoesOn DEF MetadataSend, Places
  <2>3. AppTypes'
    BY <1>0, <1>5 DEF MetadataSend, AppTypes
  <2>4. QueueTypes' /\ FlagTypes' /\ HistTypes'
    BY <1>5, Kept DEF MetadataSend
  <2>5. QED
    BY <1>3, <2>2, <2>3, <2>4
<1>6. CASE MetadataClosed
  <2>1. LoopTypes' /\ FlightIsOne'
    BY <1>6, GoesOn DEF MetadataClosed, Places
  <2>2. ct' \in BOOLEAN
    BY <1>6, Zenon DEF MetadataClosed
  <2>3. FlagTypes'
    BY <1>0, <1>6, <2>2 DEF MetadataClosed, FlagTypes
  <2>4. AppTypes' /\ QueueTypes' /\ HistTypes'
    BY <1>6, Kept DEF MetadataClosed
  <2>5. QED
    BY <1>3, <2>1, <2>3, <2>4
<1>7. CASE LoopComplete
  <2>1. /\ rx_msg # <<>> /\ rx_msg' = Tail(rx_msg)
        /\ ack_id_complete' \in {ack_id_complete, Head(rx_msg).n}
        /\ completed' = completed \cup {Head(rx_msg).n}
        /\ UNCHANGED <<pc, flight, delivered, discarded, close_wait, close_answered>>
    BY <1>7 DEF LoopComplete, Complete, Received
  <2>2. QueueTypes' /\ Head(rx_msg) \in ServerMessages
    BY <1>1, <2>1, TakeMessage
  <2>3. Head(rx_msg).n \in Nat
    BY <2>2 DEF ServerMessages, Messages
  <2>4. LoopTypes' /\ HistTypes'
    BY <1>0, <2>1, <2>3 DEF LoopTypes, HistTypes
  <2>5. AppTypes' /\ FlagTypes' /\ FlightIsOne'
    BY <1>7, <2>1, Kept DEF LoopComplete
  <2>6. QED
    BY <1>3, <2>2, <2>4, <2>5
<1>8. CASE LoopBreak
  <2>1. LoopTypes' /\ FlightIsOne'
    BY <1>8, GoesOn DEF LoopBreak, Places
  <2>2. AppTypes' /\ FlagTypes' /\ QueueTypes' /\ HistTypes'
    BY <1>8, Kept DEF LoopBreak
  <2>3. QED
    BY <1>3, <2>1, <2>2
<1>9. CASE DrainMetadata
  <2>1. QueueTypes'
    BY <1>9, TakeMessage DEF DrainMetadata, Received
  <2>2. meta_chan' \in 0 .. ChannelSize
    BY <1>0, <1>9 DEF DrainMetadata, AppTypes
  <2>3. AppTypes'
    BY <1>0, <1>9, <2>2 DEF DrainMetadata, AppTypes
  <2>4. LoopTypes' /\ FlightIsOne' /\ FlagTypes' /\ HistTypes'
    BY <1>9, Kept DEF DrainMetadata
  <2>5. QED
    BY <1>3, <2>1, <2>3, <2>4
<1>10. CASE AckCompleteDiscard
  <2>1. QueueTypes'
    BY <1>10, TakeMessage DEF AckCompleteDiscard, Received
  <2>2. AppTypes' /\ LoopTypes' /\ FlightIsOne' /\ FlagTypes' /\ HistTypes'
    BY <1>10, Kept DEF AckCompleteDiscard
  <2>3. QED
    BY <1>3, <2>1, <2>2
<1>11. CASE AckCompleteDone
  <2>1. LoopTypes' /\ FlightIsOne'
    BY <1>11, GoesOn DEF AckCompleteDone, Places
  <2>2. HistTypes'
    BY <1>0, <1>11 DEF AckCompleteDone, HistTypes
  <2>3. AppTypes' /\ FlagTypes' /\ QueueTypes'
    BY <1>11, Kept DEF AckCompleteDone
  <2>4. QED
    BY <1>3, <2>1, <2>2, <2>3
<1>12. CASE StoreCause
  <2>1. LoopTypes' /\ FlightIsOne'
    BY <1>12, GoesOn DEF StoreCause, Places
  <2>2. close_cause' \in BOOLEAN
    BY <1>12, Zenon DEF StoreCause
  <2>3. FlagTypes'
    BY <1>0, <1>12, <2>2 DEF StoreCause, FlagTypes
  <2>4. AppTypes' /\ QueueTypes' /\ HistTypes'
    BY <1>12, Kept DEF StoreCause
  <2>5. QED
    BY <1>3, <2>1, <2>3, <2>4
<1>13. QED
  BY <1>4, <1>5, <1>6, <1>7, <1>8, <1>9, <1>10, <1>11, <1>12

\* The ack that is taken, and the state it leaves, have their types.
LEMMA TakeAckTypes ==
    ASSUME TypeInv, TakeAck
    PROVE  AckTypes' /\ NewAck \in Acks
<1>0. AckTypes
  BY DEF TypeInv
<1>1. last_ack + 1 \in Nat
  BY <1>0 DEF AckTypes
<1>2. NewAck \in Acks
  BY <1>0, <1>1 DEF NewAck, Acks, AckTypes
<1>3. info_for_ack' \in BOOLEAN
  BY Zenon DEF TakeAck
<1>4. AckTypes'
  BY <1>0, <1>1, <1>3 DEF TakeAck, AckTypes
<1>5. QED
  BY <1>2, <1>4

\* An ack is queued for the server, or lost.
LEMMA OutboundTypes ==
    ASSUME TypeInv, NewAck \in Acks,
           (CanSend /\ outbound' = Append(outbound, NewAck)) \/ outbound' = outbound
    PROVE  outbound' \in Seq(Acks) /\ Len(outbound') <= ChannelSize
<1>0. outbound \in Seq(Acks) /\ Len(outbound) <= ChannelSize /\ ChannelSize \in Nat
  BY DownstreamAssumption DEF TypeInv, QueueTypes
<1>1. CASE CanSend /\ outbound' = Append(outbound, NewAck)
  <2>1. /\ Append(outbound, NewAck) \in Seq(Acks)
        /\ Len(Append(outbound, NewAck)) = Len(outbound) + 1 /\ Len(outbound) \in Nat
    BY <1>0, QueueOps, Zenon
  <2>2. Len(outbound) < ChannelSize
    BY <1>1 DEF CanSend
  <2>3. QED
    BY <1>0, <1>1, <2>1, <2>2
<1>2. QED
  BY <1>0, <1>1

\* Sending an ack keeps the types.
LEMMA AckStepTypes == ASSUME TypeInv, LoopAck \/ DrainEnd PROVE TypeInv'
<1>0. /\ AckTypes /\ LoopTypes /\ FlightIsOne /\ FlagTypes /\ ConnTypes /\ QueueTypes /\ ResTypes
      /\ ChannelSize \in Nat /\ MaxResumes \in Nat
  BY DownstreamAssumption DEF TypeInv
<1>1. /\ UNCHANGED <<rVars, appVars, close_cause, tx_result, flight, ack_id_complete,
                     resume_token, need_resume, wire_conn, epoch, up, shutdown, inbound,
                     srvVars, histVars>>
  BY DEF LoopAck, DrainEnd, resVars, connVars
<1>2. RTypes' /\ AppTypes' /\ SrvTypes' /\ HistTypes'
  BY <1>1, Kept
<1>3. AckTypes' /\ outbound' \in Seq(Acks) /\ Len(outbound') <= ChannelSize
  <2>1. \/ TakeAck /\ ((CanSend /\ outbound' = Append(outbound, NewAck)) \/ outbound' = outbound)
        \/ UNCHANGED <<ackVars, outbound>>
    BY DEF LoopAck, DrainEnd
  <2>2. CASE TakeAck /\ ((CanSend /\ outbound' = Append(outbound, NewAck)) \/ outbound' = outbound)
    BY <2>2, TakeAckTypes, OutboundTypes
  <2>3. CASE UNCHANGED <<ackVars, outbound>>
    BY <1>0, <2>3, Kept DEF QueueTypes
  <2>4. QED
    BY <2>1, <2>2, <2>3
<1>4. CASE LoopAck
  <2>1. pc' \in {"read", "drain"} /\ pc # "sending"
    BY <1>4 DEF LoopAck
  <2>2. LoopTypes' /\ FlightIsOne'
    BY <1>1, <2>1, GoesOn DEF Places
  <2>3. UNCHANGED <<ct, rx_msg, local_token, registered, srv_conn>>
    BY <1>4 DEF LoopAck, resVars, connVars, srvVars
  <2>4. FlagTypes' /\ ResTypes' /\ ConnTypes'
    BY <1>1, <2>3, Kept
  <2>5. QueueTypes'
    BY <1>0, <1>1, <1>3, <2>3 DEF QueueTypes
  <2>6. QED
    BY <1>2, <1>3, <2>2, <2>4, <2>5 DEF TypeInv
<1>5. CASE DrainEnd
  <2>1. AfterDrain /\ pc = "drain" /\ srv_conn' = srv_conn
    BY <1>5 DEF DrainEnd, srvVars
  <2>2. pc' \in {"ack_complete", "done", "top"}
    BY <2>1 DEF AfterDrain, Return
  <2>3. LoopTypes' /\ FlightIsOne'
    BY <1>1, <2>1, <2>2, GoesOn DEF Places
  <2>4. local_token' \in {local_token, 0} /\ rx_msg' \in {rx_msg, <<>>}
    BY <2>1 DEF AfterDrain, Return
  <2>5. ct' \in BOOLEAN /\ registered' \in BOOLEAN
    <3>1. (ct' = ct \/ ct' = TRUE) /\ (registered' = registered \/ registered' = FALSE)
      BY <2>1, Zenon DEF AfterDrain, Return
    <3>2. QED
      BY <1>0, <3>1, Zenon DEF FlagTypes, ConnTypes
  <2>6. ResTypes'
    BY <1>0, <1>1, <2>4 DEF ResTypes
  <2>7. FlagTypes' /\ ConnTypes'
    BY <1>0, <1>1, <2>1, <2>5 DEF FlagTypes, ConnTypes
  <2>8. rx_msg' \in Seq(ServerMessages) /\ Len(rx_msg') <= ChannelSize
    <3>1. CASE rx_msg' = <<>>
      BY <1>0, <3>1
    <3>2. CASE rx_msg' = rx_msg
      BY <1>0, <3>2 DEF QueueTypes
    <3>3. QED
      BY <2>4, <3>1, <3>2
  <2>9. QueueTypes'
    BY <1>0, <1>1, <1>3, <2>8 DEF QueueTypes
  <2>10. QED
    BY <1>2, <1>3, <2>3, <2>6, <2>7, <2>9 DEF TypeInv
<1>6. QED
  BY <1>4, <1>5

\* The end of the close path keeps the types.
LEMMA CloseTypes == ASSUME TypeInv, CloseAnswered \/ CloseFailed PROVE TypeInv'
<1>0. AppTypes /\ FlagTypes /\ HistTypes
  BY DEF TypeInv
<1>1. /\ Return("done") /\ pc # "sending"
      /\ UNCHANGED <<rVars, app_chan, read_result, meta_chan, meta_open, close_cause, ackVars,
                     flight, ack_id_complete, resVars, epoch, up, shutdown, inbound, outbound,
                     srvVars, delivered, discarded, completed, close_wait>>
      /\ UNCHANGED <<wire_conn, srv_conn, resume_token, local_token, need_resume>>
  BY DEF CloseAnswered, CloseFailed, resVars, srvVars, histVars
<1>2. /\ LoopTypes' /\ FlightIsOne' /\ ConnTypes' /\ QueueTypes'
      /\ ct' \in BOOLEAN /\ close_cause' \in BOOLEAN
  BY <1>1, ReturnTypes
<1>3. RTypes' /\ AckTypes' /\ ResTypes' /\ SrvTypes'
  BY <1>1, Kept
<1>4. PICK r \in {"ok", "err"} : Reply(r)
  BY DEF CloseAnswered, CloseFailed
<1>5. tx_result' \in BOOLEAN
  BY <1>4, Zenon DEF Reply
<1>6. FlagTypes'
  BY <1>2, <1>5 DEF FlagTypes
<1>7. app' \in {app, "idle"} /\ close_result' \in {close_result, r}
  BY <1>4 DEF Reply
<1>8. AppTypes'
  BY <1>0, <1>1, <1>7 DEF AppTypes
<1>9. close_answered' \in BOOLEAN
  <2>1. close_answered' = TRUE \/ close_answered' = close_answered
    BY Zenon DEF CloseAnswered, CloseFailed, histVars
  <2>2. QED
    BY <1>0, <2>1, Zenon DEF HistTypes
<1>10. HistTypes'
  BY <1>0, <1>1, <1>9 DEF HistTypes
<1>11. QED
  BY <1>2, <1>3, <1>6, <1>8, <1>10 DEF TypeInv

\* The server sends a message.
LEMMA InboundTypes ==
    ASSUME TypeInv, NEW m \in ServerMessages, Len(inbound) < ChannelSize,
           inbound' = Append(inbound, m)
    PROVE  inbound' \in Seq(ServerMessages) /\ Len(inbound') <= ChannelSize
<1>0. inbound \in Seq(ServerMessages) /\ ChannelSize \in Nat
  BY DownstreamAssumption DEF TypeInv, QueueTypes
<1>1. /\ Append(inbound, m) \in Seq(ServerMessages)
      /\ Len(Append(inbound, m)) = Len(inbound) + 1 /\ Len(inbound) \in Nat
  BY <1>0, QueueOps, Zenon
<1>2. QED
  BY <1>0, <1>1

\* The connection and the server keep the types.
LEMMA EnvironmentTypes == ASSUME TypeInv, Environment PROVE TypeInv'
<1>0. /\ FlagTypes /\ ConnTypes /\ QueueTypes /\ SrvTypes /\ ChannelSize \in Nat
      /\ MaxMeta \in Nat /\ MaxConns \in Nat
  BY DownstreamAssumption DEF TypeInv
<1>1. /\ UNCHANGED <<rVars, appVars, close_cause, tx_result, ackVars, pc, flight,
                     ack_id_complete, resVars, histVars>>
  BY DEF Environment, ConnDown, Reconnect, ConnShutdown, ReadLoopRegister, ReadLoopDispatch,
         ServerSend, ServerResend, ServerMetadata, ServerAck, loopVars
<1>2. RTypes' /\ AppTypes' /\ AckTypes' /\ LoopTypes' /\ FlightIsOne' /\ ResTypes' /\ HistTypes'
  BY <1>1, Kept DEF resVars
<1>3. ASSUME FlagTypes', ConnTypes', QueueTypes', SrvTypes' PROVE TypeInv'
  BY <1>2, <1>3 DEF TypeInv
<1>4. CASE ConnDown
  <2>1. up' \in BOOLEAN /\ registered' \in BOOLEAN
    BY <1>4, Zenon DEF ConnDown
  <2>2. UNCHANGED <<epoch, wire_conn, srv_conn, shutdown, ct, close_cause, tx_result, rx_msg,
                    srvVars>>
    BY <1>4 DEF ConnDown, resVars, srvVars, loopVars
  <2>3. ConnTypes' /\ FlagTypes' /\ SrvTypes'
    BY <1>0, <2>1, <2>2, Kept DEF ConnTypes, FlagTypes
  <2>4. inbound' = <<>> /\ outbound' = <<>>
    BY <1>4 DEF ConnDown
  <2>5. QueueTypes'
    BY <1>0, <2>2, <2>4 DEF QueueTypes
  <2>6. QED
    BY <1>3, <2>3, <2>5
<1>5. CASE Reconnect
  <2>1. up' \in BOOLEAN
    BY <1>5, Zenon DEF Reconnect
  <2>2. UNCHANGED <<wire_conn, srv_conn, shutdown, registered>>
    BY <1>5 DEF Reconnect, resVars, srvVars
  <2>3. epoch' = epoch + 1 /\ epoch < MaxConns
    BY <1>5 DEF Reconnect
  <2>4. ConnTypes'
    BY <1>0, <2>1, <2>2, <2>3 DEF ConnTypes
  <2>5. FlagTypes' /\ QueueTypes' /\ SrvTypes'
    BY <1>5, Kept DEF Reconnect, loopVars
  <2>6. QED
    BY <1>3, <2>4, <2>5
<1>6. CASE ConnShutdown
  <2>1. shutdown' \in BOOLEAN /\ ct' \in BOOLEAN
    BY <1>6, Zenon DEF ConnShutdown
  <2>2. UNCHANGED <<epoch, wire_conn, srv_conn, up, registered, close_cause, tx_result>>
    BY <1>6 DEF ConnShutdown, resVars, srvVars
  <2>3. ConnTypes' /\ FlagTypes'
    BY <1>0, <2>1, <2>2 DEF ConnTypes, FlagTypes
  <2>4. QueueTypes' /\ SrvTypes'
    BY <1>6, Kept DEF ConnShutdown, loopVars
  <2>5. QED
    BY <1>3, <2>3, <2>4
<1>7. CASE ReadLoopRegister
  <2>1. registered' \in BOOLEAN
    BY <1>7, Zenon DEF ReadLoopRegister
  <2>2. UNCHANGED <<epoch, wire_conn, srv_conn, up, shutdown>>
    BY <1>7 DEF ReadLoopRegister, resVars, srvVars
  <2>3. ConnTypes'
    BY <1>0, <2>1, <2>2 DEF ConnTypes
  <2>4. FlagTypes' /\ QueueTypes' /\ SrvTypes'
    BY <1>7, Kept DEF ReadLoopRegister, loopVars
  <2>5. QED
    BY <1>3, <2>3, <2>4
<1>8. CASE ReadLoopDispatch
  <2>1. /\ inbound # <<>> /\ inbound' = Tail(inbound) /\ outbound' = outbound
        /\ \/ rx_msg' = rx_msg
           \/ rx_msg' = Append(rx_msg, Head(inbound)) /\ Len(rx_msg) < ChannelSize
    BY <1>8 DEF ReadLoopDispatch
  <2>2. rx_msg \in Seq(ServerMessages) /\ inbound \in Seq(ServerMessages)
    BY <1>0 DEF QueueTypes
  <2>3. /\ Head(inbound) \in ServerMessages /\ Tail(inbound) \in Seq(ServerMessages)
        /\ Len(Tail(inbound)) = Len(inbound) - 1 /\ Len(inbound) \in Nat
    BY <2>1, <2>2, QueueOps, Zenon
  <2>4. /\ Append(rx_msg, Head(inbound)) \in Seq(ServerMessages) /\ Len(rx_msg) \in Nat
        /\ Len(Append(rx_msg, Head(inbound))) = Len(rx_msg) + 1
    BY <2>2, <2>3, QueueOps, Zenon
  <2>5. rx_msg' \in Seq(ServerMessages) /\ Len(rx_msg') <= ChannelSize
    <3>1. CASE rx_msg' = rx_msg
      BY <1>0, <3>1 DEF QueueTypes
    <3>2. CASE rx_msg' = Append(rx_msg, Head(inbound)) /\ Len(rx_msg) < ChannelSize
      <4>1. rx_msg' \in Seq(ServerMessages) /\ Len(rx_msg') = Len(rx_msg) + 1
        BY <2>4, <3>2, Zenon
      <4>2. QED
        BY <1>0, <2>4, <3>2, <4>1
    <3>3. QED
      BY <2>1, <3>1, <3>2
  <2>6. Len(inbound') <= ChannelSize
    BY <1>0, <2>1, <2>3 DEF QueueTypes
  <2>7. QueueTypes'
    BY <1>0, <2>1, <2>3, <2>5, <2>6 DEF QueueTypes
  <2>8. FlagTypes' /\ ConnTypes' /\ SrvTypes'
    BY <1>8, Kept DEF ReadLoopDispatch, connVars, resVars, srvVars
  <2>9. QED
    BY <1>3, <2>7, <2>8
<1>9. CASE ServerSend \/ ServerResend \/ ServerMetadata
  <2>1. UNCHANGED <<ct, connVars, rx_msg, outbound, wire_conn, srv_conn, srv_resumes, srv_acked,
                    srv_alias>>
        /\ Len(inbound) < ChannelSize
    BY <1>9 DEF ServerSend, ServerResend, ServerMetadata, ServerReady, loopVars, resVars
  <2>2. FlagTypes' /\ ConnTypes'
    BY <1>1, <2>1, Kept DEF connVars
  <2>3. \E m \in ServerMessages : inbound' = Append(inbound, m)
    <3>1. srv_alias \in BOOLEAN
      BY <1>0 DEF SrvTypes
    <3>2. MetaMsg \in ServerMessages /\ \A n \in Chunks : ChunkMsg(n) \in ServerMessages
      <4>1. Chunks \subseteq Nat
        BY DEF Chunks
      <4>2. MetaMsg \in Messages /\ MetaMsg.type # "chunk"
        BY DEF MetaMsg, Messages
      <4>3. ASSUME NEW n \in Chunks PROVE ChunkMsg(n) \in Messages /\ ChunkMsg(n).n = n
        BY <3>1, <4>1 DEF ChunkMsg, Messages
      <4>4. QED
        BY <4>2, <4>3 DEF ServerMessages
    <3>3. srv_resend \subseteq Chunks
      BY <1>0 DEF SrvTypes
    <3>4. QED
      BY <1>9, <3>2, <3>3 DEF ServerSend, ServerResend, ServerMetadata
  <2>4. inbound' \in Seq(ServerMessages) /\ Len(inbound') <= ChannelSize
    BY <2>1, <2>3, InboundTypes
  <2>5. QueueTypes'
    BY <1>0, <2>1, <2>4 DEF QueueTypes
  <2>6. /\ srv_sent' \subseteq Chunks /\ srv_unacked' \subseteq Chunks
        /\ srv_resend' \subseteq Chunks /\ srv_meta' \in 0 .. MaxMeta
    BY <1>0, <1>9 DEF ServerSend, ServerResend, ServerMetadata, SrvTypes
  <2>7. SrvTypes'
    BY <1>0, <2>1, <2>6 DEF SrvTypes
  <2>8. QED
    BY <1>3, <2>2, <2>5, <2>7
<1>10. CASE ServerAck
  <2>1. outbound # <<>> /\ outbound' = Tail(outbound) /\ Len(inbound) < ChannelSize
    BY <1>10 DEF ServerAck
  <2>2. /\ Head(outbound) \in Acks /\ outbound' \in Seq(Acks)
        /\ Len(outbound') = Len(outbound) - 1 /\ Len(outbound) \in Nat
    <3>1. outbound \in Seq(Acks)
      BY <1>0 DEF QueueTypes
    <3>2. QED
      BY <2>1, <3>1, QueueOps, Zenon
  <2>3. /\ Head(outbound).results \subseteq Chunks /\ Head(outbound).id \in Nat
        /\ Head(outbound).alias \in BOOLEAN
    BY <2>2 DEF Acks
  <2>4. CompleteMsg(Head(outbound).id) \in ServerMessages
    BY <2>3 DEF CompleteMsg, ServerMessages, Messages
  <2>5. inbound' \in Seq(ServerMessages) /\ Len(inbound') <= ChannelSize
    BY <1>10, <2>1, <2>4, InboundTypes DEF ServerAck
  <2>6. rx_msg' = rx_msg /\ UNCHANGED <<ct, connVars, wire_conn, srv_conn, srv_resumes, srv_sent,
                                        srv_meta>>
    BY <1>10 DEF ServerAck, loopVars, resVars
  <2>7. QueueTypes'
    BY <1>0, <2>2, <2>5, <2>6 DEF QueueTypes
  <2>8. FlagTypes' /\ ConnTypes'
    BY <1>1, <2>6, Kept DEF connVars
  <2>9. srv_alias' \in BOOLEAN
    BY <1>10, Zenon DEF ServerAck
  <2>10. /\ srv_acked' \subseteq Chunks /\ srv_unacked' \subseteq Chunks
         /\ srv_resend' \subseteq Chunks
    BY <1>0, <1>10, <2>3 DEF ServerAck, SrvTypes
  <2>11. SrvTypes'
    BY <1>0, <2>6, <2>9, <2>10 DEF SrvTypes
  <2>12. QED
    BY <1>3, <2>7, <2>8, <2>11
<1>11. QED
  BY <1>4, <1>5, <1>6, <1>7, <1>8, <1>9, <1>10 DEF Environment

\* Every step keeps the types.
LEMMA TypeInvStep == TypeInv /\ [Next]_vars => TypeInv'
<1> SUFFICES ASSUME TypeInv, [Next]_vars PROVE TypeInv'
  OBVIOUS
<1>1. CASE Application
  BY <1>1, ApplicationTypes
<1>2. CASE ResumeSteps
  BY <1>2, ResumeTypes
<1>3. CASE LoopChunk \/ DrainChunk
  BY <1>3, TakeInTypes DEF LoopChunk, DrainChunk
<1>4. CASE LoopPop \/ LoopDeliver \/ LoopDeliverClosed \/ LoopPopNone \/ DrainPop
  BY <1>4, DeliverTypes
<1>5. CASE \/ LoopMetadata \/ MetadataSend \/ MetadataClosed \/ LoopComplete \/ LoopBreak
           \/ DrainMetadata \/ AckCompleteDiscard \/ AckCompleteDone \/ StoreCause
  BY <1>5, MessageTypes
<1>6. CASE LoopAck \/ DrainEnd
  BY <1>6, AckStepTypes
<1>7. CASE CloseAnswered \/ CloseFailed
  BY <1>7, CloseTypes
<1>8. CASE Environment
  BY <1>8, EnvironmentTypes
<1>9. CASE UNCHANGED vars
  <2>1. UNCHANGED <<rVars, appVars, ct, close_cause, tx_result, ackVars, loopVars, resVars,
                    connVars, inbound, outbound, srvVars, histVars>>
    BY <1>9 DEF vars
  <2>2. QED
    BY <2>1, Kept DEF loopVars, resVars, connVars, srvVars, TypeInv
<1>10. QED
  BY <1>1, <1>2, <1>3, <1>4, <1>5, <1>6, <1>7, <1>8, <1>9 DEF Next, Loop, ResumeSteps, Finished

\* The types hold at the start.
LEMMA TypeInvInit == Init => TypeInv
<1> SUFFICES ASSUME Init PROVE TypeInv
  OBVIOUS
<1> USE DownstreamAssumption
<1>1. RTypes
  <2>1. /\ reordering \in Modes /\ known = {} /\ next = [s \in {u} |-> 0]
        /\ store = [s \in {u} |-> {}] /\ current = {} /\ arrivals = 0
        /\ arrived = [s \in {u} |-> {}] /\ output = [s \in {u} |-> <<>>]
    BY DEF Init, R!Init
  <2>2. failed \in BOOLEAN /\ stopped \in BOOLEAN
    BY Zenon DEF Init, R!Init
  <2>3. QED
    BY <2>1, <2>2 DEF RTypes, R!TypeOK, R!SeqNumbers
<1>2. AppTypes
  <2>1. meta_open \in BOOLEAN
    BY Zenon DEF Init
  <2>2. app_chan = <<>> /\ app = "idle" /\ read_result = "none" /\ close_result = "none"
        /\ meta_chan = 0
    BY DEF Init
  <2>3. QED
    BY <2>1, <2>2 DEF AppTypes
<1>3. AckTypes
  <2>1. info_known \in BOOLEAN /\ info_for_ack \in BOOLEAN
    BY Zenon DEF Init
  <2>2. results = {} /\ last_ack = -1
    BY DEF Init
  <2>3. QED
    BY <2>1, <2>2 DEF AckTypes
<1>4. LoopTypes /\ FlightIsOne
  BY DEF Init, LoopTypes, FlightIsOne
<1>5. ResTypes
  <2>1. need_resume \in BOOLEAN
    BY Zenon DEF Init
  <2>2. resume_token = 1 /\ local_token = 0
    BY DEF Init
  <2>3. QED
    BY <2>1, <2>2 DEF ResTypes
<1>6. ConnTypes
  <2>1. up \in BOOLEAN /\ shutdown \in BOOLEAN /\ registered \in BOOLEAN
    BY Zenon DEF Init
  <2>2. epoch = 1 /\ wire_conn = 1 /\ srv_conn = 1
    BY DEF Init
  <2>3. QED
    BY <2>1, <2>2 DEF ConnTypes
<1>7. FlagTypes
  BY Zenon DEF Init, FlagTypes
<1>8. QueueTypes
  <2>1. rx_msg = <<>> /\ inbound = <<>> /\ outbound = <<>>
    BY DEF Init
  <2>2. QED
    BY <2>1 DEF QueueTypes
<1>9. SrvTypes
  <2>1. srv_alias \in BOOLEAN
    BY Zenon DEF Init
  <2>2. /\ srv_resumes = 0 /\ srv_meta = 0 /\ srv_sent = {} /\ srv_unacked = {}
        /\ srv_resend = {} /\ srv_acked = {}
    BY DEF Init
  <2>3. QED
    BY <2>1, <2>2 DEF SrvTypes
<1>10. HistTypes
  <2>1. close_answered \in BOOLEAN
    BY Zenon DEF Init
  <2>2. delivered = {} /\ discarded = {} /\ completed = {} /\ close_wait = "none"
    BY DEF Init
  <2>3. QED
    BY <2>1, <2>2 DEF HistTypes
<1>11. QED
  BY <1>1, <1>2, <1>3, <1>4, <1>5, <1>6, <1>7, <1>8, <1>9, <1>10 DEF TypeInv

\* The types hold always.
LEMMA AlwaysTyped == Spec => []TypeInv
  BY TypeInvInit, TypeInvStep, PTL DEF Spec

\* Every variable keeps its type, no channel exceeds its capacity, and one chunk,
\* not more, waits for room where the loop waits for it.
THEOREM TypeCorrect == Spec => []TypeOK
  BY AlwaysTyped, TypesAgree, PTL

-----------------------------------------------------------------------------
(* The resume token *)

\* What the steps do to the tokens.
LEMMA TokenStep == TypeInv /\ TokenKept /\ [Next]_vars => TokenKept'
<1> SUFFICES ASSUME TypeInv, TokenKept, [Next]_vars PROVE TokenKept'
  OBVIOUS
<1>1. CASE ResumeTakeToken
  <2>1. /\ pc' = "request" /\ need_resume /\ need_resume' = need_resume
        /\ IF local_token = 0 THEN local_token' = resume_token /\ resume_token' = 0
                              ELSE UNCHANGED <<local_token, resume_token>>
    BY <1>1 DEF ResumeTakeToken
  <2>2. QED
    BY <2>1 DEF TokenKept
<1>2. CASE ResumeOk
  <2>1. resume_token' = srv_resumes' + 1 /\ pc' = "top" /\ need_resume' = FALSE
    BY <1>2 DEF ResumeOk
  <2>2. srv_resumes' \in Nat
    BY TypeInvStep DEF TypeInv, SrvTypes
  <2>a. \A n \in Nat : n + 1 # 0
    OBVIOUS
  <2>3. resume_token' # 0
    BY <2>1, <2>2, <2>a, Zenon
  <2>4. QED
    BY <2>1, <2>3 DEF TokenKept
<1>3. CASE ResumeRetry
  BY <1>3 DEF ResumeRetry, TokenKept, resVars
<1>4. CASE ResumeGaveUp \/ CloseAnswered \/ CloseFailed \/ StoreCause
  <2>1. pc' = "done" /\ UNCHANGED <<resume_token, local_token, need_resume>>
    BY <1>4 DEF ResumeGaveUp, CloseAnswered, CloseFailed, StoreCause, Return, resVars
  <2>2. QED
    BY <2>1 DEF TokenKept
<1>5. CASE GetUpdated
  BY <1>5 DEF GetUpdated, TokenKept, loopVars
<1>6. CASE AddDownstream
  BY <1>6 DEF AddDownstream, TokenKept, resVars
<1>7. CASE LoopChunk \/ DrainChunk
  <2>1. /\ pc \in {"read", "drain"} /\ pc' # "request"
        /\ UNCHANGED <<resume_token, local_token, need_resume>>
    BY <1>7 DEF LoopChunk, DrainChunk, TakeIn, Return, resVars
  <2>2. QED
    BY <2>1 DEF TokenKept
<1>8. CASE \/ LoopPop \/ LoopDeliver \/ LoopDeliverClosed \/ LoopPopNone
           \/ LoopMetadata \/ MetadataSend \/ MetadataClosed \/ LoopBreak \/ LoopAck
           \/ AckCompleteDone
  <2>1. /\ pc \notin {"top", "request", "failed", "done"} /\ pc' # "request"
        /\ UNCHANGED <<resume_token, local_token, need_resume>>
    BY <1>8 DEF LoopPop, LoopDeliver, LoopDeliverClosed, LoopPopNone, LoopMetadata, MetadataSend,
       MetadataClosed, LoopBreak, LoopAck, AckCompleteDone, resVars
  <2>2. QED
    BY <2>1 DEF TokenKept
<1>9. CASE DrainEnd
  <2>1. /\ pc = "drain" /\ pc' \in {"ack_complete", "done", "top"}
        /\ UNCHANGED <<resume_token, need_resume>>
    BY <1>9 DEF DrainEnd, AfterDrain, Return
  <2>2. QED
    BY <2>1 DEF TokenKept
<1>10. CASE UNCHANGED <<pc, resume_token, local_token, need_resume>>
  BY <1>10 DEF TokenKept
<1>11. CASE LoopComplete \/ DrainPop \/ DrainMetadata \/ AckCompleteDiscard
  <2>1. UNCHANGED <<pc, resume_token, local_token, need_resume>>
    BY <1>11 DEF LoopComplete, DrainPop, DrainMetadata, AckCompleteDiscard, resVars, loopVars
  <2>2. QED
    BY <1>10, <2>1
<1>12. CASE Application
  <2>1. UNCHANGED <<pc, resume_token, local_token, need_resume>>
    BY <1>12 DEF Application, ReadChunk, ReadEnd, CloseCall, CloseTimeout, DropDownstream,
       ReadMetadata, DropMetadataReader, resVars, loopVars
  <2>2. QED
    BY <1>10, <2>1
<1>13. CASE Environment
  <2>1. UNCHANGED <<pc, resume_token, local_token, need_resume>>
    BY <1>13 DEF Environment, ConnDown, Reconnect, ConnShutdown, ReadLoopRegister,
       ReadLoopDispatch, ServerSend, ServerResend, ServerMetadata, ServerAck, resVars, loopVars
  <2>2. QED
    BY <1>10, <2>1
<1>14. CASE UNCHANGED vars
  BY <1>10, <1>14 DEF vars, resVars, loopVars
<1>15. QED
  BY <1>1, <1>2, <1>3, <1>4, <1>5, <1>6, <1>7, <1>8, <1>9, <1>11, <1>12, <1>13, <1>14
     DEF Next, Loop, Finished

\* Every resume request carries a resume token, after any sequence of failed and
\* successful resumes: the token that was taken is kept for the retries, and the
\* response puts the next one in its place.
THEOREM TokenPresented == Spec => []ResumeTokenPresented
<1>1. Init => TokenKept
  <2>1. SUFFICES ASSUME Init PROVE TokenKept
    OBVIOUS
  <2>2. pc = "top" /\ resume_token = 1
    BY <2>1 DEF Init
  <2>3. QED
    BY <2>2 DEF TokenKept
<1>2. TokenKept => ResumeTokenPresented
  BY DEF TokenKept, ResumeTokenPresented
<1>3. QED
  BY <1>1, <1>2, AlwaysTyped, TokenStep, PTL DEF Spec

-----------------------------------------------------------------------------
(* The acks *)

\* Appending adds an element, taking the head leaves the others.
LEMMA QueueRange ==
    ASSUME NEW S, NEW q \in Seq(S)
    PROVE  /\ \A x : x \in Range(q) <=> \E i \in 1 .. Len(q) : q[i] = x
           /\ \A x \in S : Range(Append(q, x)) = Range(q) \cup {x}
           /\ q # <<>> => Head(q) \in Range(q) /\ Range(Tail(q)) \subseteq Range(q)
           /\ Range(<<>>) = {}
<1>1. DOMAIN q = 1 .. Len(q) /\ Len(q) \in Nat
  OBVIOUS
<1>2. \A x : x \in Range(q) <=> \E i \in 1 .. Len(q) : q[i] = x
  BY <1>1 DEF Range
<1>3. ASSUME NEW x \in S PROVE Range(Append(q, x)) = Range(q) \cup {x}
  <2>1. /\ DOMAIN Append(q, x) = 1 .. Len(q) + 1
        /\ \A i \in 1 .. Len(q) : Append(q, x)[i] = q[i]
        /\ Append(q, x)[Len(q) + 1] = x
    OBVIOUS
  <2>2. 1 .. Len(q) + 1 = (1 .. Len(q)) \cup {Len(q) + 1}
    BY <1>1
  <2>3. QED
    BY <1>1, <2>1, <2>2 DEF Range
<1>4. ASSUME q # <<>> PROVE Head(q) \in Range(q) /\ Range(Tail(q)) \subseteq Range(q)
  <2>1. /\ Len(q) >= 1 /\ Head(q) = q[1]
        /\ DOMAIN Tail(q) = 1 .. Len(q) - 1
        /\ \A i \in 1 .. Len(q) - 1 : Tail(q)[i] = q[i + 1]
    BY <1>4
  <2>2. Head(q) \in Range(q)
    BY <1>1, <2>1 DEF Range
  <2>3. ASSUME NEW x \in Range(Tail(q)) PROVE x \in Range(q)
    <3>1. PICK i \in 1 .. Len(q) - 1 : x = Tail(q)[i]
      BY <2>1, <2>3 DEF Range
    <3>2. i + 1 \in 1 .. Len(q) /\ x = q[i + 1]
      BY <1>1, <2>1, <3>1
    <3>3. QED
      BY <1>1, <3>2 DEF Range
  <2>4. QED
    BY <2>2, <2>3
<1>5. Range(<<>>) = {}
  BY DEF Range
<1>6. QED
  BY <1>2, <1>3, <1>4, <1>5

\* The step adds nothing to what is recorded, sent or acknowledged.
Quiet ==
    /\ UNCHANGED <<results, outbound, srv_acked, arrived, info_known, info_for_ack, srv_alias,
                   inbound>>
    /\ \/ rx_msg' = rx_msg \/ rx_msg' = <<>>
       \/ rx_msg # <<>> /\ rx_msg' = Tail(rx_msg)
    /\ pc \in {"failed", "done"} => pc' \in {"failed", "done"}

\* A chunk is recorded and given to the reorderer, whose refusal ends the stream.
TakesChunk ==
    /\ pc \in {"read", "drain"}
    /\ rx_msg # <<>> /\ Head(rx_msg).type = "chunk" /\ rx_msg' \in {Tail(rx_msg), <<>>}
    /\ Convert(Head(rx_msg).n) /\ R!Iter(u, Head(rx_msg).n)
    /\ failed' => pc' = "failed"
    /\ UNCHANGED <<outbound, srv_acked, srv_alias, inbound>>

\* An ack is taken, and sent or lost.
SendsAck ==
    /\ pc \in {"read", "drain"} /\ TakeAck
    /\ \/ outbound' = Append(outbound, NewAck)
       \/ outbound' = outbound
    /\ rx_msg' \in {rx_msg, <<>>}
    /\ UNCHANGED <<srv_acked, arrived, srv_alias, inbound>>

\* The connection breaks, and what was on it is lost.
Breaks ==
    /\ inbound' = <<>> /\ outbound' = <<>>
    /\ UNCHANGED <<pc, results, srv_acked, arrived, info_known, info_for_ack, srv_alias, rx_msg>>

\* A message goes from the server to the stream.
Moves ==
    /\ inbound # <<>> /\ inbound' = Tail(inbound)
    /\ rx_msg' \in {rx_msg, Append(rx_msg, Head(inbound))}
    /\ UNCHANGED <<pc, results, srv_acked, arrived, info_known, info_for_ack, srv_alias, outbound>>

\* The server sends a message; after the ack of a new alias it uses the alias.
ServerMoves ==
    /\ \E m \in ServerMessages : /\ inbound' = Append(inbound, m) /\ (m.alias => srv_alias)
    /\ \/ UNCHANGED <<outbound, srv_acked, srv_alias>>
       \/ /\ outbound # <<>> /\ outbound' = Tail(outbound)
          /\ srv_acked' = srv_acked \cup Head(outbound).results
          /\ srv_alias' = (srv_alias \/ Head(outbound).alias)
    /\ UNCHANGED <<pc, results, arrived, info_known, info_for_ack, rx_msg>>

\* Every step is one of these, as far as the acks are concerned.
LEMMA AckSteps ==
    ASSUME TypeInv, [Next]_vars
    PROVE  Quiet \/ TakesChunk \/ SendsAck \/ Breaks \/ Moves \/ ServerMoves
<1>1. CASE Application
  <2>1. Quiet
    BY <1>1 DEF Application, ReadChunk, ReadEnd, CloseCall, CloseTimeout, DropDownstream,
       ReadMetadata, DropMetadataReader, loopVars, ackVars, srvVars, rVars, Quiet
  <2>2. QED
    BY <2>1
<1>2. CASE ResumeSteps
  <2>1. UNCHANGED <<results, outbound, arrived, info_known, info_for_ack, inbound>>
    BY <1>2 DEF ResumeSteps, ResumeTakeToken, ResumeOk, ResumeRetry, ResumeGaveUp, GetUpdated,
       AddDownstream, ackVars, rVars
  <2>2. UNCHANGED <<srv_acked, srv_alias>>
    BY <1>2 DEF ResumeSteps, ResumeTakeToken, ResumeOk, ResumeRetry, ResumeGaveUp, GetUpdated,
       AddDownstream, srvVars, ServerResume
  <2>3. rx_msg' \in {rx_msg, <<>>} /\ pc \in {"top", "request"}
    BY <1>2 DEF ResumeSteps, ResumeTakeToken, ResumeOk, ResumeRetry, ResumeGaveUp, GetUpdated,
       AddDownstream, loopVars, Return
  <2>4. QED
    BY <2>1, <2>2, <2>3 DEF Quiet
<1>3. CASE LoopChunk \/ DrainChunk
  <2>1. PICK place \in {"deliver", "drain_deliver"} : TakeIn(place) /\ pc \in {"read", "drain"}
    BY <1>3 DEF LoopChunk, DrainChunk
  <2>2. /\ rx_msg # <<>> /\ Head(rx_msg).type = "chunk"
        /\ UNCHANGED <<outbound, srv_acked, srv_alias, inbound>>
    BY <2>1 DEF TakeIn, Received, srvVars
  <2>3. CASE Resolvable(Head(rx_msg))
    BY <2>1, <2>2, <2>3 DEF TakeIn, TakesChunk, Return
  <2>4. CASE ~Resolvable(Head(rx_msg))
    BY <2>1, <2>2, <2>4 DEF TakeIn, Quiet, rVars, ackVars
  <2>5. QED
    BY <2>3, <2>4
<1>4. CASE LoopPop \/ LoopDeliver \/ LoopDeliverClosed \/ LoopPopNone \/ DrainPop
  <2>1. arrived' = arrived
    BY <1>4 DEF LoopPop, LoopDeliver, LoopDeliverClosed, LoopPopNone, DrainPop, rVars, R!Pop,
       R!PopNone, R!Break
  <2>2. /\ UNCHANGED <<results, outbound, srv_acked, info_known, info_for_ack, srv_alias,
                       inbound, rx_msg>>
        /\ pc \notin {"failed", "done"}
    BY <1>4 DEF LoopPop, LoopDeliver, LoopDeliverClosed, LoopPopNone, DrainPop, ackVars, srvVars,
       loopVars
  <2>3. QED
    BY <2>1, <2>2 DEF Quiet
<1>5. CASE \/ LoopMetadata \/ MetadataSend \/ MetadataClosed \/ LoopComplete \/ LoopBreak
           \/ DrainMetadata \/ AckCompleteDiscard \/ AckCompleteDone \/ StoreCause
  <2>1. UNCHANGED <<results, outbound, srv_acked, arrived, info_known, info_for_ack, srv_alias,
                    inbound>>
    BY <1>5 DEF LoopMetadata, MetadataSend, MetadataClosed, LoopComplete, LoopBreak,
       DrainMetadata, AckCompleteDiscard, AckCompleteDone, StoreCause, rVars, ackVars, srvVars
  <2>2. rx_msg' = rx_msg \/ (rx_msg # <<>> /\ rx_msg' = Tail(rx_msg))
    BY <1>5 DEF LoopMetadata, MetadataSend, MetadataClosed, LoopComplete, LoopBreak,
       DrainMetadata, AckCompleteDiscard, AckCompleteDone, StoreCause, Complete, Received
  <2>3. pc \in {"failed", "done"} => pc' \in {"failed", "done"}
    BY <1>5 DEF LoopMetadata, MetadataSend, MetadataClosed, LoopComplete, LoopBreak,
       DrainMetadata, AckCompleteDiscard, AckCompleteDone, StoreCause
  <2>4. QED
    BY <2>1, <2>2, <2>3 DEF Quiet
<1>6. CASE LoopAck \/ DrainEnd
  <2>1. pc \in {"read", "drain"} /\ UNCHANGED <<srv_acked, arrived, srv_alias, inbound>>
    BY <1>6 DEF LoopAck, DrainEnd, srvVars, rVars
  <2>2. rx_msg' \in {rx_msg, <<>>}
    BY <1>6 DEF LoopAck, DrainEnd, AfterDrain, Return
  <2>3. \/ TakeAck /\ (outbound' = Append(outbound, NewAck) \/ outbound' = outbound)
        \/ UNCHANGED <<ackVars, outbound>>
    BY <1>6 DEF LoopAck, DrainEnd
  <2>4. QED
    BY <2>1, <2>2, <2>3 DEF Quiet, SendsAck, ackVars
<1>7. CASE CloseAnswered \/ CloseFailed
  <2>1. UNCHANGED <<results, outbound, srv_acked, arrived, info_known, info_for_ack, srv_alias,
                    inbound>> /\ rx_msg' = <<>> /\ pc' = "done"
    BY <1>7 DEF CloseAnswered, CloseFailed, Return, rVars, ackVars, srvVars
  <2>2. QED
    BY <2>1 DEF Quiet
<1>8. CASE ConnDown
  BY <1>8 DEF ConnDown, Breaks, rVars, ackVars, srvVars, loopVars
<1>9. CASE Reconnect \/ ConnShutdown \/ ReadLoopRegister
  BY <1>9 DEF Reconnect, ConnShutdown, ReadLoopRegister, Quiet, rVars, ackVars, srvVars, loopVars
<1>10. CASE ReadLoopDispatch
  BY <1>10 DEF ReadLoopDispatch, Moves, rVars, ackVars, srvVars
<1>11. CASE ServerSend \/ ServerResend \/ ServerMetadata
  <2>1. UNCHANGED <<outbound, srv_acked, srv_alias, pc, results, arrived, info_known,
                    info_for_ack, rx_msg>>
    BY <1>11 DEF ServerSend, ServerResend, ServerMetadata, rVars, ackVars, loopVars
  <2>2. srv_alias \in BOOLEAN /\ srv_resend \subseteq Chunks
    BY DEF TypeInv, SrvTypes
  <2>3. /\ MetaMsg \in ServerMessages /\ ~MetaMsg.alias
        /\ \A n \in Chunks : ChunkMsg(n) \in ServerMessages /\ ChunkMsg(n).alias = srv_alias
    <3>1. Chunks \subseteq Nat
      BY DEF Chunks
    <3>2. MetaMsg \in Messages /\ MetaMsg.type # "chunk" /\ ~MetaMsg.alias
      BY DEF MetaMsg, Messages
    <3>3. ASSUME NEW n \in Chunks
          PROVE  ChunkMsg(n) \in Messages /\ ChunkMsg(n).n = n /\ ChunkMsg(n).alias = srv_alias
      BY <2>2, <3>1 DEF ChunkMsg, Messages
    <3>4. QED
      BY <3>2, <3>3 DEF ServerMessages
  <2>4. \/ inbound' = Append(inbound, MetaMsg)
        \/ \E n \in Chunks : inbound' = Append(inbound, ChunkMsg(n))
    BY <1>11, <2>2 DEF ServerSend, ServerResend, ServerMetadata
  <2>5. \E m \in ServerMessages : inbound' = Append(inbound, m) /\ (m.alias => srv_alias)
    BY <2>3, <2>4
  <2>6. QED
    BY <2>1, <2>5 DEF ServerMoves
<1>12. CASE ServerAck
  <2>1. Head(outbound) \in Acks
    BY <1>12, QueueOps DEF ServerAck, TypeInv, QueueTypes
  <2> DEFINE m == CompleteMsg(Head(outbound).id)
  <2>2. m \in ServerMessages /\ ~m.alias
    BY <2>1 DEF CompleteMsg, ServerMessages, Messages, Acks
  <2>3. inbound' = Append(inbound, m)
    BY <1>12 DEF ServerAck
  <2> HIDE DEF m
  <2>4. \E mm \in ServerMessages : inbound' = Append(inbound, mm) /\ (mm.alias => srv_alias)
    BY <2>2, <2>3
  <2>5. UNCHANGED <<pc, results, arrived, info_known, info_for_ack, rx_msg>>
    BY <1>12 DEF ServerAck, rVars, ackVars, loopVars
  <2>6. QED
    BY <1>12, <2>4, <2>5 DEF ServerAck, ServerMoves
<1>13. CASE UNCHANGED vars
  BY <1>13 DEF vars, Quiet, rVars, ackVars, srvVars, loopVars
<1>14. QED
  BY <1>1, <1>2, <1>3, <1>4, <1>5, <1>6, <1>7, <1>8, <1>9, <1>10, <1>11, <1>12, <1>13
     DEF Next, Loop, Environment, ResumeSteps, Finished

\* The reorderer forgets no chunk it took in, and takes one in unless it fails.
LEMMA IterArrived ==
    ASSUME TypeInv, NEW n \in Chunks, R!Iter(u, n)
    PROVE  arrived[u] \subseteq arrived'[u] /\ (~failed' => n \in arrived'[u])
<1>1. arrived \in [{u} -> SUBSET R!SeqNumbers]
  BY DEF TypeInv, RTypes, R!TypeOK
<1>2. CASE R!Rejects(u, n)
  BY <1>1, <1>2 DEF R!Iter
<1>3. CASE ~R!Rejects(u, n)
  <2>1. arrived' = [arrived EXCEPT ![u] = @ \cup {n}]
    BY <1>3 DEF R!Iter
  <2>2. arrived'[u] = arrived[u] \cup {n}
    BY <1>1, <2>1
  <2>3. QED
    BY <2>2
<1>4. QED
  BY <1>2, <1>3

\* What the server is told stays true.
LEMMA RecordedStep ==
    ASSUME TypeInv, RecordedWasTaken, [Next]_vars PROVE RecordedWasTaken'
<1>0. /\ rx_msg \in Seq(ServerMessages) /\ inbound \in Seq(ServerMessages)
      /\ outbound \in Seq(Acks)
  BY DEF TypeInv, QueueTypes
<1>1. CASE Quiet
  <2>1. /\ UNCHANGED <<results, outbound, srv_acked, arrived>>
        /\ pc \in {"failed", "done"} => pc' \in {"failed", "done"}
    BY <1>1 DEF Quiet
  <2>2. QED
    BY <2>1 DEF RecordedWasTaken
<1>2. CASE TakesChunk
  <2>1. Head(rx_msg).n \in Chunks
    <3>1. Head(rx_msg) \in ServerMessages
      BY <1>0, <1>2, QueueOps, Zenon DEF TakesChunk
    <3>2. QED
      BY <1>2, <3>1 DEF TakesChunk, ServerMessages
  <2>2. /\ arrived[u] \subseteq arrived'[u]
        /\ ~failed' => Head(rx_msg).n \in arrived'[u]
    BY <1>2, <2>1, IterArrived, Zenon DEF TakesChunk
  <2>3. results' = results \cup {Head(rx_msg).n} /\ outbound' = outbound /\ srv_acked' = srv_acked
    BY <1>2 DEF TakesChunk, Convert, AddSequenceNumber
  <2>4. results \subseteq arrived[u]
    BY <1>2 DEF TakesChunk, RecordedWasTaken
  <2>5. pc' \notin {"failed", "done"} => results' \subseteq arrived'[u]
    <3>1. pc' \notin {"failed", "done"} => ~failed'
      BY <1>2 DEF TakesChunk
    <3>2. QED
      BY <2>2, <2>3, <2>4, <3>1, Zenon
  <2>6. \A a \in Range(outbound') : a.results \subseteq arrived'[u]
    BY <2>2, <2>3 DEF RecordedWasTaken
  <2>7. srv_acked' \subseteq arrived'[u]
    BY <2>2, <2>3 DEF RecordedWasTaken
  <2>8. QED
    BY <2>5, <2>6, <2>7 DEF RecordedWasTaken
<1>3. CASE SendsAck
  <2>1. results' = {} /\ UNCHANGED <<srv_acked, arrived>>
    BY <1>3 DEF SendsAck, TakeAck
  <2>2. \A a \in Range(outbound') : a.results \subseteq arrived[u]
    <3>1. CASE outbound' = outbound
      BY <3>1 DEF RecordedWasTaken
    <3>2. CASE outbound' = Append(outbound, NewAck)
      <4>1. NewAck \in Acks /\ NewAck.results = results
        <5>1. results \subseteq Chunks /\ last_ack \in Nat \cup {-1} /\ info_for_ack \in BOOLEAN
          BY DEF TypeInv, AckTypes
        <5>2. last_ack + 1 \in Nat
          BY <5>1
        <5>3. QED
          BY <5>1, <5>2 DEF NewAck, Acks
      <4>2. Range(outbound') = Range(outbound) \cup {NewAck}
        BY <1>0, <3>2, <4>1, QueueRange, Zenon
      <4>3. results \subseteq arrived[u]
        BY <1>3 DEF SendsAck, RecordedWasTaken
      <4>4. QED
        BY <4>1, <4>2, <4>3 DEF RecordedWasTaken
    <3>3. QED
      BY <1>3, <3>1, <3>2 DEF SendsAck
  <2>3. QED
    BY <2>1, <2>2 DEF RecordedWasTaken
<1>4. CASE Breaks
  <2>1. Range(outbound') = {} /\ UNCHANGED <<pc, results, srv_acked, arrived>>
    BY <1>0, <1>4, QueueRange, Zenon DEF Breaks
  <2>2. QED
    BY <2>1 DEF RecordedWasTaken
<1>5. CASE Moves
  BY <1>5 DEF Moves, RecordedWasTaken
<1>6. CASE ServerMoves
  <2>1. CASE UNCHANGED <<outbound, srv_acked>>
    BY <1>6, <2>1 DEF ServerMoves, RecordedWasTaken
  <2>2. CASE /\ outbound # <<>> /\ outbound' = Tail(outbound)
             /\ srv_acked' = srv_acked \cup Head(outbound).results
    <3>1. Head(outbound) \in Range(outbound) /\ Range(outbound') \subseteq Range(outbound)
      BY <1>0, <2>2, QueueRange, Zenon
    <3>2. QED
      BY <1>6, <2>2, <3>1 DEF ServerMoves, RecordedWasTaken
  <2>3. QED
    BY <1>6, <2>1, <2>2 DEF ServerMoves
<1>7. QED
  BY <1>1, <1>2, <1>3, <1>4, <1>5, <1>6, AckSteps

\* No message uses an alias that is not known.
LEMMA AliasStep ==
    ASSUME TypeInv, AliasKnownFirst, [Next]_vars PROVE AliasKnownFirst'
<1>0. /\ rx_msg \in Seq(ServerMessages) /\ inbound \in Seq(ServerMessages)
      /\ outbound \in Seq(Acks)
  BY DEF TypeInv, QueueTypes
<1>a. rx_msg' \in {rx_msg, <<>>} \/ (rx_msg # <<>> /\ rx_msg' = Tail(rx_msg))
        => Range(rx_msg') \subseteq Range(rx_msg)
  <2>1. CASE rx_msg' = <<>>
    BY <1>0, <2>1, QueueRange, Zenon
  <2>2. CASE rx_msg # <<>> /\ rx_msg' = Tail(rx_msg)
    BY <1>0, <2>2, QueueRange, Zenon
  <2>3. QED
    BY <2>1, <2>2
<1>1. CASE Quiet
  <2>1. Range(rx_msg') \subseteq Range(rx_msg)
    BY <1>1, <1>a DEF Quiet
  <2>2. UNCHANGED <<outbound, inbound, info_known, info_for_ack, srv_alias>>
    BY <1>1 DEF Quiet
  <2>3. QED
    BY <2>1, <2>2 DEF AliasKnownFirst
<1>2. CASE TakesChunk
  <2>1. info_known' = TRUE
    BY <1>2 DEF TakesChunk, Convert, AddUpstreamInfo
  <2>2. QED
    BY <2>1 DEF AliasKnownFirst
<1>3. CASE SendsAck
  <2>1. /\ info_for_ack' = FALSE /\ UNCHANGED <<info_known, srv_alias, inbound>>
        /\ rx_msg' \in {rx_msg, <<>>}
    BY <1>3 DEF SendsAck, TakeAck
  <2>2. Range(rx_msg') \subseteq Range(rx_msg)
    BY <1>a, <2>1
  <2>3. \A a \in Range(outbound') : a.alias => info_known
    <3>1. CASE outbound' = outbound
      BY <3>1 DEF AliasKnownFirst
    <3>2. CASE outbound' = Append(outbound, NewAck)
      <4>1. NewAck \in Acks /\ NewAck.alias = info_for_ack
        <5>1. results \subseteq Chunks /\ last_ack \in Nat \cup {-1} /\ info_for_ack \in BOOLEAN
          BY DEF TypeInv, AckTypes
        <5>2. last_ack + 1 \in Nat
          BY <5>1
        <5>3. QED
          BY <5>1, <5>2 DEF NewAck, Acks
      <4>2. Range(outbound') = Range(outbound) \cup {NewAck}
        BY <1>0, <3>2, <4>1, QueueRange, Zenon
      <4>3. QED
        BY <4>1, <4>2 DEF AliasKnownFirst
    <3>3. QED
      BY <1>3, <3>1, <3>2 DEF SendsAck
  <2>4. QED
    BY <2>1, <2>2, <2>3 DEF AliasKnownFirst
<1>4. CASE Breaks
  <2>1. /\ Range(outbound') = {} /\ Range(inbound') = {}
        /\ UNCHANGED <<info_known, info_for_ack, srv_alias, rx_msg>>
    BY <1>0, <1>4, QueueRange, Zenon DEF Breaks
  <2>2. QED
    BY <2>1 DEF AliasKnownFirst
<1>5. CASE Moves
  <2>1. inbound # <<>> /\ inbound' = Tail(inbound)
    BY <1>5 DEF Moves
  <2>2. Head(inbound) \in Range(inbound) /\ Range(inbound') \subseteq Range(inbound)
    BY <1>0, <2>1, QueueRange, Zenon
  <2>3. Head(inbound) \in ServerMessages
    BY <1>0, <2>1, QueueOps, Zenon
  <2>4. Range(rx_msg') \subseteq Range(rx_msg) \cup Range(inbound)
    <3>1. CASE rx_msg' = rx_msg
      BY <3>1
    <3>2. CASE rx_msg' = Append(rx_msg, Head(inbound))
      <4>1. Range(rx_msg') = Range(rx_msg) \cup {Head(inbound)}
        BY <1>0, <2>3, <3>2, QueueRange, Zenon
      <4>2. QED
        BY <2>2, <4>1
    <3>3. QED
      BY <1>5, <3>1, <3>2 DEF Moves
  <2>5. UNCHANGED <<info_known, info_for_ack, srv_alias, outbound>>
    BY <1>5 DEF Moves
  <2>6. QED
    BY <2>2, <2>4, <2>5 DEF AliasKnownFirst
<1>6. CASE ServerMoves
  <2>1. PICK m \in ServerMessages : inbound' = Append(inbound, m) /\ (m.alias => srv_alias)
    BY <1>6 DEF ServerMoves
  <2>2. Range(inbound') = Range(inbound) \cup {m}
    BY <1>0, <2>1, QueueRange, Zenon
  <2>3. UNCHANGED <<info_known, info_for_ack, rx_msg>>
    BY <1>6 DEF ServerMoves
  <2>4. Range(outbound') \subseteq Range(outbound) /\ (srv_alias' => info_known)
    <3>1. CASE UNCHANGED <<outbound, srv_alias>>
      BY <3>1 DEF AliasKnownFirst
    <3>2. CASE /\ outbound # <<>> /\ outbound' = Tail(outbound)
               /\ srv_alias' = (srv_alias \/ Head(outbound).alias)
      <4>1. Head(outbound) \in Range(outbound) /\ Range(outbound') \subseteq Range(outbound)
        BY <1>0, <3>2, QueueRange, Zenon
      <4>2. QED
        BY <3>2, <4>1 DEF AliasKnownFirst
    <3>3. QED
      BY <1>6, <3>1, <3>2 DEF ServerMoves
  <2>5. \A mm \in Range(inbound') \cup Range(rx_msg') : mm.alias => info_known
    BY <2>1, <2>2, <2>3, Zenon DEF AliasKnownFirst
  <2>6. QED
    BY <2>3, <2>4, <2>5 DEF AliasKnownFirst
<1>7. QED
  BY <1>1, <1>2, <1>3, <1>4, <1>5, <1>6, AckSteps

\* At the beginning nothing is recorded, and nothing is on its way.
LEMMA AckInit == Init => RecordedWasTaken /\ AliasKnownFirst
<1> SUFFICES ASSUME Init PROVE RecordedWasTaken /\ AliasKnownFirst
  OBVIOUS
<1>1. /\ results = {} /\ outbound = <<>> /\ inbound = <<>> /\ rx_msg = <<>> /\ srv_acked = {}
      /\ ~info_for_ack /\ ~srv_alias
  BY DEF Init
<1>2. Range(<<>>) = {}
  BY DEF Range
<1>3. RecordedWasTaken
  BY <1>1, <1>2 DEF RecordedWasTaken
<1>4. AliasKnownFirst
  BY <1>1, <1>2 DEF AliasKnownFirst
<1>5. QED
  BY <1>3, <1>4

\* What the acks tell the server holds, whichever of them are lost with a
\* connection and whatever the reorderer refuses: an acknowledged chunk was taken
\* in, and a chunk sent under the alias of its upstream can be converted.
THEOREM SoundAcks == Spec => []AckIsSound
<1>1. TypeInv /\ RecordedWasTaken /\ AliasKnownFirst => AckIsSound
  <2>1. SUFFICES ASSUME TypeInv, RecordedWasTaken, AliasKnownFirst PROVE AckIsSound
    OBVIOUS
  <2>2. AckedWasTaken
    BY <2>1 DEF RecordedWasTaken, AckedWasTaken
  <2>3. ASSUME NEW q \in {rx_msg, inbound}, NEW i \in 1 .. Len(q) PROVE Resolvable(q[i])
    <3>1. q \in Seq(ServerMessages)
      BY <2>1 DEF TypeInv, QueueTypes
    <3>2. q[i] \in Range(q)
      BY <3>1, QueueRange, Zenon
    <3>3. QED
      BY <2>1, <3>2 DEF AliasKnownFirst, Resolvable
  <2>4. QED
    BY <2>2, <2>3 DEF AckIsSound, AliasResolvable
<1>2. QED
  BY <1>1, AckInit, AlwaysTyped, RecordedStep, AliasStep, PTL DEF Spec

-----------------------------------------------------------------------------
(* The delivery *)

\* The chunks stay where they are, and an application that has left stays away.
Still ==
    /\ UNCHANGED <<arrived, delivered, flight, store, output, discarded>>
    /\ pc' = "sending" <=> pc = "sending"
    /\ app = "dropped" => app' = "dropped"

\* A chunk goes to the reorderer.
TakesIn ==
    /\ \E n \in Chunks : R!Iter(u, n)
    /\ pc # "sending" /\ pc' # "sending"
    /\ UNCHANGED <<delivered, flight, discarded, app>>

\* The reorderer yields a chunk, for which the read loop waits for room ...
Yields ==
    /\ \E n \in Chunks : R!Pop(u, n) /\ flight' = {n}
    /\ pc # "sending" /\ pc' = "sending"
    /\ UNCHANGED <<delivered, discarded, app>>

\* ... and passes it on ...
Delivers ==
    /\ pc = "sending" /\ pc' # "sending" /\ app # "dropped"
    /\ delivered' = delivered \cup flight /\ flight' = {}
    /\ UNCHANGED <<arrived, store, output, discarded, app>>

\* ... or finds that the application has left.
Abandons ==
    /\ pc = "sending" /\ pc' # "sending" /\ app = "dropped"
    /\ UNCHANGED <<arrived, store, output, delivered, discarded, app>>

\* The last loop passes a yielded chunk on, or discards it.
Drains ==
    /\ pc # "sending" /\ pc' # "sending"
    /\ \E n \in Chunks :
        /\ R!Pop(u, n)
        /\ \/ app # "dropped" /\ delivered' = delivered \cup {n} /\ discarded' = discarded
           \/ delivered' = delivered /\ discarded' = discarded \cup {n}
    /\ UNCHANGED <<flight, app>>

\* Every step is one of these, as far as the delivery is concerned.
LEMMA DeliverySteps ==
    ASSUME TypeInv, [Next]_vars
    PROVE  Still \/ TakesIn \/ Yields \/ Delivers \/ Abandons \/ Drains
<1>1. CASE Application
  <2>1. UNCHANGED <<arrived, delivered, flight, store, output, discarded, pc>>
    BY <1>1 DEF Application, ReadChunk, ReadEnd, CloseCall, CloseTimeout, DropDownstream,
       ReadMetadata, DropMetadataReader, loopVars, rVars, histVars
  <2>2. app = "dropped" => app' = "dropped"
    BY <1>1 DEF Application, ReadChunk, ReadEnd, CloseCall, CloseTimeout, DropDownstream,
       ReadMetadata, DropMetadataReader
  <2>3. QED
    BY <2>1, <2>2 DEF Still
<1>2. CASE ResumeSteps
  <2>1. UNCHANGED <<arrived, delivered, flight, store, output, discarded, app>>
    BY <1>2 DEF ResumeSteps, ResumeTakeToken, ResumeOk, ResumeRetry, ResumeGaveUp, GetUpdated,
       AddDownstream, rVars, appVars, loopVars, histVars
  <2>2. pc' # "sending" /\ pc # "sending"
    BY <1>2 DEF ResumeSteps, ResumeTakeToken, ResumeOk, ResumeRetry, ResumeGaveUp, GetUpdated,
       AddDownstream, loopVars, Return
  <2>3. QED
    BY <2>1, <2>2 DEF Still
<1>3. CASE LoopChunk \/ DrainChunk
  <2>1. PICK place \in {"deliver", "drain_deliver"} : TakeIn(place) /\ pc \in {"read", "drain"}
    BY <1>3 DEF LoopChunk, DrainChunk
  <2>2. UNCHANGED <<delivered, flight, discarded, app>> /\ pc # "sending" /\ pc' # "sending"
    BY <2>1 DEF TakeIn, Return, appVars, histVars
  <2>3. CASE Resolvable(Head(rx_msg))
    <3>1. Head(rx_msg).n \in Chunks
      <4>1. rx_msg \in Seq(ServerMessages) /\ rx_msg # <<>> /\ Head(rx_msg).type = "chunk"
        BY <2>1 DEF TypeInv, QueueTypes, TakeIn, Received
      <4>2. Head(rx_msg) \in ServerMessages
        BY <4>1, QueueOps, Zenon
      <4>3. QED
        BY <4>1, <4>2 DEF ServerMessages
    <3>2. R!Iter(u, Head(rx_msg).n)
      BY <2>1, <2>3 DEF TakeIn
    <3>3. QED
      BY <2>2, <3>1, <3>2 DEF TakesIn
  <2>4. CASE ~Resolvable(Head(rx_msg))
    BY <2>1, <2>2, <2>4 DEF TakeIn, Still, rVars
  <2>5. QED
    BY <2>3, <2>4
<1>4. CASE LoopPop
  BY <1>4 DEF LoopPop, Yields, appVars, histVars
<1>5. CASE LoopDeliver
  BY <1>5 DEF LoopDeliver, Delivers, rVars
<1>6. CASE LoopDeliverClosed
  BY <1>6 DEF LoopDeliverClosed, Abandons, R!Break, appVars, histVars
<1>7. CASE LoopPopNone
  <2>1. pc' # "sending" /\ pc # "sending"
    BY <1>7 DEF LoopPopNone
  <2>2. UNCHANGED <<arrived, delivered, flight, store, output, discarded, app>>
    BY <1>7 DEF LoopPopNone, R!PopNone, appVars, histVars
  <2>3. QED
    BY <2>1, <2>2 DEF Still
<1>8. CASE DrainPop
  <2>1. pc' # "sending" /\ pc # "sending" /\ UNCHANGED <<flight, app>>
    BY <1>8 DEF DrainPop, loopVars
  <2>2. PICK n \in Chunks :
          /\ R!Pop(u, n)
          /\ IF app # "dropped" /\ Len(app_chan) < ChannelSize
             THEN /\ app_chan' = Append(app_chan, n)
                  /\ delivered' = delivered \cup {n}
                  /\ UNCHANGED discarded
             ELSE /\ discarded' = discarded \cup {n}
                  /\ UNCHANGED <<app_chan, delivered>>
    BY <1>8 DEF DrainPop
  <2>3. \/ app # "dropped" /\ delivered' = delivered \cup {n} /\ discarded' = discarded
        \/ delivered' = delivered /\ discarded' = discarded \cup {n}
    BY <2>2
  <2>4. QED
    BY <2>1, <2>2, <2>3 DEF Drains
<1>9. CASE \/ LoopMetadata \/ MetadataSend \/ MetadataClosed \/ LoopComplete \/ LoopBreak
           \/ DrainMetadata \/ AckCompleteDiscard \/ AckCompleteDone \/ StoreCause
  <2>1. UNCHANGED <<arrived, delivered, flight, store, output, discarded, app>>
    BY <1>9 DEF LoopMetadata, MetadataSend, MetadataClosed, LoopComplete, LoopBreak,
       DrainMetadata, AckCompleteDiscard, AckCompleteDone, StoreCause, rVars, appVars, histVars
  <2>2. pc' = "sending" <=> pc = "sending"
    BY <1>9 DEF LoopMetadata, MetadataSend, MetadataClosed, LoopComplete, LoopBreak,
       DrainMetadata, AckCompleteDiscard, AckCompleteDone, StoreCause
  <2>3. QED
    BY <2>1, <2>2 DEF Still
<1>10. CASE LoopAck \/ DrainEnd
  <2>1. UNCHANGED <<arrived, delivered, flight, store, output, discarded, app>>
    BY <1>10 DEF LoopAck, DrainEnd, rVars, appVars, histVars
  <2>2. pc' # "sending" /\ pc # "sending"
    BY <1>10 DEF LoopAck, DrainEnd, AfterDrain, Return
  <2>3. QED
    BY <2>1, <2>2 DEF Still
<1>11. CASE CloseAnswered \/ CloseFailed
  <2>1. UNCHANGED <<arrived, delivered, flight, store, output, discarded>>
    BY <1>11 DEF CloseAnswered, CloseFailed, rVars, histVars
  <2>2. pc' # "sending" /\ pc # "sending" /\ (app = "dropped" => app' = "dropped")
    BY <1>11 DEF CloseAnswered, CloseFailed, Return, Reply
  <2>3. QED
    BY <2>1, <2>2 DEF Still
<1>12. CASE Environment
  <2>1. UNCHANGED <<arrived, delivered, flight, store, output, discarded, app, pc>>
    BY <1>12 DEF Environment, ConnDown, Reconnect, ConnShutdown, ReadLoopRegister,
       ReadLoopDispatch, ServerSend, ServerResend, ServerMetadata, ServerAck, rVars, appVars,
       loopVars, histVars
  <2>2. QED
    BY <2>1 DEF Still
<1>13. CASE UNCHANGED vars
  BY <1>13 DEF vars, Still, rVars, appVars, loopVars, histVars
<1>14. QED
  BY <1>1, <1>2, <1>3, <1>4, <1>5, <1>6, <1>7, <1>8, <1>9, <1>10, <1>11, <1>12, <1>13
     DEF Next, Loop, ResumeSteps, Finished

\* What the reorderer does to the chunks of the upstream.
LEMMA ReordererEffect ==
    ASSUME TypeInv, NEW n \in Chunks
    PROVE  /\ R!Iter(u, n) => /\ arrived'[u] \ arrived[u] \subseteq store'[u]
                              /\ store[u] \subseteq store'[u] /\ output'[u] = output[u]
           /\ R!Pop(u, n) => /\ arrived'[u] = arrived[u] /\ store[u] \subseteq store'[u] \cup {n}
                             /\ output'[u] = Append(output[u], n)
           /\ n \in R!SeqNumbers /\ output[u] \in Seq(R!SeqNumbers)
<1>1. /\ arrived \in [{u} -> SUBSET R!SeqNumbers] /\ store \in [{u} -> SUBSET R!SeqNumbers]
      /\ output \in [{u} -> Seq(R!SeqNumbers)]
  BY DEF TypeInv, RTypes, R!TypeOK
<1>2. ASSUME R!Iter(u, n)
      PROVE  /\ arrived'[u] \ arrived[u] \subseteq store'[u]
             /\ store[u] \subseteq store'[u] /\ output'[u] = output[u]
  <2>1. output' = output
    BY <1>2 DEF R!Iter
  <2>2. CASE R!Rejects(u, n)
    BY <1>2, <2>1, <2>2 DEF R!Iter
  <2>3. CASE ~R!Rejects(u, n)
    <3>1. /\ arrived' = [arrived EXCEPT ![u] = @ \cup {n}]
          /\ store' = [store EXCEPT ![u] = @ \cup {n}]
      BY <1>2, <2>3 DEF R!Iter
    <3>2. arrived'[u] = arrived[u] \cup {n} /\ store'[u] = store[u] \cup {n}
      BY <1>1, <3>1
    <3>3. QED
      BY <2>1, <3>2
  <2>4. QED
    BY <2>2, <2>3
<1>3. ASSUME R!Pop(u, n)
      PROVE  /\ arrived'[u] = arrived[u] /\ store[u] \subseteq store'[u] \cup {n}
             /\ output'[u] = Append(output[u], n)
  <2>1. /\ arrived' = arrived /\ store' = [store EXCEPT ![u] = @ \ {n}]
        /\ output' = [output EXCEPT ![u] = Append(@, n)]
    BY <1>3 DEF R!Pop
  <2>2. store'[u] = store[u] \ {n} /\ output'[u] = Append(output[u], n)
    BY <1>1, <2>1
  <2>3. QED
    BY <2>1, <2>2
<1>4. n \in R!SeqNumbers /\ output[u] \in Seq(R!SeqNumbers)
  <2>1. n \in R!SeqNumbers
    BY DownstreamAssumption DEF Chunks, R!SeqNumbers
  <2>2. QED
    BY <1>1, <2>1
<1>5. QED
  BY <1>2, <1>3, <1>4

\* The beginning of a sequence, and one more.
LEMMA Beginning ==
    ASSUME NEW S, NEW q \in Seq(S), NEW k \in 0 .. Len(q)
    PROVE  {q[i] : i \in 1 .. k + 1} = {q[i] : i \in 1 .. k} \cup {q[k + 1]}
<1>1. 1 .. k + 1 = (1 .. k) \cup {k + 1}
  OBVIOUS
<1>2. QED
  BY <1>1, Zenon

\* The application gets the yielded chunks one after the other.
LEMMA DeliveredStep ==
    ASSUME TypeInv, DeliveredSoFar, [Next]_vars PROVE DeliveredSoFar'
<1> SUFFICES ASSUME discarded' = {}
             PROVE  \E k \in 0 .. Len(output'[u]) : Yielded(k)'
  BY DEF DeliveredSoFar
<1>0. output[u] \in Seq(R!SeqNumbers) /\ Len(output[u]) \in Nat
  <2>1. output \in [{u} -> Seq(R!SeqNumbers)]
    BY DEF TypeInv, RTypes, R!TypeOK
  <2>2. output[u] \in Seq(R!SeqNumbers)
    BY <2>1
  <2>3. QED
    BY <2>2
<1>a. discarded = {} => \E k \in 0 .. Len(output[u]) : Yielded(k)
  BY DEF DeliveredSoFar
<1>b. \A n \in Chunks : R!Pop(u, n) =>
        /\ output'[u] = Append(output[u], n) /\ Len(output'[u]) = Len(output[u]) + 1
        /\ output'[u][Len(output[u]) + 1] = n
        /\ \A k \in 0 .. Len(output[u]) :
             /\ {output'[u][i] : i \in 1 .. k} = {output[u][i] : i \in 1 .. k}
             /\ k \in 0 .. Len(output'[u]) /\ k + 1 \in 0 .. Len(output'[u])
             /\ {output'[u][i] : i \in 1 .. k + 1}
                  = {output'[u][i] : i \in 1 .. k} \cup {output'[u][k + 1]}
  <2> SUFFICES ASSUME NEW n \in Chunks, R!Pop(u, n)
               PROVE  /\ output'[u] = Append(output[u], n)
                      /\ Len(output'[u]) = Len(output[u]) + 1
                      /\ output'[u][Len(output[u]) + 1] = n
                      /\ \A k \in 0 .. Len(output[u]) :
                           /\ {output'[u][i] : i \in 1 .. k} = {output[u][i] : i \in 1 .. k}
                           /\ k \in 0 .. Len(output'[u]) /\ k + 1 \in 0 .. Len(output'[u])
                           /\ {output'[u][i] : i \in 1 .. k + 1}
                                = {output'[u][i] : i \in 1 .. k} \cup {output'[u][k + 1]}
    OBVIOUS
  <2>1. output'[u] = Append(output[u], n) /\ n \in R!SeqNumbers
    BY ReordererEffect, Zenon
  <2>2. /\ Append(output[u], n) \in Seq(R!SeqNumbers)
        /\ Len(Append(output[u], n)) = Len(output[u]) + 1
        /\ Append(output[u], n)[Len(output[u]) + 1] = n
    BY <1>0, <2>1
  <2>3. ASSUME NEW k \in 0 .. Len(output[u])
        PROVE  /\ {output'[u][i] : i \in 1 .. k} = {output[u][i] : i \in 1 .. k}
               /\ k \in 0 .. Len(output'[u]) /\ k + 1 \in 0 .. Len(output'[u])
               /\ {output'[u][i] : i \in 1 .. k + 1}
                    = {output'[u][i] : i \in 1 .. k} \cup {output'[u][k + 1]}
    <3>1. {output'[u][i] : i \in 1 .. k} = {output[u][i] : i \in 1 .. k}
      <4>1. \A i \in 1 .. k : Append(output[u], n)[i] = output[u][i]
        BY <1>0, <2>1
      <4>2. \A i \in 1 .. k : output'[u][i] = output[u][i]
        BY <2>1, <4>1, Zenon
      <4>3. QED
        BY <4>2, Zenon
    <3>2. k \in 0 .. Len(output'[u]) /\ k + 1 \in 0 .. Len(output'[u])
      BY <1>0, <2>1, <2>2
    <3>3. {output'[u][i] : i \in 1 .. k + 1}
            = {output'[u][i] : i \in 1 .. k} \cup {output'[u][k + 1]}
      <4>1. output'[u] \in Seq(R!SeqNumbers)
        BY <2>1, <2>2
      <4>2. QED
        BY <3>2, <4>1, Beginning, Zenon
    <3>4. QED
      BY <3>1, <3>2, <3>3
  <2>4. QED
    BY <2>1, <2>2, <2>3
<1>1. CASE Still
  <2>1. PICK k \in 0 .. Len(output[u]) : Yielded(k)
    BY <1>1, <1>a DEF Still
  <2>2. Yielded(k)'
    BY <1>1, <2>1 DEF Still, Yielded
  <2>3. QED
    BY <1>1, <2>2 DEF Still
<1>2. CASE TakesIn
  <2>1. PICK k \in 0 .. Len(output[u]) : Yielded(k)
    BY <1>2, <1>a DEF TakesIn
  <2>2. output'[u] = output[u]
    BY <1>2, ReordererEffect, Zenon DEF TakesIn
  <2>3. Yielded(k)'
    BY <1>2, <2>1, <2>2 DEF TakesIn, Yielded
  <2>4. QED
    BY <2>2, <2>3
<1>3. CASE Yields
  <2>1. PICK k \in 0 .. Len(output[u]) : Yielded(k)
    BY <1>3, <1>a DEF Yields
  <2>2. PICK n \in Chunks : R!Pop(u, n) /\ flight' = {n}
    BY <1>3 DEF Yields
  <2>3. /\ {output'[u][i] : i \in 1 .. k} = {output[u][i] : i \in 1 .. k}
        /\ k \in 0 .. Len(output'[u]) /\ Len(output'[u]) = Len(output[u]) + 1
        /\ output'[u][Len(output[u]) + 1] = n
    BY <1>b, <2>2, Zenon
  <2>4. delivered' = {output'[u][i] : i \in 1 .. k}
    BY <1>3, <2>1, <2>3 DEF Yields, Yielded
  <2>5. app' # "dropped" => k + 1 = Len(output'[u]) /\ flight' = {output'[u][k + 1]}
    <3>1. app' # "dropped" => k = Len(output[u])
      BY <1>3, <2>1 DEF Yields, Yielded
    <3>2. QED
      BY <2>2, <2>3, <3>1
  <2>6. Yielded(k)'
    BY <1>3, <2>4, <2>5 DEF Yields, Yielded
  <2>7. QED
    BY <2>3, <2>6
<1>4. CASE Delivers
  <2>1. PICK k \in 0 .. Len(output[u]) : Yielded(k)
    BY <1>4, <1>a DEF Delivers
  <2>2. k + 1 = Len(output[u]) /\ flight = {output[u][k + 1]}
    BY <1>4, <2>1 DEF Delivers, Yielded
  <2>3. {output[u][i] : i \in 1 .. k + 1} = {output[u][i] : i \in 1 .. k} \cup {output[u][k + 1]}
    BY <1>0, Beginning, Zenon
  <2>4. delivered' = {output[u][i] : i \in 1 .. k + 1}
    BY <1>4, <2>1, <2>2, <2>3 DEF Delivers, Yielded
  <2>5. Yielded(k + 1)'
    BY <1>4, <2>2, <2>4 DEF Delivers, Yielded
  <2>6. k + 1 \in 0 .. Len(output'[u])
    BY <1>0, <1>4, <2>2 DEF Delivers
  <2>7. QED
    BY <2>5, <2>6
<1>5. CASE Abandons
  <2>1. PICK k \in 0 .. Len(output[u]) : Yielded(k)
    BY <1>5, <1>a DEF Abandons
  <2>2. Yielded(k)'
    BY <1>5, <2>1 DEF Abandons, Yielded
  <2>3. QED
    BY <1>5, <2>2 DEF Abandons
<1>6. CASE Drains
  <2>1. PICK n \in Chunks : /\ R!Pop(u, n) /\ app # "dropped"
                            /\ delivered' = delivered \cup {n} /\ discarded' = discarded
    BY <1>6 DEF Drains
  <2>2. PICK k \in 0 .. Len(output[u]) : Yielded(k)
    BY <1>a, <2>1
  <2>3. k = Len(output[u]) /\ delivered = {output[u][i] : i \in 1 .. k}
    BY <1>6, <2>1, <2>2 DEF Drains, Yielded
  <2>4. /\ {output'[u][i] : i \in 1 .. k} = {output[u][i] : i \in 1 .. k}
        /\ k + 1 \in 0 .. Len(output'[u]) /\ Len(output'[u]) = Len(output[u]) + 1
        /\ output'[u][Len(output[u]) + 1] = n
        /\ {output'[u][i] : i \in 1 .. k + 1}
             = {output'[u][i] : i \in 1 .. k} \cup {output'[u][k + 1]}
    BY <1>b, <2>1, Zenon
  <2>5. delivered' = {output'[u][i] : i \in 1 .. k + 1}
    BY <2>1, <2>3, <2>4, Zenon
  <2>6. Yielded(k + 1)'
    BY <1>6, <2>3, <2>4, <2>5 DEF Drains, Yielded
  <2>7. QED
    BY <2>4, <2>6
<1>7. QED
  BY <1>1, <1>2, <1>3, <1>4, <1>5, <1>6, DeliverySteps

\* The application gets what the reorderer yields, from the first chunk on and
\* none skipped, through breaks, resumes and chunks sent again, unless the
\* try_send of the last loop fails.
THEOREM NoneSkipped == Spec => []DeliveredAsYielded
<1>1. Init => DeliveredSoFar
  <2>1. SUFFICES ASSUME Init PROVE DeliveredSoFar
    OBVIOUS
  <2>2. output = [s \in {u} |-> <<>>] /\ delivered = {} /\ pc = "top"
    BY <2>1 DEF Init, R!Init
  <2>3. output[u] = <<>>
    BY <2>2
  <2>4. Len(output[u]) = 0 /\ {output[u][i] : i \in 1 .. 0} = {}
    BY <2>3
  <2>5. Yielded(0)
    BY <2>2, <2>4 DEF Yielded
  <2>6. QED
    BY <2>4, <2>5 DEF DeliveredSoFar
<1>2. TypeInv /\ DeliveredSoFar => DeliveredAsYielded
  <2>1. SUFFICES ASSUME TypeInv, DeliveredSoFar, discarded = {}
                 PROVE  \E k \in 0 .. Len(output[u]) :
                            /\ delivered = {output[u][i] : i \in 1 .. k}
                            /\ app # "dropped"
                                 => flight = {output[u][i] : i \in k + 1 .. Len(output[u])}
    BY DEF DeliveredAsYielded
  <2>2. PICK k \in 0 .. Len(output[u]) : Yielded(k)
    BY <2>1 DEF DeliveredSoFar
  <2>3. Len(output[u]) \in Nat
    <3>1. output \in [{u} -> Seq(R!SeqNumbers)]
      BY <2>1 DEF TypeInv, RTypes, R!TypeOK
    <3>2. QED
      BY <3>1
  <2>4. ASSUME app # "dropped" PROVE flight = {output[u][i] : i \in k + 1 .. Len(output[u])}
    <3>1. CASE pc = "sending"
      <4>1. k + 1 = Len(output[u]) /\ flight = {output[u][k + 1]}
        BY <2>2, <2>4, <3>1 DEF Yielded
      <4>2. k + 1 .. Len(output[u]) = {k + 1}
        BY <2>3, <4>1
      <4>3. QED
        BY <4>1, <4>2
    <3>2. CASE pc # "sending"
      <4>1. k = Len(output[u]) /\ flight = {}
        BY <2>1, <2>2, <2>4, <3>2 DEF Yielded, TypeInv, FlightIsOne
      <4>2. k + 1 .. Len(output[u]) = {}
        BY <2>3, <4>1
      <4>3. QED
        BY <4>1, <4>2
    <3>3. QED
      BY <3>1, <3>2
  <2>5. QED
    BY <2>2, <2>4 DEF Yielded
<1>3. QED
  BY <1>1, <1>2, AlwaysTyped, DeliveredStep, PTL DEF Spec
-----------------------------------------------------------------------------
(* The reorderer of the stream *)

\* The stream uses its reorderer as the module DownReorderer describes it, for its
\* own chunks, and leaves an iterator early only when the application has left.
UsesReorderer ==
    \/ \E n \in Chunks : R!Iter(u, n) \/ R!Pop(u, n)
    \/ R!PopNone(u)
    \/ R!Break(u) /\ app = "dropped"
    \/ UNCHANGED rVars

\* Every step does.
LEMMA ReordererSteps == ASSUME TypeInv, [Next]_vars PROVE UsesReorderer
<1>1. CASE Application
  BY <1>1 DEF Application, ReadChunk, ReadEnd, CloseCall, CloseTimeout, DropDownstream,
     ReadMetadata, DropMetadataReader, UsesReorderer
<1>2. CASE ResumeSteps
  BY <1>2 DEF ResumeSteps, ResumeTakeToken, ResumeOk, ResumeRetry, ResumeGaveUp, GetUpdated,
     AddDownstream, UsesReorderer
<1>3. CASE LoopChunk \/ DrainChunk
  <2>1. PICK place \in {"deliver", "drain_deliver"} : TakeIn(place)
    BY <1>3 DEF LoopChunk, DrainChunk
  <2>2. CASE Resolvable(Head(rx_msg))
    <3>1. Head(rx_msg).n \in Chunks
      <4>1. rx_msg \in Seq(ServerMessages) /\ rx_msg # <<>> /\ Head(rx_msg).type = "chunk"
        BY <2>1 DEF TypeInv, QueueTypes, TakeIn, Received
      <4>2. Head(rx_msg) \in ServerMessages
        BY <4>1, QueueOps, Zenon
      <4>3. QED
        BY <4>1, <4>2 DEF ServerMessages
    <3>2. R!Iter(u, Head(rx_msg).n)
      BY <2>1, <2>2 DEF TakeIn
    <3>3. QED
      BY <3>1, <3>2 DEF UsesReorderer
  <2>3. CASE ~Resolvable(Head(rx_msg))
    BY <2>1, <2>3 DEF TakeIn, UsesReorderer
  <2>4. QED
    BY <2>2, <2>3
<1>4. CASE LoopPop \/ DrainPop
  BY <1>4 DEF LoopPop, DrainPop, UsesReorderer
<1>5. CASE LoopPopNone \/ LoopDeliverClosed
  BY <1>5 DEF LoopPopNone, LoopDeliverClosed, UsesReorderer
<1>6. CASE \/ LoopDeliver \/ LoopMetadata \/ MetadataSend \/ MetadataClosed \/ LoopComplete
           \/ LoopAck \/ LoopBreak \/ DrainMetadata \/ DrainEnd \/ AckCompleteDiscard
           \/ AckCompleteDone \/ CloseAnswered \/ CloseFailed \/ StoreCause
  BY <1>6 DEF LoopDeliver, LoopMetadata, MetadataSend, MetadataClosed, LoopComplete, LoopAck,
     LoopBreak, DrainMetadata, DrainEnd, AckCompleteDiscard, AckCompleteDone, CloseAnswered,
     CloseFailed, StoreCause, UsesReorderer
<1>7. CASE Environment
  BY <1>7 DEF Environment, ConnDown, Reconnect, ConnShutdown, ReadLoopRegister,
     ReadLoopDispatch, ServerSend, ServerResend, ServerMetadata, ServerAck, UsesReorderer
<1>8. CASE UNCHANGED vars
  BY <1>8 DEF vars, UsesReorderer
<1>9. QED
  BY <1>1, <1>2, <1>3, <1>4, <1>5, <1>6, <1>7, <1>8 DEF Next, Loop, ResumeSteps, Finished

\* The instances of the reorderer count alike.
LEMMA SameCount ==
    \A S : R!Cardinality(S) = Cardinality(S) /\ RP!Cardinality(S) = Cardinality(S)
  BY Zenon DEF Cardinality, R!Cardinality, RP!Cardinality

\* The stream implements the reorderer: a step of the one is a step of the other,
\* or leaves it alone.
THEOREM ImplementsReorderer == Spec => RP!Spec
<1>1. Init => RP!Init
  BY DEF Init, R!Init, RP!Init
<1>2. ASSUME TypeInv, [Next]_vars PROVE [RP!Next]_(RP!vars)
  <2>1. Chunks \subseteq RP!SeqNumbers
    BY DownstreamAssumption DEF Chunks, RP!SeqNumbers
  <2>2. CASE \E n \in Chunks : R!Iter(u, n) \/ R!Pop(u, n)
    <3>1. PICK n \in Chunks : R!Iter(u, n) \/ R!Pop(u, n)
      BY <2>2
    <3>2. RP!Iter(u, n) \/ RP!Pop(u, n)
      <4>1. ASSUME R!Iter(u, n) PROVE RP!Iter(u, n)
        BY <4>1, SameCount DEF R!Iter, RP!Iter, R!Rejects, RP!Rejects, R!Expected, RP!Expected,
                    R!Strict, RP!Strict
      <4>2. ASSUME R!Pop(u, n) PROVE RP!Pop(u, n)
        BY <4>2, SameCount DEF R!Pop, RP!Pop, R!Pops, RP!Pops, R!Overfull, RP!Overfull, R!Strict,
                    RP!Strict, R!IsFirst, RP!IsFirst, R!Succ, RP!Succ
      <4>3. QED
        BY <3>1, <4>1, <4>2
    <3>3. QED
      BY <2>1, <3>2 DEF RP!Next
  <2>3. CASE R!PopNone(u)
    <3>1. RP!PopNone(u)
      BY <2>3, SameCount
         DEF R!PopNone, RP!PopNone, R!Pops, RP!Pops, R!Overfull, RP!Overfull, R!Strict,
             RP!Strict, R!IsFirst, RP!IsFirst, R!SeqNumbers, RP!SeqNumbers
    <3>2. QED
      BY <3>1 DEF RP!Next
  <2>4. CASE R!Break(u)
    <3>1. RP!Break(u)
      BY <2>4 DEF R!Break, RP!Break
    <3>2. QED
      BY <3>1 DEF RP!Next
  <2>5. CASE UNCHANGED rVars
    BY <2>5 DEF rVars, RP!vars
  <2>6. QED
    BY <1>2, <2>2, <2>3, <2>4, <2>5, ReordererSteps DEF UsesReorderer
<1>3. QED
  BY <1>1, <1>2, AlwaysTyped, PTL DEF Spec, RP!Spec

\* What DownReordererProofs proves holds for this reorderer.
ReordererKeeps == R!NothingLost /\ R!NothingHeldBack /\ R!StoreBounded

\* It does so always.
LEMMA ReordererSound == Spec => []ReordererKeeps
<1>1. RP!ReordererAssumption
  BY DownstreamAssumption DEF RP!ReordererAssumption
<1>2. RP!NothingLost => R!NothingLost
  BY DEF RP!NothingLost, R!NothingLost
<1>3. RP!NothingHeldBack => R!NothingHeldBack
  BY DEF RP!NothingHeldBack, R!NothingHeldBack
<1>4. RP!StoreBounded => R!StoreBounded
  BY SameCount DEF RP!StoreBounded, R!StoreBounded, RP!Strict, R!Strict
<1>5. RP!NothingLost /\ RP!NothingHeldBack /\ RP!StoreBounded => ReordererKeeps
  BY <1>2, <1>3, <1>4 DEF ReordererKeeps
<1>6. RP!Spec => []RP!NothingLost
  BY <1>1, RP!NoLoss
<1>7. RP!Spec => []RP!NothingHeldBack
  BY <1>1, RP!NoneHeldBack
<1>8. RP!Spec => []RP!StoreBounded
  BY <1>1, RP!Bounded
<1>9. QED
  BY <1>5, <1>6, <1>7, <1>8, ImplementsReorderer, PTL

-----------------------------------------------------------------------------
(* The chunks that are missing *)

\* What is yielded goes to the application, or is discarded by the last loop.
LEMMA YieldedStep ==
    ASSUME TypeInv, YieldedIsThere, [Next]_vars PROVE YieldedIsThere'
<1> SUFFICES ASSUME app' # "dropped"
             PROVE  \A i \in 1 .. Len(output'[u]) :
                        output'[u][i] \in delivered' \cup flight' \cup discarded'
  BY DEF YieldedIsThere
<1>0. pc # "sending" => flight = {}
  BY DEF TypeInv, FlightIsOne
<1>1. CASE Still
  BY <1>1 DEF Still, YieldedIsThere
<1>2. CASE TakesIn
  <2>1. output'[u] = output[u]
    BY <1>2, ReordererEffect, Zenon DEF TakesIn
  <2>2. QED
    BY <1>2, <2>1 DEF TakesIn, YieldedIsThere
<1>3. ASSUME NEW n \in Chunks, R!Pop(u, n)
      PROVE  \A i \in 1 .. Len(output'[u]) :
                 output'[u][i] = n \/ \E j \in 1 .. Len(output[u]) : output'[u][i] = output[u][j]
  <2>1. output'[u] = Append(output[u], n) /\ output[u] \in Seq(R!SeqNumbers) /\ n \in R!SeqNumbers
    BY <1>3, ReordererEffect, Zenon
  <2>2. \A i \in 1 .. Len(Append(output[u], n)) :
           \/ Append(output[u], n)[i] = n
           \/ \E j \in 1 .. Len(output[u]) : Append(output[u], n)[i] = output[u][j]
    BY <2>1
  <2>3. QED
    BY <2>1, <2>2, Zenon
<1>4. CASE Yields
  <2>1. PICK n \in Chunks : R!Pop(u, n) /\ flight' = {n}
    BY <1>4 DEF Yields
  <2>2. \A j \in 1 .. Len(output[u]) : output[u][j] \in delivered \cup discarded
    BY <1>0, <1>4 DEF Yields, YieldedIsThere
  <2>3. UNCHANGED <<delivered, discarded>>
    BY <1>4 DEF Yields
  <2>4. QED
    BY <1>3, <2>1, <2>2, <2>3, Zenon
<1>5. CASE Delivers
  BY <1>5 DEF Delivers, YieldedIsThere
<1>6. CASE Abandons
  BY <1>6 DEF Abandons
<1>7. CASE Drains
  <2>1. PICK n \in Chunks : /\ R!Pop(u, n)
                            /\ \/ /\ delivered' = delivered \cup {n}
                                  /\ discarded' = discarded
                               \/ /\ delivered' = delivered
                                  /\ discarded' = discarded \cup {n}
    BY <1>7, Zenon DEF Drains
  <2>2. \A j \in 1 .. Len(output[u]) : output[u][j] \in delivered \cup flight \cup discarded
    BY <1>7 DEF Drains, YieldedIsThere
  <2>3. flight' = flight
    BY <1>7 DEF Drains
  <2>4. /\ n \in delivered' \cup flight' \cup discarded'
        /\ delivered \cup flight \cup discarded \subseteq delivered' \cup flight' \cup discarded'
    BY <2>1, <2>3
  <2>5. QED
    BY <1>3, <2>1, <2>2, <2>4, Zenon
<1>8. QED
  BY <1>1, <1>2, <1>4, <1>5, <1>6, <1>7, DeliverySteps

\* A strict reorderer takes the next number only, and keeps its first chunk.
LEMMA RunStep ==
    ASSUME TypeInv, YieldedRun, FirstIsKept, [Next]_vars PROVE YieldedRun' /\ FirstIsKept'
<1>0. /\ known \subseteq {u} /\ next \in [{u} -> R!SeqNumbers]
      /\ store \in [{u} -> SUBSET R!SeqNumbers] /\ output \in [{u} -> Seq(R!SeqNumbers)]
  BY DEF TypeInv, RTypes, R!TypeOK
<1>a. next[u] \in Nat /\ output[u] \in Seq(R!SeqNumbers) /\ Len(output[u]) \in Nat
      /\ \A i \in 1 .. Len(output[u]) : output[u][i] \in Nat
  <2>1. R!SeqNumbers \subseteq Nat
    BY DownstreamAssumption DEF R!SeqNumbers
  <2>2. next[u] \in R!SeqNumbers /\ output[u] \in Seq(R!SeqNumbers)
    BY <1>0
  <2>3. Len(output[u]) \in Nat /\ \A i \in 1 .. Len(output[u]) : output[u][i] \in R!SeqNumbers
    BY <2>2
  <2>4. QED
    BY <2>1, <2>2, <2>3
<1>1. ASSUME NEW n \in Chunks, R!Iter(u, n) PROVE YieldedRun' /\ FirstIsKept'
  <2>1. /\ output' = output /\ reordering' = reordering /\ known' = known \cup {u}
        /\ next' = [next EXCEPT ![u] = R!Expected(u, n)]
    BY <1>1 DEF R!Iter
  <2>2. next'[u] = R!Expected(u, n)
    BY <1>0, <2>1
  <2>3. CASE u \in known
    <3>1. next'[u] = next[u]
      BY <2>2, <2>3 DEF R!Expected
    <3>2. store[u] \subseteq store'[u]
      BY <1>1, ReordererEffect, Zenon
    <3>3. QED
      BY <2>1, <2>3, <3>1, <3>2 DEF YieldedRun, FirstIsKept, R!Strict
  <2>4. CASE u \notin known
    <3>1. next'[u] = n /\ ~R!Rejects(u, n)
      BY <2>2, <2>4 DEF R!Expected, R!Rejects
    <3>2. store'[u] = store[u] \cup {n}
      BY <1>0, <1>1, <3>1 DEF R!Iter
    <3>3. FirstIsKept'
      BY <2>1, <3>1, <3>2 DEF FirstIsKept
    <3>4. YieldedRun'
      BY <2>1, <2>4 DEF YieldedRun, FirstIsKept, R!Strict
    <3>5. QED
      BY <3>3, <3>4
  <2>5. QED
    BY <2>3, <2>4
<1>2. ASSUME NEW n \in Chunks, R!Pop(u, n) PROVE YieldedRun' /\ FirstIsKept'
  <2>1. /\ reordering' = reordering /\ known' = known
        /\ next' = [next EXCEPT ![u] = R!Succ(n)]
        /\ store' = [store EXCEPT ![u] = @ \ {n}] /\ R!Pops(u, n)
    BY <1>2 DEF R!Pop
  <2>2. output'[u] = Append(output[u], n) /\ n \in R!SeqNumbers
    BY <1>2, ReordererEffect, Zenon
  <2>3. next'[u] = n + 1 /\ n \in Nat
    BY <1>0, <2>1, DownstreamAssumption DEF R!Succ, Chunks
  <2>4. /\ Len(output'[u]) = Len(output[u]) + 1 /\ output'[u][Len(output[u]) + 1] = n
        /\ \A i \in 1 .. Len(output[u]) : output'[u][i] = output[u][i]
        /\ output'[u] # <<>>
    BY <1>a, <2>2
  <2>5. ASSUME R!Strict PROVE n = next[u] /\ n \in store[u] /\ u \in known
    <3>1. n = next[u] /\ n \in store[u]
      BY <2>1, <2>5 DEF R!Pops, R!Overfull
    <3>2. QED
      BY <2>5, <3>1 DEF FirstIsKept
  <2>6. FirstIsKept'
    BY <2>1, <2>4, <2>5 DEF FirstIsKept, R!Strict
  <2>7. ASSUME R!Strict
        PROVE  /\ \A i \in 1 .. Len(output'[u]) : output'[u][i] < next'[u]
               /\ \A m \in Chunks : output'[u][1] <= m /\ m < next'[u] =>
                      \E i \in 1 .. Len(output'[u]) : output'[u][i] = m
    <3>1. \A i \in 1 .. Len(output[u]) : output[u][i] < next[u]
      BY <1>a, <2>7 DEF YieldedRun
    <3>2. \A i \in 1 .. Len(output'[u]) : output'[u][i] < next'[u]
      BY <1>a, <2>3, <2>4, <2>5, <2>7, <3>1
    <3>3. ASSUME NEW m \in Chunks, output'[u][1] <= m, m < next'[u]
          PROVE  \E i \in 1 .. Len(output'[u]) : output'[u][i] = m
      <4>1. CASE m = n
        BY <1>a, <2>4, <4>1
      <4>2. CASE m # n
        <5>1. m \in Nat /\ m < next[u]
          BY <2>3, <2>5, <2>7, <3>3, <4>2 DEF Chunks
        <5>2. Len(output[u]) > 0
          <6>1. SUFFICES ASSUME Len(output[u]) = 0 PROVE FALSE
            BY <1>a
          <6>2. output'[u][1] = n
            BY <2>4, <6>1
          <6>3. QED
            BY <2>3, <2>5, <2>7, <3>3, <5>1, <6>2
        <5>3. output[u][1] <= m
          BY <1>a, <2>4, <3>3, <5>2
        <5>4. PICK i \in 1 .. Len(output[u]) : output[u][i] = m
          BY <2>7, <5>1, <5>2, <5>3 DEF YieldedRun
        <5>5. QED
          BY <1>a, <2>4, <5>4
      <4>3. QED
        BY <4>1, <4>2
    <3>4. QED
      BY <3>2, <3>3
  <2>8. YieldedRun'
    BY <2>1, <2>7 DEF YieldedRun, R!Strict
  <2>9. QED
    BY <2>6, <2>8
<1>3. ASSUME UNCHANGED <<reordering, known, next, store, output>> PROVE YieldedRun' /\ FirstIsKept'
  BY <1>3 DEF YieldedRun, FirstIsKept, R!Strict
<1>4. QED
  BY <1>1, <1>2, <1>3, ReordererSteps DEF UsesReorderer, R!PopNone, R!Break, rVars

\* The iterator is left early only when the application has left, for good.
LEMMA StopStep ==
    ASSUME TypeInv, StoppedForNobody, [Next]_vars PROVE StoppedForNobody'
<1>1. app = "dropped" => app' = "dropped"
  <2>1. CASE Still
    BY <2>1 DEF Still
  <2>2. CASE TakesIn \/ Yields \/ Delivers \/ Abandons \/ Drains
    BY <2>2 DEF TakesIn, Yields, Delivers, Abandons, Drains
  <2>3. QED
    BY <2>1, <2>2, DeliverySteps
<1>2. stopped' = stopped \/ app = "dropped"
  BY ReordererSteps DEF UsesReorderer, R!Iter, R!Pop, R!PopNone, rVars
<1>3. QED
  BY <1>1, <1>2 DEF StoppedForNobody

\* An acknowledged chunk that the application has not got, and will not get from
\* its channel, has a reason: the application has left, the try_send of the last
\* loop found no room for it, or the reorderer holds it back: the chunk it expects
\* has not arrived, it is older than the first chunk and stays for ever, or it is
\* in a best-effort store that is not full.
THEOREM MissingHasReason == Spec => []MissingIsAccounted
<1>1. Init => YieldedIsThere /\ YieldedRun /\ FirstIsKept /\ StoppedForNobody
  <2>1. SUFFICES ASSUME Init
                 PROVE  YieldedIsThere /\ YieldedRun /\ FirstIsKept /\ StoppedForNobody
    OBVIOUS
  <2>2. /\ output = [s \in {u} |-> <<>>] /\ store = [s \in {u} |-> {}]
        /\ known = {} /\ ~stopped
    BY <2>1 DEF Init, R!Init
  <2>3. output[u] = <<>> /\ Len(output[u]) = 0 /\ store[u] = {}
    BY <2>2
  <2>4. QED
    BY <2>2, <2>3 DEF YieldedIsThere, YieldedRun, FirstIsKept, StoppedForNobody
<1>2. ASSUME TypeInv, RecordedWasTaken, YieldedIsThere, YieldedRun, FirstIsKept,
             StoppedForNobody, ReordererKeeps
      PROVE  MissingIsAccounted
  <2>1. SUFFICES ASSUME app # "dropped", current = {}, NEW n \in Missing(srv_acked),
                        n \notin discarded
                 PROVE  HeldBack(n)
    BY DEF MissingIsAccounted
  <2>2. /\ next[u] \in Nat /\ n \in Chunks /\ n \in Nat
        /\ output[u] \in Seq(R!SeqNumbers) /\ ~stopped
    <3>1. /\ next \in [{u} -> R!SeqNumbers] /\ output \in [{u} -> Seq(R!SeqNumbers)]
          /\ srv_acked \subseteq Chunks
      BY <1>2 DEF TypeInv, RTypes, R!TypeOK, SrvTypes
    <3>2. R!SeqNumbers \subseteq Nat /\ Chunks \subseteq Nat
      BY DownstreamAssumption DEF R!SeqNumbers, Chunks
    <3>3. n \in Chunks
      BY <2>1, <3>1 DEF Missing
    <3>4. QED
      BY <1>2, <2>1, <3>1, <3>2, <3>3 DEF StoppedForNobody
  <2>3. n \in arrived[u]
    BY <1>2, <2>1 DEF Missing, RecordedWasTaken
  <2>4. \A i \in 1 .. Len(output[u]) : output[u][i] # n
    BY <1>2, <2>1 DEF Missing, YieldedIsThere
  <2>5. \A m \in arrived[u] : m \in store[u] \/ \E i \in 1 .. Len(output[u]) : output[u][i] = m
    BY <1>2 DEF ReordererKeeps, R!NothingLost
  <2>6. n \in store[u]
    BY <2>3, <2>4, <2>5
  <2>7. CASE ~R!Strict
    <3>1. store[u] = {} \/ R!Cardinality(store[u]) < Limit
      BY <1>2, <2>1, <2>2, <2>7 DEF ReordererKeeps, R!StoreBounded
    <3>2. Cardinality(store[u]) < Limit
      BY <2>6, <3>1, SameCount
    <3>3. QED
      BY <2>6, <2>7, <3>2 DEF HeldBack
  <2>8. CASE R!Strict
    <3>1. u \in known
      BY <1>2, <2>6, <2>8 DEF FirstIsKept
    <3>2. next[u] \notin store[u]
      BY <1>2, <2>1, <2>2, <3>1 DEF ReordererKeeps, R!NothingHeldBack
    <3>3. output[u] # <<>>
      BY <1>2, <2>8, <3>1, <3>2 DEF FirstIsKept
    <3>4. Len(output[u]) > 0 /\ Head(output[u]) = output[u][1]
      BY <2>2, <3>3
    <3>5. /\ \A i \in 1 .. Len(output[u]) : output[u][i] < next[u]
          /\ \A m \in Chunks : output[u][1] <= m /\ m < next[u] =>
                 \E i \in 1 .. Len(output[u]) : output[u][i] = m
      BY <1>2, <2>8, <3>4 DEF YieldedRun
    <3>6. CASE next[u] < n
      <4>1. next[u] \notin arrived[u]
        BY <2>2, <2>5, <3>2, <3>5
      <4>2. QED
        BY <2>6, <2>8, <3>6, <4>1 DEF HeldBack
    <3>7. CASE n < next[u]
      <4>1. ~(output[u][1] <= n)
        BY <2>2, <2>4, <3>5, <3>7
      <4>2. output[u][1] \in Nat
        <5>1. output[u][1] \in R!SeqNumbers
          BY <2>2, <3>4
        <5>2. QED
          BY <5>1, DownstreamAssumption DEF R!SeqNumbers
      <4>3. n < Head(output[u])
        BY <2>2, <3>4, <4>1, <4>2
      <4>4. QED
        BY <2>6, <2>8, <3>3, <4>3 DEF HeldBack
    <3>8. n # next[u]
      BY <2>6, <3>2
    <3>9. QED
      BY <2>2, <3>6, <3>7, <3>8
  <2>9. QED
    BY <2>7, <2>8
<1>3. QED
  BY <1>1, <1>2, AckInit, AlwaysTyped, RecordedStep, YieldedStep, RunStep, StopStep,
     ReordererSound, PTL DEF Spec
=============================================================================
