--------------------------- MODULE E2ECallProofs ----------------------------
(***************************************************************************)
(* What the E2E calls guarantee for any number of callers, receivers,       *)
(* attempts and connections: a call that succeeds was handled, the retries  *)
(* repeat it on another connection only, the reply is not missed, a loop of *)
(* recv_call keeps the order, and no subscription outlives its attempt.     *)
(***************************************************************************)
EXTENDS E2ECall, Functions, TLAPS

-----------------------------------------------------------------------------
(* The steps by what they do *)

\* An attempt ends: with an error, with Ok once the call is acknowledged, or to
\* be repeated, once the connection of the attempt is gone or the token
\* cancelled.
Ends(t, place) ==
    /\ pc[t] \in {"send", "ack", "reply", "recv"} /\ place \in {"state", "err", "ok"}
    /\ place = "state" => ct \/ ~Alive(t)
    /\ place = "ok" => (pc[t] = "ack" /\ id[t] \in acked) \/ pc[t] = "reply"
    /\ EndAttempt(t, place)
    /\ UNCHANGED <<id, conn, last_id, connVars, tx_call_ack, calls, netVars, histVars>>

\* The task goes on with nothing to leave behind.
Moves(t, place) ==
    /\ <<pc[t], place>> \in {<<"state", "attempt">>, <<"state", "err">>,
                             <<"attempt", "state">>, <<"ack", "reply">>}
    /\ place = "reply" => id[t] \in acked
    /\ Goto(t, place)
    /\ UNCHANGED <<id, conn, pos, last_id, connVars, readVars, netVars, histVars>>

\* A call that is not the reply is skipped.
Skips(t) ==
    /\ pc[t] = "reply" /\ HasNext(t) /\ NextCall(t) # id[t]
    /\ pos' = [pos EXCEPT ![t] = NextPos(t)]
    /\ UNCHANGED <<pc, id, conn, last_id, connVars, readVars, netVars, histVars>>

TaskStep(t) ==
    \/ \E place \in {"state", "err", "ok"} : Ends(t, place)
    \/ \E place \in {"state", "attempt", "err", "reply"} : Moves(t, place)
    \/ Skips(t) \/ Subscribe(t) \/ Send(t) \/ RecvSubscribe(t) \/ Recv(t)

\* The connection is the same, dead or alive.
StateStep ==
    /\ close = "cancelled" => close' = "cancelled"
    /\ close' \in {close, "closing", "cancelled"}
    /\ closer' \in {closer, "again"}
    /\ state' \in {state, "Connected", "Reconnecting", "Closing", "Closed"}
    /\ \/ recon' = recon
       \/ recon' \in {"select", "ended", "done"}
       \/ recon' = "connect" /\ ~up
    /\ UNCHANGED <<taskVars, epoch, up, readVars, netVars, histVars>>

\* The connection ends.
WireStep ==
    /\ up /\ WireEnds
    /\ recon' \in {recon, "ended"}
    /\ UNCHANGED <<taskVars, state, closer, close, epoch, acked, calls, unreplied, peer_calls,
                   histVars>>

NetStep == ServerHandle \/ ServerAck \/ PeerReply \/ PeerCall

\* A dead connection has no queues and nothing on the way; the reconnection loop
\* connects when the connection is dead, not before.
DeadIsEmpty ==
    /\ ~up => /\ commands = <<>> /\ tx_call_ack = {}
              /\ net_out = {} /\ net_in = <<>> /\ unacked = {}
    /\ recon = "connect" => ~up

\* Sequences stay sequences of the same elements.
LEMMA SeqOps ==
    ASSUME NEW S, NEW q \in Seq(S)
    PROVE  /\ \A x \in S : Append(q, x) \in Seq(S)
           /\ q # <<>> => Head(q) \in S /\ Tail(q) \in Seq(S)
           /\ \A i \in 1 .. Len(q) : q[i] \in S
  OBVIOUS

\* Append adds the last element and keeps the others in their places.
LEMMA AppendIs ==
    ASSUME NEW S, NEW q \in Seq(S), NEW x \in S
    PROVE  /\ Len(q) \in Nat /\ Len(Append(q, x)) = Len(q) + 1
           /\ \A i \in 1 .. Len(q) : Append(q, x)[i] = q[i]
           /\ Append(q, x)[Len(q) + 1] = x
  OBVIOUS

\* Appending adds an element, taking the head leaves the others.
LEMMA SeqRange ==
    ASSUME NEW S, NEW q \in Seq(S)
    PROVE  /\ \A x : x \in Range(q) <=> \E i \in 1 .. Len(q) : q[i] = x
           /\ \A x \in S : Range(Append(q, x)) = Range(q) \cup {x}
           /\ q # <<>> => Head(q) \in Range(q) /\ Range(q) = {Head(q)} \cup Range(Tail(q))
           /\ Range(<<>>) = {}
<1>1. DOMAIN q = 1 .. Len(q) /\ Len(q) \in Nat
  OBVIOUS
<1>2. \A x : x \in Range(q) <=> \E i \in 1 .. Len(q) : q[i] = x
  BY <1>1 DEF Range
<1>3. ASSUME NEW x \in S PROVE Range(Append(q, x)) = Range(q) \cup {x}
  <2>1. /\ DOMAIN Append(q, x) = 1 .. Len(q) + 1
        /\ \A i \in 1 .. Len(q) : Append(q, x)[i] = q[i]
        /\ Append(q, x)[Len(q) + 1] = x
    OBVIOUS
  <2>2. 1 .. Len(q) + 1 = (1 .. Len(q)) \cup {Len(q) + 1}
    BY <1>1
  <2>3. QED
    BY <1>1, <2>1, <2>2 DEF Range
<1>4. ASSUME q # <<>>
      PROVE  Head(q) \in Range(q) /\ Range(q) = {Head(q)} \cup Range(Tail(q))
  <2>1. /\ Len(q) >= 1 /\ Head(q) = q[1]
        /\ DOMAIN Tail(q) = 1 .. Len(q) - 1
        /\ \A i \in 1 .. Len(q) - 1 : Tail(q)[i] = q[i + 1]
    BY <1>4
  <2>2. Head(q) \in Range(q)
    BY <1>1, <2>1 DEF Range
  <2>3. ASSUME NEW x \in Range(Tail(q)) PROVE x \in Range(q)
    <3>1. PICK i \in 1 .. Len(q) - 1 : x = Tail(q)[i]
      BY <2>1, <2>3 DEF Range
    <3>2. i + 1 \in 1 .. Len(q) /\ x = q[i + 1]
      BY <1>1, <2>1, <3>1
    <3>3. QED
      BY <1>1, <3>2 DEF Range
  <2>4. ASSUME NEW x \in Range(q), x # Head(q) PROVE x \in Range(Tail(q))
    <3>1. PICK i \in 1 .. Len(q) : x = q[i]
      BY <1>1 DEF Range
    <3>2. i # 1
      BY <2>1, <2>4, <3>1
    <3>3. i - 1 \in 1 .. Len(q) - 1 /\ (i - 1) + 1 = i
      BY <1>1, <3>2
    <3>4. Tail(q)[i - 1] = x
      BY <2>1, <3>1, <3>3
    <3>5. QED
      BY <2>1, <3>3, <3>4 DEF Range
  <2>5. QED
    BY <2>2, <2>3, <2>4
<1>5. Range(<<>>) = {}
  BY DEF Range
<1>6. QED
  BY <1>2, <1>3, <1>4, <1>5

\* Every step of a task is one of these.
LEMMA TaskSteps ==
    ASSUME NEW t \in Tasks, Dropped(t) \/ TaskRuns(t)
    PROVE  TaskStep(t)
<1> USE DEF TaskStep
<1>1. CASE WaitForState(t) \/ NotConnected(t)
  BY <1>1 DEF WaitForState, NotConnected, Moves
<1>2. CASE Cancelled(t)
  <2>1. CASE pc[t] = "attempt"
    <3>1. Moves(t, "state")
      BY <1>2, <2>1 DEF Cancelled, Moves, readVars
    <3>2. QED
      BY <3>1
  <2>2. CASE pc[t] # "attempt"
    <3>1. Ends(t, "state")
      BY <1>2, <2>2 DEF Cancelled, Ends, Retry
    <3>2. QED
      BY <3>1
  <2>3. QED
    BY <2>1, <2>2
<1>3. CASE Dropped(t)
  <2>1. Ends(t, "err")
    BY <1>3 DEF Dropped, Ends
  <2>2. QED
    BY <2>1
<1>4. CASE SendFails(t)
  <2>1. Ends(t, "err") \/ Ends(t, "state")
    BY <1>4 DEF SendFails, Ends, Retry
  <2>2. QED
    BY <2>1
<1>5. CASE AckReceived(t)
  <2>1. Moves(t, "reply") \/ Ends(t, "ok")
    BY <1>5 DEF AckReceived, Ends, Moves, readVars
  <2>2. QED
    BY <2>1
<1>6. CASE AckClosed(t)
  <2>1. Ends(t, "state")
    BY <1>6 DEF AckClosed, Ends, Retry
  <2>2. QED
    BY <2>1
<1>7. CASE Reply(t)
  <2>1. Ends(t, "ok") \/ Skips(t)
    BY <1>7 DEF Reply, Ends, Skips, readVars
  <2>2. QED
    BY <2>1
<1>8. CASE ReplyTimeout(t)
  <2>1. Ends(t, "err")
    BY <1>8 DEF ReplyTimeout, Ends
  <2>2. QED
    BY <2>1
<1>9. CASE ReplyClosed(t) \/ RecvClosed(t)
  <2>1. Ends(t, "state")
    BY <1>9 DEF ReplyClosed, RecvClosed, Ends, Retry
  <2>2. QED
    BY <2>1
<1>10. QED
  BY <1>1, <1>2, <1>3, <1>4, <1>5, <1>6, <1>7, <1>8, <1>9 DEF TaskRuns

\* Every step of the system is one of these.
LEMMA Steps ==
    ASSUME TypeOK, DeadIsEmpty, [Next]_vars
    PROVE  \/ \E t \in Tasks : TaskStep(t)
           \/ ReadCommand \/ ReadAck \/ ReadCall
           \/ StateStep \/ WireStep \/ (ReconConnect /\ ~up) \/ NetStep
           \/ UNCHANGED vars
<1>1. CASE \E t \in Tasks : Dropped(t) \/ TaskRuns(t)
  BY <1>1, TaskSteps
<1>2. CASE CloseStart \/ CloseCancel \/ CloseAgain
  BY <1>2 DEF CloseStart, CloseCancel, CloseAgain, StateStep
<1>3. CASE ReconTop \/ ReconLost \/ ReconAbort \/ ReconEnd
  <2>1. StateStep
    BY <1>3 DEF ReconTop, ReconLost, ReconAbort, ReconEnd, StateStep
  <2>2. QED
    BY <2>1
<1>4. CASE ReconClose
  <2>1. CASE up
    BY <1>4, <2>1 DEF ReconClose, WireStep
  <2>2. CASE ~up
    <3>1. up' = up
      BY <1>4, <2>2 DEF ReconClose, WireEnds, TypeOK
    <3>2. UNCHANGED <<readVars, netVars>>
      BY <1>4, <2>2 DEF ReconClose, WireEnds, DeadIsEmpty, readVars, netVars
    <3>3. QED
      BY <1>4, <3>1, <3>2 DEF ReconClose, StateStep
  <2>3. QED
    BY <2>1, <2>2
<1>5. CASE ReconConnect
  BY <1>5 DEF ReconConnect, DeadIsEmpty
<1>6. CASE WireDown
  BY <1>6 DEF WireDown, WireStep
<1>7. CASE Finished \/ UNCHANGED vars
  BY <1>7 DEF Finished
<1>8. QED
  BY <1>1, <1>2, <1>3, <1>4, <1>5, <1>6, <1>7 DEF Next, ReconRuns, NetStep

-----------------------------------------------------------------------------
(* Types *)

TaskTypes ==
    /\ pc \in [Tasks -> {"state", "attempt", "send", "ack", "reply", "recv", "ok", "err"}]
    /\ id \in [Tasks -> 0 .. MaxIds] /\ conn \in [Tasks -> Conns] /\ pos \in [Tasks -> Nat]
    /\ last_id \in 0 .. MaxIds

ConnTypes ==
    /\ state \in {"Connected", "Reconnecting", "Closing", "Closed"}
    /\ closer \in {"first", "again"}
    /\ close \in {"open", "closing", "cancelled"}
    /\ recon \in {"top", "select", "connect", "ended", "done"}
    /\ epoch \in Conns /\ up \in BOOLEAN

Commands == {"subscribe", "remove"} \X Ids

ReadTypes ==
    /\ commands \in Seq(Commands)
    /\ tx_call_ack \subseteq Ids /\ acked \subseteq Ids
    /\ calls \in [Conns -> Seq(0 .. MaxIds)]

Answers == {"ack", "call"} \X (0 .. MaxIds)

NetTypes ==
    /\ net_out \subseteq Ids /\ net_in \in Seq(Answers)
    /\ unacked \subseteq Ids /\ unreplied \subseteq Ids /\ peer_calls \in 0 .. MaxCalls

HistTypes ==
    /\ handled \subseteq Callers \X Ids \X Conns
    /\ received \in [Receivers -> Seq(Conns \X (Nat \ {0}))]

\* Callers send and receivers receive; an attempt has an id.
TasksInRole ==
    \A t \in Tasks : /\ pc[t] \in {"send", "ack", "reply"} => t \in Callers /\ id[t] \in Ids
                     /\ pc[t] = "recv" => t \in Receivers

\* A receiver is not past the end of its channel.
PosBounded == \A t \in Tasks : pos[t] <= Len(calls[conn[t]])

TypeInv == /\ TaskTypes /\ ConnTypes /\ ReadTypes /\ NetTypes /\ HistTypes
           /\ TasksInRole /\ PosBounded /\ DeadIsEmpty

\* The groups make up the type invariant.
LEMMA TypesAgree == TypeInv => TypeOK
  BY Zenon DEF TypeInv, TypeOK, TaskTypes, ConnTypes, ReadTypes, NetTypes, HistTypes, Commands,
               Answers, PosBounded

\* A task is a caller or a receiver, and none is both.
LEMMA TasksAre == /\ Callers \subseteq Tasks /\ Receivers \subseteq Tasks
                  /\ \A t \in Tasks : (t \in Callers) # (t \in Receivers)
  BY E2ECallAssumption DEF Tasks

\* The step of a task, if any, moves no other.
LEMMA OneTask ==
    ASSUME TypeInv, NEW t \in Tasks, TaskStep(t)
    PROVE  \A s \in Tasks : s # t => /\ pc'[s] = pc[s] /\ id'[s] = id[s]
                                     /\ conn'[s] = conn[s] /\ pos'[s] = pos[s]
<1>0. TaskTypes
  BY DEF TypeInv
<1>1. CASE \E place \in {"state", "err", "ok"} : Ends(t, place)
  BY <1>0, <1>1 DEF Ends, EndAttempt, Goto, TaskTypes
<1>2. CASE \E place \in {"state", "attempt", "err", "reply"} : Moves(t, place)
  BY <1>0, <1>2 DEF Moves, Goto, TaskTypes
<1>3. CASE Skips(t) \/ Send(t)
  BY <1>0, <1>3 DEF Skips, Send, Goto, TaskTypes
<1>4. CASE Subscribe(t) \/ RecvSubscribe(t)
  BY <1>0, <1>4 DEF Subscribe, RecvSubscribe, Goto, TaskTypes
<1>5. CASE Recv(t)
  BY <1>0, <1>5 DEF Recv, Goto, TaskTypes
<1>6. QED
  BY <1>1, <1>2, <1>3, <1>4, <1>5 DEF TaskStep

\* The calls are kept: the channel of a connection only grows.
LEMMA CallsGrow ==
    ASSUME TypeInv, [Next]_vars
    PROVE  /\ \A c \in Conns : /\ Len(calls[c]) <= Len(calls'[c]) /\ Len(calls[c]) \in Nat
                               /\ \A i \in 1 .. Len(calls[c]) : calls'[c][i] = calls[c][i]
           /\ calls' \in [Conns -> Seq(0 .. MaxIds)]
<1>0. /\ calls \in [Conns -> Seq(0 .. MaxIds)] /\ epoch \in Conns
      /\ \A c \in Conns : calls[c] \in Seq(0 .. MaxIds) /\ Len(calls[c]) \in Nat
  BY DEF TypeInv, ReadTypes, ConnTypes
<1>1. CASE ReadCall
  <2>1. Head(net_in)[2] \in 0 .. MaxIds
    <3>1. Head(net_in) \in Answers
      BY <1>1, SeqOps DEF ReadCall, TypeInv, NetTypes
    <3>2. QED
      BY <3>1 DEF Answers
  <2> DEFINE x == Head(net_in)[2]
  <2>2. calls' = [calls EXCEPT ![epoch] = Append(@, x)]
    BY <1>1 DEF ReadCall
  <2> HIDE DEF x
  <2>3. x \in 0 .. MaxIds
    BY <2>1 DEF x
  <2>4. Append(calls[epoch], x) \in Seq(0 .. MaxIds)
    BY <1>0, <2>3, SeqOps, Zenon
  <2>5. calls' \in [Conns -> Seq(0 .. MaxIds)]
    BY <1>0, <2>2, <2>4
  <2>6. /\ Len(Append(calls[epoch], x)) = Len(calls[epoch]) + 1
        /\ \A i \in 1 .. Len(calls[epoch]) : Append(calls[epoch], x)[i] = calls[epoch][i]
    BY <1>0, <2>3
  <2>7. \A c \in Conns : calls'[c] = IF c = epoch THEN Append(calls[epoch], x) ELSE calls[c]
    BY <1>0, <2>2
  <2>8. ASSUME NEW c \in Conns
        PROVE  /\ Len(calls[c]) <= Len(calls'[c])
               /\ \A i \in 1 .. Len(calls[c]) : calls'[c][i] = calls[c][i]
    <3>1. CASE c = epoch
      <4>1. calls'[c] = Append(calls[epoch], x)
        BY <2>7, <3>1
      <4>2. Len(calls[epoch]) \in Nat /\ Len(calls'[c]) = Len(calls[epoch]) + 1
        BY <1>0, <2>6, <4>1, Zenon
      <4>3. \A i \in 1 .. Len(calls[epoch]) : calls'[c][i] = calls[epoch][i]
        BY <2>6, <4>1, Zenon
      <4>4. Len(calls[epoch]) <= Len(calls'[c])
        BY <4>2
      <4>5. QED
        BY <3>1, <4>3, <4>4, Zenon
    <3>2. CASE c # epoch
      BY <1>0, <2>7, <3>2
    <3>3. QED
      BY <3>1, <3>2
  <2>9. QED
    BY <1>0, <2>5, <2>8, Zenon
<1>2. CASE calls' = calls
  BY <1>0, <1>2
<1>3. ASSUME NEW t \in Tasks, TaskStep(t) PROVE calls' = calls
  BY <1>3 DEF TaskStep, Ends, Moves, Skips, Subscribe, Send, RecvSubscribe, Recv, readVars
<1>4. calls' = calls \/ ReadCall
  BY <1>3, Steps, TypesAgree DEF TypeInv, ReadCommand, ReadAck, StateStep, WireStep,
     ReconConnect, NetStep, ServerHandle, ServerAck, PeerReply, PeerCall, readVars, vars
<1>5. QED
  BY <1>1, <1>2, <1>4

\* A receiver that has a next call stays within the channel.
LEMMA NextPosBounds ==
    ASSUME TypeInv, NEW t \in Tasks, HasNext(t)
    PROVE  /\ NextPos(t) \in Nat /\ pos[t] < NextPos(t) /\ NextPos(t) <= Len(calls[conn[t]])
           /\ \A i \in Nat : pos[t] < i /\ i < NextPos(t) => i + Capacity <= Len(calls[conn[t]])
<1>1. /\ pos[t] \in Nat /\ Len(calls[conn[t]]) \in Nat /\ Capacity \in Nat \ {0}
      /\ pos[t] < Len(calls[conn[t]])
  <2>1. conn[t] \in Conns /\ pos[t] \in Nat
    BY DEF TypeInv, TaskTypes
  <2>2. calls[conn[t]] \in Seq(0 .. MaxIds)
    BY <2>1 DEF TypeInv, ReadTypes
  <2>3. QED
    BY <2>1, <2>2, E2ECallAssumption DEF HasNext
<1>2. QED
  BY <1>1 DEF NextPos

\* The step of a task keeps the types of its own state.
LEMMA TaskTypesStep ==
    ASSUME TypeInv, NEW t \in Tasks, TaskStep(t)
    PROVE  TaskTypes' /\ TasksInRole'
<1>0. /\ TaskTypes /\ TasksInRole /\ epoch \in Conns
      /\ MaxIds \in Nat /\ Ids = 1 .. MaxIds
  BY E2ECallAssumption DEF TypeInv, ConnTypes, Ids
<1> USE DEF TaskTypes, TasksInRole
<1>1. CASE \E place \in {"state", "err", "ok"} : Ends(t, place)
  <2>1. PICK place \in {"state", "err", "ok"} : Ends(t, place)
    BY <1>1
  <2>2. /\ pc' = [pc EXCEPT ![t] = place] /\ UNCHANGED <<id, conn, last_id>>
        /\ pos' = [pos EXCEPT ![t] = 0]
    BY <2>1 DEF Ends, EndAttempt, Goto
  <2>3. pos' \in [Tasks -> Nat]
    BY <1>0, <2>2
  <2>4. QED
    BY <1>0, <2>2, <2>3
<1>2. CASE \E place \in {"state", "attempt", "err", "reply"} : Moves(t, place)
  BY <1>0, <1>2 DEF Moves, Goto
<1>3. CASE Skips(t)
  <2>1. pos' \in [Tasks -> Nat]
    BY <1>0, <1>3, NextPosBounds DEF Skips
  <2>2. QED
    BY <1>0, <1>3, <2>1 DEF Skips
<1>4. CASE Subscribe(t)
  <2>1. last_id + 1 \in Ids /\ last_id' = last_id + 1
    BY <1>0, <1>4 DEF Subscribe
  <2>2. TailOfCalls \in Nat
    BY <1>0 DEF TailOfCalls, TypeInv, ReadTypes
  <2>3. /\ id' = [id EXCEPT ![t] = last_id + 1] /\ conn' = [conn EXCEPT ![t] = epoch]
        /\ pos' = [pos EXCEPT ![t] = TailOfCalls] /\ pc' = [pc EXCEPT ![t] = "send"]
        /\ t \in Callers
    BY <1>4 DEF Subscribe, Goto
  <2>4. last_id + 1 \in 0 .. MaxIds
    BY <1>0, <2>1
  <2>5. TaskTypes'
    BY <1>0, <2>1, <2>2, <2>3, <2>4
  <2>6. TasksInRole'
    BY <1>0, <2>1, <2>3
  <2>7. QED
    BY <2>5, <2>6
<1>5. CASE Send(t)
  BY <1>0, <1>5 DEF Send, Goto
<1>6. CASE RecvSubscribe(t)
  <2>1. TailOfCalls \in Nat
    BY <1>0 DEF TailOfCalls, TypeInv, ReadTypes
  <2>2. QED
    BY <1>0, <1>6, <2>1 DEF RecvSubscribe, Goto
<1>7. CASE Recv(t)
  <2>1. /\ pos' = [pos EXCEPT ![t] = 0] /\ UNCHANGED <<id, conn, last_id>>
        /\ \E place \in {"state", "attempt"} : pc' = [pc EXCEPT ![t] = place]
    BY <1>7 DEF Recv, Goto
  <2>2. pos' \in [Tasks -> Nat]
    BY <1>0, <2>1
  <2>3. QED
    BY <1>0, <2>1, <2>2
<1>8. QED
  BY <1>1, <1>2, <1>3, <1>4, <1>5, <1>6, <1>7 DEF TaskStep

\* ... of the read loop's, ...
LEMMA TaskReadStep ==
    ASSUME TypeInv, NEW t \in Tasks, TaskStep(t)
    PROVE  ReadTypes' /\ (~up => UNCHANGED <<commands, tx_call_ack, net_out>>)
<1>0. ReadTypes /\ TasksInRole /\ MaxIds \in Nat /\ Ids = 1 .. MaxIds /\ last_id \in Nat
  BY E2ECallAssumption DEF TypeInv, Ids, TaskTypes
<1> USE DEF ReadTypes
<1>1. CASE \E place \in {"state", "err", "ok"} : Ends(t, place)
  <2>1. PICK place \in {"state", "err", "ok"} : Ends(t, place)
    BY <1>1
  <2>2. /\ pc[t] \in {"send", "ack", "reply", "recv"} /\ acked' \subseteq acked
        /\ UNCHANGED <<tx_call_ack, calls, net_out>>
        /\ \/ commands' = commands
           \/ t \in Callers /\ up /\ commands' = Append(commands, <<"remove", id[t]>>)
    BY <2>1 DEF Ends, EndAttempt, Alive, netVars
  <2>3. t \in Callers => <<"remove", id[t]>> \in Commands
    BY <1>0, <2>2, TasksAre DEF TasksInRole, Commands
  <2>4. commands' \in Seq(Commands)
    BY <1>0, <2>2, <2>3, SeqOps
  <2>5. QED
    BY <1>0, <2>2, <2>4
<1>2. CASE Subscribe(t)
  <2>1. <<"subscribe", last_id + 1>> \in Commands
    BY <1>0, <1>2 DEF Subscribe, Commands
  <2>2. commands' \in Seq(Commands)
    BY <1>0, <1>2, <2>1, SeqOps DEF Subscribe
  <2>3. QED
    BY <1>0, <1>2, <2>2 DEF Subscribe, netVars
<1>3. CASE \/ \E place \in {"state", "attempt", "err", "reply"} : Moves(t, place)
           \/ Skips(t) \/ RecvSubscribe(t) \/ Recv(t)
  BY <1>0, <1>3 DEF Moves, Skips, RecvSubscribe, Recv, readVars, netVars
<1>4. CASE Send(t)
  BY <1>0, <1>4 DEF Send, readVars, Alive
<1>5. QED
  BY <1>1, <1>2, <1>3, <1>4 DEF TaskStep

\* ... and of the network, the connection and the history.
LEMMA TaskOtherStep ==
    ASSUME TypeInv, NEW t \in Tasks, TaskStep(t)
    PROVE  /\ UNCHANGED <<connVars, net_in, unacked, unreplied, peer_calls, handled>>
           /\ NetTypes' /\ HistTypes'
<1>0. NetTypes /\ HistTypes /\ TasksInRole /\ TaskTypes /\ ReadTypes
  BY DEF TypeInv
<1>1. UNCHANGED <<connVars, net_in, unacked, unreplied, peer_calls, handled>>
  BY DEF TaskStep, Ends, Moves, Skips, Subscribe, Send, RecvSubscribe, Recv, connVars, netVars,
         histVars
<1>2. net_out' \subseteq Ids
  <2>1. CASE Send(t)
    BY <1>0, <2>1 DEF Send, NetTypes, TasksInRole
  <2>2. CASE ~Send(t)
    BY <1>0, <2>2 DEF TaskStep, Ends, Moves, Skips, Subscribe, RecvSubscribe, Recv, netVars,
                      NetTypes
  <2>3. QED
    BY <2>1, <2>2
<1>3. received' \in [Receivers -> Seq(Conns \X (Nat \ {0}))]
  <2>1. CASE Recv(t)
    <3>1. t \in Receivers /\ conn[t] \in Conns /\ NextPos(t) \in Nat \ {0}
      <4>1. HasNext(t) /\ t \in Receivers /\ conn[t] \in Conns /\ pos[t] \in Nat
        BY <1>0, <2>1 DEF Recv, TasksInRole, TaskTypes
      <4>2. NextPos(t) \in Nat /\ pos[t] < NextPos(t)
        BY <4>1, NextPosBounds
      <4>3. QED
        BY <4>1, <4>2
    <3>2. received' \in {received, [received EXCEPT ![t] = Append(@, <<conn[t], NextPos(t)>>)]}
      BY <2>1 DEF Recv
    <3>3. received[t] \in Seq(Conns \X (Nat \ {0}))
      BY <1>0, <3>1 DEF HistTypes
    <3>4. Append(received[t], <<conn[t], NextPos(t)>>) \in Seq(Conns \X (Nat \ {0}))
      BY <3>1, <3>3, SeqOps
    <3>5. QED
      BY <1>0, <3>1, <3>2, <3>4 DEF HistTypes
  <2>2. CASE ~Recv(t)
    BY <1>0, <2>2 DEF TaskStep, Ends, Moves, Skips, Subscribe, Send, RecvSubscribe, histVars,
                      HistTypes
  <2>3. QED
    BY <2>1, <2>2
<1>4. QED
  BY <1>0, <1>1, <1>2, <1>3 DEF NetTypes, HistTypes

\* Every step keeps the types.
LEMMA TypeInvStep == TypeInv /\ [Next]_vars => TypeInv'
<1> SUFFICES ASSUME TypeInv, [Next]_vars PROVE TypeInv'
  OBVIOUS
<1>0. /\ TaskTypes /\ ConnTypes /\ ReadTypes /\ NetTypes /\ HistTypes
      /\ TasksInRole /\ PosBounded /\ DeadIsEmpty /\ TypeOK
  BY TypesAgree DEF TypeInv
<1>1. CASE \E t \in Tasks : TaskStep(t)
  <2>1. PICK t \in Tasks : TaskStep(t)
    BY <1>1
  <2>2. TaskTypes' /\ TasksInRole' /\ ReadTypes' /\ NetTypes' /\ HistTypes'
    BY <2>1, TaskTypesStep, TaskReadStep, TaskOtherStep
  <2>3. UNCHANGED <<state, closer, close, recon, epoch, up, net_in, unacked>>
    BY <2>1, TaskOtherStep DEF connVars
  <2>4. ConnTypes'
    BY <1>0, <2>3 DEF ConnTypes
  <2>5. DeadIsEmpty'
    BY <1>0, <2>1, <2>3, TaskReadStep DEF DeadIsEmpty
  <2>6. PosBounded'
    <3> SUFFICES ASSUME NEW s \in Tasks PROVE pos'[s] <= Len(calls'[conn'[s]])
      BY DEF PosBounded
    <3>1. calls' = calls
      BY <2>1 DEF TaskStep, Ends, Moves, Skips, Subscribe, Send, RecvSubscribe, Recv, readVars
    <3>2. CASE s # t
      BY <1>0, <2>1, <3>1, <3>2, OneTask DEF PosBounded
    <3>3. CASE s = t
      <4>1. CASE UNCHANGED <<pos, conn>>
        BY <1>0, <3>1, <4>1 DEF PosBounded
      <4>2. CASE pos' = [pos EXCEPT ![t] = NextPos(t)] /\ HasNext(t) /\ conn' = conn
        <5>1. pos'[t] = NextPos(t) /\ NextPos(t) <= Len(calls[conn[t]])
          BY <1>0, <4>2, NextPosBounds DEF TaskTypes
        <5>2. QED
          BY <3>1, <3>3, <4>2, <5>1
      <4>3. CASE Subscribe(t) \/ RecvSubscribe(t)
        <5>1. pos'[t] = Len(calls[epoch]) /\ conn'[t] = epoch
          BY <1>0, <4>3 DEF Subscribe, RecvSubscribe, TailOfCalls, TaskTypes
        <5>2. Len(calls[epoch]) \in Nat
          BY <1>0 DEF ReadTypes, ConnTypes
        <5>3. QED
          BY <3>1, <3>3, <5>1, <5>2
      <4>4. CASE pos' = [pos EXCEPT ![t] = 0] /\ conn' = conn
        <5>1. conn[t] \in Conns /\ pos'[t] = 0
          BY <1>0, <4>4 DEF TaskTypes
        <5>2. Len(calls[conn[t]]) \in Nat
          BY <1>0, <5>1 DEF ReadTypes
        <5>3. QED
          BY <3>1, <3>3, <4>4, <5>1, <5>2
      <4>5. QED
        BY <2>1, <4>1, <4>2, <4>3, <4>4 DEF TaskStep, Ends, EndAttempt, Moves, Skips, Send, Recv
    <3>4. QED
      BY <3>2, <3>3
  <2>7. QED
    BY <2>2, <2>4, <2>5, <2>6 DEF TypeInv
<1>2. ASSUME UNCHANGED taskVars PROVE TaskTypes' /\ TasksInRole' /\ PosBounded'
  <2>1. TaskTypes' /\ TasksInRole'
    BY <1>0, <1>2 DEF TaskTypes, TasksInRole, taskVars
  <2>2. ASSUME NEW s \in Tasks PROVE pos'[s] <= Len(calls'[conn'[s]])
    <3>1. /\ conn[s] \in Conns /\ pos[s] \in Nat /\ pos[s] <= Len(calls[conn[s]])
          /\ pos'[s] = pos[s] /\ conn'[s] = conn[s]
      BY <1>0, <1>2 DEF TaskTypes, PosBounded, taskVars
    <3>2. Len(calls[conn[s]]) \in Nat /\ Len(calls[conn[s]]) <= Len(calls'[conn[s]])
          /\ Len(calls'[conn[s]]) \in Nat
      BY <3>1, CallsGrow
    <3>3. QED
      BY <3>1, <3>2
  <2>3. QED
    BY <2>1, <2>2 DEF PosBounded
<1>3. CASE ReadCommand
  <2>1. Head(commands) \in Commands /\ Tail(commands) \in Seq(Commands)
    BY <1>0, <1>3, SeqOps DEF ReadCommand, ReadTypes
  <2>2. ReadTypes'
    BY <1>0, <1>3, <2>1 DEF ReadCommand, ReadTypes, Commands
  <2>3. ConnTypes' /\ NetTypes' /\ HistTypes' /\ DeadIsEmpty'
    BY <1>0, <1>3 DEF ReadCommand, ConnTypes, NetTypes, HistTypes, DeadIsEmpty, connVars,
                      netVars, histVars
  <2>4. QED
    BY <1>2, <1>3, <2>2, <2>3 DEF ReadCommand, TypeInv
<1>4. CASE ReadAck \/ ReadCall
  <2>1. Tail(net_in) \in Seq(Answers)
    BY <1>0, <1>4, SeqOps DEF ReadAck, ReadCall, NetTypes
  <2>2. calls' \in [Conns -> Seq(0 .. MaxIds)]
    BY CallsGrow
  <2>3. ReadTypes'
    BY <1>0, <1>4, <2>2 DEF ReadAck, ReadCall, ReadTypes
  <2>4. NetTypes'
    BY <1>0, <1>4, <2>1 DEF ReadAck, ReadCall, NetTypes
  <2>5. ConnTypes' /\ HistTypes' /\ DeadIsEmpty'
    BY <1>0, <1>4 DEF ReadAck, ReadCall, ConnTypes, HistTypes, DeadIsEmpty, connVars, histVars
  <2>6. QED
    BY <1>2, <1>4, <2>3, <2>4, <2>5 DEF ReadAck, ReadCall, TypeInv
<1>5. CASE StateStep
  <2>1. ConnTypes' /\ DeadIsEmpty'
    BY <1>0, <1>5 DEF StateStep, ConnTypes, DeadIsEmpty, readVars, netVars
  <2>2. ReadTypes' /\ NetTypes' /\ HistTypes'
    BY <1>0, <1>5 DEF StateStep, ReadTypes, NetTypes, HistTypes, readVars, netVars, histVars
  <2>3. QED
    BY <1>2, <1>5, <2>1, <2>2 DEF StateStep, TypeInv
<1>6. CASE WireStep
  <2>1. up' \in BOOLEAN /\ ~up'
    BY <1>6, Zenon DEF WireStep, WireEnds
  <2>2. ConnTypes'
    BY <1>0, <1>6, <2>1 DEF WireStep, ConnTypes
  <2>3. DeadIsEmpty'
    BY <1>6, <2>1 DEF WireStep, WireEnds, DeadIsEmpty
  <2>4. ReadTypes' /\ NetTypes' /\ HistTypes'
    BY <1>0, <1>6 DEF WireStep, WireEnds, ReadTypes, NetTypes, HistTypes, histVars
  <2>5. QED
    BY <1>2, <1>6, <2>2, <2>3, <2>4 DEF WireStep, TypeInv
<1>7. CASE ReconConnect /\ ~up
  <2>1. up' \in BOOLEAN /\ up'
    BY <1>7, Zenon DEF ReconConnect
  <2>2. ConnTypes'
    BY <1>0, <1>7, <2>1, E2ECallAssumption DEF ReconConnect, ConnTypes, Conns
  <2>3. DeadIsEmpty'
    BY <1>7, <2>1 DEF ReconConnect, DeadIsEmpty
  <2>4. ReadTypes' /\ NetTypes' /\ HistTypes'
    BY <1>0, <1>7 DEF ReconConnect, ReadTypes, NetTypes, HistTypes, readVars, netVars, histVars
  <2>5. QED
    BY <1>2, <1>7, <2>2, <2>3, <2>4 DEF ReconConnect, TypeInv
<1>8. CASE NetStep
  <2>1. UNCHANGED <<taskVars, connVars, readVars, received>>
    BY <1>8 DEF NetStep, ServerHandle, ServerAck, PeerReply, PeerCall, histVars
  <2>2. ConnTypes' /\ ReadTypes'
    BY <1>0, <2>1 DEF ConnTypes, ReadTypes, connVars, readVars
  <2>3. HistTypes'
    <3>1. CASE ServerHandle
      <4>1. PICK t \in Callers : id[t] \in net_out /\ handled' = handled \cup {<<t, id[t], epoch>>}
        BY <3>1 DEF ServerHandle
      <4>2. id[t] \in Ids /\ epoch \in Conns
        BY <1>0, <4>1 DEF NetTypes, ConnTypes
      <4>3. QED
        BY <1>0, <2>1, <4>1, <4>2 DEF HistTypes
    <3>2. CASE handled' = handled
      BY <1>0, <2>1, <3>2 DEF HistTypes
    <3>3. QED
      BY <1>8, <3>1, <3>2 DEF NetStep, ServerAck, PeerReply, PeerCall, histVars
  <2>4. NetTypes' /\ DeadIsEmpty'
    <3>1. CASE ServerHandle
      <4>1. PICK t \in Callers : /\ id[t] \in net_out /\ net_out' = net_out \ {id[t]}
                                 /\ unacked' = unacked \cup {id[t]}
                                 /\ unreplied' = unreplied \cup {id[t]}
        BY <3>1 DEF ServerHandle
      <4>2. up /\ id[t] \in Ids
        BY <1>0, <4>1 DEF DeadIsEmpty, NetTypes
      <4>3. UNCHANGED <<net_in, peer_calls>>
        BY <3>1 DEF ServerHandle
      <4>4. QED
        BY <1>0, <2>1, <4>1, <4>2, <4>3 DEF NetTypes, DeadIsEmpty, connVars, readVars
    <3>2. ASSUME NEW x \in Answers, net_in' = Append(net_in, x) PROVE net_in' \in Seq(Answers)
      BY <1>0, <3>2, SeqOps DEF NetTypes
    <3>3. CASE ServerAck
      <4>1. PICK i \in unacked : unacked' = unacked \ {i} /\ net_in' = Append(net_in, <<"ack", i>>)
        BY <3>3 DEF ServerAck
      <4>2. up /\ i \in 0 .. MaxIds
        BY <1>0, <4>1 DEF DeadIsEmpty, NetTypes, Ids
      <4>3. <<"ack", i>> \in Answers
        BY <4>2 DEF Answers
      <4>4. net_in' \in Seq(Answers)
        BY <3>2, <4>1, <4>3
      <4>5. QED
        BY <1>0, <2>1, <3>3, <4>1, <4>2, <4>4 DEF ServerAck, NetTypes, DeadIsEmpty, connVars,
                                                  readVars
    <3>4. CASE PeerReply
      <4>1. PICK i \in unreplied : /\ unreplied' = unreplied \ {i}
                                   /\ net_in' = Append(net_in, <<"call", i>>)
        BY <3>4 DEF PeerReply
      <4>2. up /\ i \in 0 .. MaxIds
        BY <1>0, <3>4, <4>1 DEF PeerReply, NetTypes, Ids
      <4>3. <<"call", i>> \in Answers
        BY <4>2 DEF Answers
      <4>4. net_in' \in Seq(Answers)
        BY <3>2, <4>1, <4>3
      <4>5. QED
        BY <1>0, <2>1, <3>4, <4>1, <4>2, <4>4 DEF PeerReply, NetTypes, DeadIsEmpty, connVars,
                                                  readVars
    <3>5. CASE PeerCall
      <4>1. up /\ net_in' = Append(net_in, <<"call", 0>>)
        BY <3>5 DEF PeerCall
      <4>2. <<"call", 0>> \in Answers
        BY E2ECallAssumption DEF Answers
      <4>3. net_in' \in Seq(Answers)
        BY <3>2, <4>1, <4>2
      <4>4. peer_calls' \in 0 .. MaxCalls
        BY <1>0, <3>5, E2ECallAssumption DEF PeerCall, NetTypes
      <4>5. QED
        BY <1>0, <2>1, <3>5, <4>1, <4>3, <4>4 DEF PeerCall, NetTypes, DeadIsEmpty, connVars,
                                                  readVars
    <3>6. QED
      BY <1>8, <3>1, <3>3, <3>4, <3>5 DEF NetStep
  <2>5. QED
    BY <1>2, <2>1, <2>2, <2>3, <2>4 DEF TypeInv
<1>9. CASE UNCHANGED vars
  <2>1. UNCHANGED <<taskVars, connVars, readVars, netVars, histVars>>
    BY <1>9 DEF vars
  <2>2. ConnTypes' /\ ReadTypes' /\ NetTypes' /\ HistTypes' /\ DeadIsEmpty'
    BY <1>0, <2>1 DEF ConnTypes, ReadTypes, NetTypes, HistTypes, DeadIsEmpty, connVars,
                      readVars, netVars, histVars
  <2>3. QED
    BY <1>2, <2>1, <2>2 DEF TypeInv
<1>10. QED
  BY <1>0, <1>1, <1>3, <1>4, <1>5, <1>6, <1>7, <1>8, <1>9, Steps

\* The types hold at the start.
LEMMA TypeInvInit == Init => TypeInv
<1> SUFFICES ASSUME Init PROVE TypeInv
  OBVIOUS
<1> USE E2ECallAssumption DEF Init
<1>1. TaskTypes /\ TasksInRole
  BY DEF TaskTypes, TasksInRole, Conns
<1>2. ConnTypes
  BY DEF ConnTypes, Conns
<1>3. ReadTypes /\ NetTypes
  BY DEF ReadTypes, NetTypes, Conns
<1>4. HistTypes /\ DeadIsEmpty
  BY DEF HistTypes, DeadIsEmpty
<1>5. PosBounded
  BY DEF PosBounded
<1>6. QED
  BY <1>1, <1>2, <1>3, <1>4, <1>5 DEF TypeInv

\* The types hold always.
LEMMA AlwaysTyped == Spec => []TypeInv
  BY TypeInvInit, TypeInvStep, PTL DEF Spec

\* Every variable keeps its type, and no receiver is past the end of the channel
\* of calls it reads.
THEOREM TypeCorrect == Spec => []TypeOK
  BY AlwaysTyped, TypesAgree, PTL

-----------------------------------------------------------------------------
(* The ids *)

\* Every id in the system was drawn, and every caller has its own.
IdsDrawn ==
    /\ \A t \in Tasks : id[t] <= last_id
    /\ \A s, t \in Callers : id[s] = id[t] /\ id[s] # 0 => s = t
    /\ \A i \in net_out \cup unacked \cup unreplied \cup acked \cup tx_call_ack : i <= last_id
    /\ \A x \in Range(net_in) \cup Range(commands) : x[2] <= last_id
    /\ \A c \in Conns : \A i \in 1 .. Len(calls[c]) : calls[c][i] <= last_id

\* No task is ahead of the connection; a caller without an attempt is at the first.
ConnsPast ==
    /\ \A t \in Tasks : conn[t] <= epoch
    /\ \A t \in Callers : id[t] = 0 => conn[t] = 1

IdsInv == IdsDrawn /\ ConnsPast

-----------------------------------------------------------------------------
(* What the retries report and repeat *)

\* A call on its way to the server is one of the connection that is up.
SentOnConn == \A t \in Callers : id[t] \in net_out => conn[t] = epoch

\* The server acks what it has handled.
AckedHandled ==
    \A t \in Callers :
        id[t] \in acked \cup unacked \/ <<"ack", id[t]>> \in Range(net_in)
            => <<t, id[t], conn[t]>> \in handled

\* A caller that is past the ack was handled.
PastAckHandled ==
    \A t \in Callers : pc[t] \in {"reply", "ok"} => <<t, id[t], conn[t]>> \in handled

\* Until the token is cancelled, a task that is to try again has lost the
\* connection of its attempt.
RetriesAfterBreak ==
    ~ct => \A t \in Callers : pc[t] \in {"state", "attempt"} => id[t] = 0 \/ ~Alive(t)

\* What the server handled is the present attempt, or one on an earlier connection.
HandledPast ==
    ~ct => \A h \in handled : \/ h[2] = id[h[1]] /\ h[3] = conn[h[1]]
                              \/ h[3] < conn[h[1]]

RetryInv == /\ SentOnConn /\ AckedHandled /\ PastAckHandled
            /\ RetriesAfterBreak /\ HandledPast /\ OncePerConnection

-----------------------------------------------------------------------------
(* Replies, received calls and subscriptions *)

\* The reply is ahead from the moment the task subscribes.
ReplyAhead ==
    \A t \in Callers : pc[t] \in {"send", "ack", "reply"} =>
        \A i \in 1 .. Len(calls[conn[t]]) :
            calls[conn[t]][i] = id[t] => pos[t] < i \/ i + Capacity <= Len(calls[conn[t]])

\* The last call that was returned is in the channel, behind the receiver if the
\* task has one.
LastIsPast ==
    \A r \in Receivers : received[r] # <<>> =>
        LET last == received[r][Len(received[r])] IN
        \/ last[1] < conn[r]
        \/ /\ last[1] = conn[r] /\ last[2] <= Len(calls[conn[r]])
           /\ pc[r] = "recv" => last[2] <= pos[r]

Active(i) == \E t \in Callers : /\ id[t] = i /\ conn[t] = epoch
                                /\ pc[t] \in {"send", "ack", "reply"}

\* A subscription, made or to be made, is one of an attempt in progress or is to
\* be removed.
SubscribedOrRemoved ==
    \A i \in Ids : i \in tx_call_ack \/ <<"subscribe", i>> \in Range(commands)
                       => Active(i) \/ <<"remove", i>> \in Range(commands)

\* The command that removes comes after the one that subscribes.
RemovedLast ==
    \A a, b \in 1 .. Len(commands) :
        commands[a][1] = "subscribe" /\ commands[b] = <<"remove", commands[a][2]>> => a < b

SubscriptionInv == SubscribedOrRemoved /\ RemovedLast

\* New ids are drawn, and what the network and the channels pass on is old.
LEMMA IdsStep == TypeInv /\ IdsInv /\ [Next]_vars => IdsInv'
<1> SUFFICES ASSUME TypeInv, IdsInv, [Next]_vars PROVE IdsInv'
  OBVIOUS
<1>0. /\ TaskTypes /\ ConnTypes /\ ReadTypes /\ NetTypes /\ TasksInRole /\ DeadIsEmpty
      /\ TypeOK /\ last_id \in Nat /\ IdsDrawn /\ ConnsPast
      /\ epoch \in Nat /\ \A t \in Tasks : id[t] \in Nat /\ conn[t] \in Nat
  BY TypesAgree, E2ECallAssumption DEF TypeInv, TaskTypes, ConnTypes, IdsInv, Conns
<1>1. last_id' \in Nat /\ last_id <= last_id'
  <2>1. ASSUME NEW t \in Tasks, TaskStep(t) PROVE last_id' \in {last_id, last_id + 1}
    BY <2>1 DEF TaskStep, Ends, Moves, Skips, Subscribe, Send, RecvSubscribe, Recv
  <2>2. last_id' \in {last_id, last_id + 1}
    BY <1>0, <2>1, Steps DEF ReadCommand, ReadAck, ReadCall, StateStep, WireStep, ReconConnect,
       NetStep, ServerHandle, ServerAck, PeerReply, PeerCall, taskVars, vars
  <2>3. QED
    BY <1>0, <2>2
<1>2. CASE \E t \in Tasks : TaskStep(t)
  <2>1. PICK t \in Tasks : TaskStep(t)
    BY <1>2
  <2>2. UNCHANGED <<epoch, net_in, unacked, unreplied, calls, tx_call_ack>>
    BY <2>1, TaskOtherStep DEF connVars, TaskStep, Ends, Moves, Skips, Subscribe, Send,
       RecvSubscribe, Recv, readVars
  <2>3. acked' \subseteq acked
    BY <2>1 DEF TaskStep, Ends, EndAttempt, Moves, Skips, Subscribe, Send, RecvSubscribe, Recv,
                readVars
  <2>4. net_out' \subseteq net_out \cup {id[t]}
    BY <2>1 DEF TaskStep, Ends, Moves, Skips, Subscribe, Send, RecvSubscribe, Recv, netVars
  <2>5. \A x \in Range(commands') : x \in Range(commands) \/ x[2] = id[t] \/ x[2] = last_id'
    <3>1. CASE commands' = commands
      BY <3>1
    <3>2. CASE commands' = Append(commands, <<"remove", id[t]>>) /\ t \in Callers
               /\ pc[t] \in {"send", "ack", "reply", "recv"}
      <4>1. <<"remove", id[t]>> \in Commands
        BY <1>0, <3>2, TasksAre DEF TasksInRole, Commands
      <4>2. commands \in Seq(Commands) /\ commands' = Append(commands, <<"remove", id[t]>>)
        BY <3>2 DEF TypeInv, ReadTypes
      <4> DEFINE e == <<"remove", id[t]>>
      <4>3. e[2] = id[t]
        OBVIOUS
      <4>4. e \in Commands /\ commands' = Append(commands, e)
        BY <4>1, <4>2
      <4> HIDE DEF e
      <4>5. \A x \in Commands : Range(Append(commands, x)) = Range(commands) \cup {x}
        BY <4>2, SeqRange
      <4>6. Range(commands') = Range(commands) \cup {e}
        BY <4>4, <4>5, Zenon
      <4>7. QED
        BY <4>3, <4>6, Zenon
    <3>3. CASE Subscribe(t)
      <4>1. /\ commands' = Append(commands, <<"subscribe", last_id + 1>>)
            /\ last_id' = last_id + 1 /\ last_id + 1 \in Ids
        BY <1>0, <3>3, E2ECallAssumption DEF Subscribe, Ids
      <4>2. <<"subscribe", last_id + 1>> \in Commands
        BY <4>1 DEF Commands
      <4>3. Range(commands') = Range(commands) \cup {<<"subscribe", last_id + 1>>}
        <5>1. commands \in Seq(Commands)
          BY <1>0 DEF ReadTypes
        <5>2. QED
          BY <4>1, <4>2, <5>1, SeqRange
      <4>4. QED
        BY <4>1, <4>3
    <3>4. QED
      BY <2>1, <3>1, <3>2, <3>3 DEF TaskStep, Ends, EndAttempt, Moves, Skips, Send,
         RecvSubscribe, Recv, readVars
  <2>6. \/ id' = id
        \/ id' = [id EXCEPT ![t] = last_id + 1] /\ last_id' = last_id + 1
    BY <2>1 DEF TaskStep, Ends, Moves, Skips, Subscribe, Send, RecvSubscribe, Recv
  <2>7. \A s \in Tasks : id'[s] = id[s] \/ (s = t /\ id'[s] = last_id + 1 /\ last_id' = last_id + 1)
    BY <1>0, <2>6 DEF TaskTypes
  <2>8. /\ \A s \in Tasks : id'[s] <= last_id'
        /\ \A s, r \in Callers : id'[s] = id'[r] /\ id'[s] # 0 => s = r
    <3>1. \A s \in Tasks : id[s] <= last_id /\ id[s] # last_id + 1
      BY <1>0 DEF IdsDrawn
    <3>2. \A s \in Tasks : id'[s] <= last_id'
      BY <1>0, <1>1, <2>7, <3>1
    <3>3. QED
      BY <1>0, <2>7, <3>1, <3>2, TasksAre DEF IdsDrawn
  <2>9. /\ \A i \in net_out' \cup unacked' \cup unreplied' \cup acked' \cup tx_call_ack' :
             i <= last_id'
        /\ \A x \in Range(net_in') \cup Range(commands') : x[2] <= last_id'
    <3>1. ASSUME NEW i \in net_out' \cup unacked' \cup unreplied' \cup acked' \cup tx_call_ack'
          PROVE  i \in Nat /\ i <= last_id
      BY <1>0, <2>2, <2>3, <2>4 DEF IdsDrawn, NetTypes, ReadTypes, Ids
    <3>2. ASSUME NEW x \in Range(net_in) \cup Range(commands) PROVE x[2] \in Nat /\ x[2] <= last_id
      <4>1. x \in Answers \cup Commands
        BY <1>0, SeqRange DEF NetTypes, ReadTypes
      <4>2. x[2] \in Nat
        BY <4>1 DEF Answers, Commands, Ids
      <4>3. QED
        BY <1>0, <4>2 DEF IdsDrawn
    <3>3. \A x \in Range(net_in') \cup Range(commands') : x[2] \in Nat /\ x[2] <= last_id'
      BY <1>0, <1>1, <2>2, <2>5, <3>2 DEF IdsDrawn
    <3>4. QED
      BY <1>0, <1>1, <3>1, <3>3
  <2>10. \A c \in Conns : \A i \in 1 .. Len(calls[c]) : calls[c][i] <= last_id'
    <3>1. \A c \in Conns : calls[c] \in Seq(0 .. MaxIds)
      BY <1>0 DEF ReadTypes
    <3>2. \A c \in Conns : \A i \in 1 .. Len(calls[c]) : calls[c][i] \in 0 .. MaxIds
      BY <3>1, SeqOps, Zenon
    <3>3. QED
      BY <1>0, <1>1, <3>2 DEF IdsDrawn
  <2>11. ConnsPast'
    <3>1. \/ conn' = conn /\ id' = id
          \/ /\ conn' = [conn EXCEPT ![t] = epoch]
             /\ \/ id' = id /\ t \in Receivers
                \/ id' = [id EXCEPT ![t] = last_id + 1]
      BY <2>1 DEF TaskStep, Ends, Moves, Skips, Subscribe, Send, RecvSubscribe, Recv
    <3>2. QED
      BY <1>0, <2>2, <3>1, TasksAre DEF ConnsPast, TaskTypes
  <2>12. QED
    BY <2>2, <2>8, <2>9, <2>10, <2>11 DEF IdsInv, IdsDrawn
<1>3. ASSUME UNCHANGED taskVars, epoch' = epoch PROVE ConnsPast'
  BY <1>0, <1>3 DEF ConnsPast, taskVars
<1>4. CASE ReadCommand
  <2>1. /\ Head(commands) \in Range(commands) /\ Range(Tail(commands)) \subseteq Range(commands)
        /\ tx_call_ack' \subseteq tx_call_ack \cup {Head(commands)[2]}
    BY <1>0, <1>4, SeqRange DEF ReadCommand, ReadTypes
  <2>2. IdsDrawn'
    BY <1>0, <1>4, <2>1 DEF ReadCommand, IdsDrawn, taskVars, netVars
  <2>3. QED
    BY <1>3, <1>4, <2>2 DEF ReadCommand, IdsInv, connVars
<1>5. CASE ReadAck
  <2>1. Range(Tail(net_in)) \subseteq Range(net_in)
    BY <1>0, <1>5, SeqRange DEF ReadAck, NetTypes
  <2>2. IdsDrawn'
    BY <1>0, <1>5, <2>1 DEF ReadAck, IdsDrawn, taskVars
  <2>3. QED
    BY <1>3, <1>5, <2>2 DEF ReadAck, IdsInv, connVars
<1>6. CASE ReadCall
  <2> DEFINE x == Head(net_in)[2]
  <2>1. Range(Tail(net_in)) \subseteq Range(net_in) /\ Head(net_in) \in Range(net_in)
        /\ Head(net_in) \in Answers
    BY <1>0, <1>6, SeqRange, SeqOps DEF ReadCall, NetTypes
  <2>2. x <= last_id /\ x \in 0 .. MaxIds
    BY <1>0, <2>1 DEF IdsDrawn, Answers
  <2>3. calls' = [calls EXCEPT ![epoch] = Append(@, x)] /\ epoch \in Conns
    BY <1>0, <1>6 DEF ReadCall, ConnTypes
  <2> HIDE DEF x
  <2>4. ASSUME NEW c \in Conns, NEW i \in 1 .. Len(calls'[c]) PROVE calls'[c][i] <= last_id
    <3>1. CASE c = epoch
      <4>1. calls'[c] = Append(calls[c], x) /\ calls[c] \in Seq(0 .. MaxIds)
        BY <1>0, <2>3, <3>1 DEF ReadTypes
      <4>2. /\ Len(calls[c]) \in Nat /\ Len(Append(calls[c], x)) = Len(calls[c]) + 1
            /\ \A j \in 1 .. Len(calls[c]) : Append(calls[c], x)[j] = calls[c][j]
            /\ Append(calls[c], x)[Len(calls[c]) + 1] = x
        BY <2>2, <4>1, AppendIs, Zenon
      <4>3. i \in 1 .. Len(calls[c]) \/ i = Len(calls[c]) + 1
        BY <4>1, <4>2
      <4>4. CASE i \in 1 .. Len(calls[c])
        BY <1>0, <4>1, <4>2, <4>4 DEF IdsDrawn
      <4>5. CASE i = Len(calls[c]) + 1
        BY <2>2, <4>1, <4>2, <4>5
      <4>6. QED
        BY <4>3, <4>4, <4>5
    <3>2. CASE c # epoch
      <4>1. calls'[c] = calls[c]
        BY <1>0, <2>3, <3>2 DEF ReadTypes
      <4>2. QED
        BY <1>0, <4>1 DEF IdsDrawn
    <3>3. QED
      BY <3>1, <3>2
  <2>5. IdsDrawn'
    BY <1>0, <1>6, <2>1, <2>4 DEF ReadCall, IdsDrawn, taskVars
  <2>6. QED
    BY <1>3, <1>6, <2>5 DEF ReadCall, IdsInv, connVars
<1>7. CASE StateStep
  <2>1. IdsDrawn'
    BY <1>0, <1>7 DEF StateStep, IdsDrawn, taskVars, readVars, netVars
  <2>2. QED
    BY <1>3, <1>7, <2>1 DEF StateStep, IdsInv
<1>8. CASE WireStep
  <2>1. Range(<<>>) = {}
    BY DEF Range
  <2>2. IdsDrawn'
    BY <1>0, <1>8, <2>1 DEF WireStep, WireEnds, IdsDrawn, taskVars
  <2>3. QED
    BY <1>3, <1>8, <2>2 DEF WireStep, IdsInv
<1>9. CASE ReconConnect /\ ~up
  <2>1. IdsDrawn'
    BY <1>0, <1>9 DEF ReconConnect, IdsDrawn, taskVars, readVars, netVars
  <2>2. epoch' = epoch + 1 /\ UNCHANGED taskVars
    BY <1>9 DEF ReconConnect
  <2>3. ConnsPast'
    BY <1>0, <2>2 DEF ConnsPast, taskVars
  <2>4. QED
    BY <2>1, <2>3 DEF IdsInv
<1>10. CASE NetStep
  <2>1. UNCHANGED <<taskVars, connVars, readVars>>
    BY <1>10 DEF NetStep, ServerHandle, ServerAck, PeerReply, PeerCall
  <2>2. ASSUME NEW x \in Answers, net_in' = Append(net_in, x)
        PROVE  Range(net_in') = Range(net_in) \cup {x}
    BY <1>0, <2>2, SeqRange DEF NetTypes
  <2>3. \A z \in Range(net_in') : z[2] <= last_id
    <3>1. CASE net_in' = net_in
      BY <1>0, <3>1 DEF IdsDrawn
    <3>2. CASE \E i \in unacked : net_in' = Append(net_in, <<"ack", i>>)
      <4>1. PICK i \in unacked : net_in' = Append(net_in, <<"ack", i>>)
        BY <3>2
      <4>2. <<"ack", i>> \in Answers
        BY <1>0 DEF NetTypes, Answers, Ids
      <4>3. Range(net_in') = Range(net_in) \cup {<<"ack", i>>}
        BY <2>2, <4>1, <4>2
      <4>4. QED
        BY <1>0, <4>3 DEF IdsDrawn
    <3>3. CASE \E i \in unreplied \cup {0} : net_in' = Append(net_in, <<"call", i>>)
      <4>1. PICK i \in unreplied \cup {0} : net_in' = Append(net_in, <<"call", i>>)
        BY <3>3
      <4>2. <<"call", i>> \in Answers /\ i <= last_id
        BY <1>0, E2ECallAssumption DEF NetTypes, Answers, Ids, IdsDrawn
      <4>3. Range(net_in') = Range(net_in) \cup {<<"call", i>>}
        BY <2>2, <4>1, <4>2
      <4>4. QED
        BY <1>0, <4>2, <4>3 DEF IdsDrawn
    <3>4. QED
      BY <1>10, <3>1, <3>2, <3>3 DEF NetStep, ServerHandle, ServerAck, PeerReply, PeerCall
  <2>4. \A i \in net_out' \cup unacked' \cup unreplied' :
          i \in net_out \cup unacked \cup unreplied
    BY <1>10 DEF NetStep, ServerHandle, ServerAck, PeerReply, PeerCall
  <2>5. IdsDrawn'
    BY <1>0, <2>1, <2>3, <2>4 DEF IdsDrawn, taskVars, readVars
  <2>6. QED
    BY <1>3, <2>1, <2>5 DEF IdsInv, connVars
<1>11. CASE UNCHANGED vars
  <2>1. UNCHANGED <<taskVars, connVars, readVars, netVars>>
    BY <1>11 DEF vars
  <2>2. IdsDrawn'
    BY <1>0, <2>1 DEF IdsDrawn, taskVars, readVars, netVars
  <2>3. QED
    BY <1>3, <2>1, <2>2 DEF IdsInv, connVars
<1>12. QED
  BY <1>0, <1>2, <1>4, <1>5, <1>6, <1>7, <1>8, <1>9, <1>10, <1>11, Steps

-----------------------------------------------------------------------------
(* The steps as a caller sees them *)

\* The attempt of a caller goes on or ends; it ends to be repeated when the
\* connection of the attempt is gone or the token cancelled.
CallerGoes(s) ==
    /\ id'[s] = id[s] /\ conn'[s] = conn[s]
    /\ pc'[s] = "state" => pc[s] \in {"state", "attempt"} \/ ct \/ ~Alive(s)
    /\ pc'[s] = "attempt" => pc[s] \in {"state", "attempt"}
    /\ pc'[s] \in {"reply", "ok"} => pc[s] \in {"reply", "ok"} \/ id[s] \in acked
    /\ pc'[s] \in {"send", "ack", "reply"} =>
         /\ pc[s] \in {"send", "ack", "reply"}
         /\ \/ pos'[s] = pos[s]
            \/ HasNext(s) /\ NextCall(s) # id[s] /\ pos'[s] = NextPos(s) /\ calls' = calls

\* Every step leaves a caller's attempt to go on, or starts a new one.
LEMMA CallerSteps ==
    ASSUME TypeInv, [Next]_vars, NEW s \in Callers
    PROVE  CallerGoes(s) \/ Subscribe(s)
<1>0. TaskTypes /\ TypeOK /\ DeadIsEmpty /\ TasksInRole /\ s \in Tasks /\ s \notin Receivers
  BY TypesAgree, TasksAre DEF TypeInv
<1>1. CASE \E t \in Tasks : TaskStep(t)
  <2>1. PICK t \in Tasks : TaskStep(t)
    BY <1>1
  <2>2. CASE s # t
    BY <1>0, <2>1, <2>2, OneTask DEF CallerGoes
  <2>3. CASE s = t
    <3>1. CASE \E place \in {"state", "err", "ok"} : Ends(s, place)
      <4>1. PICK place \in {"state", "err", "ok"} : Ends(s, place)
        BY <3>1
      <4>2. pc'[s] = place /\ id'[s] = id[s] /\ conn'[s] = conn[s]
        BY <1>0, <4>1 DEF Ends, EndAttempt, Goto, TaskTypes
      <4>3. QED
        BY <4>1, <4>2 DEF Ends, CallerGoes
    <3>2. CASE \E place \in {"state", "attempt", "err", "reply"} : Moves(s, place)
      <4>1. PICK place \in {"state", "attempt", "err", "reply"} : Moves(s, place)
        BY <3>2
      <4>2. pc'[s] = place /\ id'[s] = id[s] /\ conn'[s] = conn[s] /\ pos'[s] = pos[s]
        BY <1>0, <4>1 DEF Moves, Goto, TaskTypes
      <4>3. QED
        BY <4>1, <4>2 DEF Moves, CallerGoes
    <3>3. CASE Skips(s)
      <4>1. pos'[s] = NextPos(s) /\ calls' = calls
        BY <1>0, <3>3 DEF Skips, TaskTypes, readVars
      <4>2. QED
        BY <3>3, <4>1 DEF Skips, CallerGoes
    <3>4. CASE Send(s)
      BY <1>0, <3>4 DEF Send, Goto, CallerGoes, TaskTypes
    <3>5. CASE RecvSubscribe(s) \/ Recv(s)
      BY <1>0, <3>5 DEF RecvSubscribe, Recv, TasksInRole
    <3>6. QED
      BY <2>1, <2>3, <3>1, <3>2, <3>3, <3>4, <3>5 DEF TaskStep
  <2>4. QED
    BY <2>2, <2>3
<1>2. CASE UNCHANGED taskVars
  BY <1>2 DEF taskVars, CallerGoes
<1>3. QED
  BY <1>0, <1>1, <1>2, Steps DEF ReadCommand, ReadAck, ReadCall, StateStep, WireStep,
     ReconConnect, NetStep, ServerHandle, ServerAck, PeerReply, PeerCall, vars

\* The token stays cancelled, and a connection that is gone does not come back.
LEMMA GoneStaysGone ==
    ASSUME TypeInv, IdsInv, [Next]_vars
    PROVE  /\ ~ct' => ~ct
           /\ \A t \in Tasks : ~Alive(t) /\ conn'[t] = conn[t] => ~Alive(t)'
<1>0. /\ ConnTypes /\ TypeOK /\ DeadIsEmpty /\ ConnsPast /\ epoch \in Nat
      /\ \A t \in Tasks : conn[t] \in Nat
  BY TypesAgree DEF TypeInv, IdsInv, ConnTypes, TaskTypes, Conns
<1>1. CASE \E t \in Tasks : TaskStep(t)
  <2>1. UNCHANGED connVars
    BY <1>1, TaskOtherStep
  <2>2. QED
    BY <2>1 DEF connVars, ct, Alive
<1>2. CASE ReadCommand \/ ReadAck \/ ReadCall \/ NetStep \/ UNCHANGED vars
  <2>1. UNCHANGED connVars
    BY <1>2 DEF ReadCommand, ReadAck, ReadCall, NetStep, ServerHandle, ServerAck, PeerReply,
                PeerCall, vars
  <2>2. QED
    BY <2>1 DEF connVars, ct, Alive
<1>3. CASE StateStep
  BY <1>3 DEF StateStep, ct, Alive
<1>4. CASE WireStep
  BY <1>4 DEF WireStep, WireEnds, ct, Alive
<1>5. CASE ReconConnect /\ ~up
  <2>1. epoch' = epoch + 1 /\ close' = close
    BY <1>5 DEF ReconConnect
  <2>2. QED
    BY <1>0, <2>1 DEF ConnsPast, ct, Alive
<1>6. QED
  BY <1>0, <1>1, <1>2, <1>3, <1>4, <1>5, Steps

-----------------------------------------------------------------------------
(* What the retries report and repeat: the proof *)

\* The ack of a call is in the server, on the way or in the oneshot channel.
AckUnderway(i) == i \in acked \cup unacked \/ <<"ack", i>> \in Range(net_in)

\* The server handles a call of a caller, in its present attempt.
Handles(t) == /\ t \in Callers /\ id[t] \in net_out
              /\ unacked' = unacked \cup {id[t]}
              /\ handled' = handled \cup {<<t, id[t], epoch>>}
              /\ UNCHANGED <<acked, net_in, epoch, close>>
              /\ UNCHANGED taskVars

\* An ack is underway when it was before, or when the server has just handled
\* the call; nothing else adds to what was handled.
LEMMA AcksAreMade ==
    ASSUME TypeInv, [Next]_vars
    PROVE  \/ \E t \in Callers : Handles(t)
           \/ handled' = handled /\ \A i : AckUnderway(i)' => AckUnderway(i)
<1>0. TypeOK /\ DeadIsEmpty /\ NetTypes /\ ReadTypes
  BY TypesAgree DEF TypeInv
<1>1. CASE \E t \in Tasks : TaskStep(t)
  <2>1. PICK t \in Tasks : TaskStep(t)
    BY <1>1
  <2>2. acked' \subseteq acked
    BY <2>1 DEF TaskStep, Ends, EndAttempt, Moves, Skips, Subscribe, Send, RecvSubscribe, Recv,
                readVars
  <2>3. QED
    BY <2>1, <2>2, TaskOtherStep DEF AckUnderway
<1>2. CASE ReadCommand \/ StateStep \/ (ReconConnect /\ ~up) \/ UNCHANGED vars
  <2>1. UNCHANGED <<acked, netVars, histVars>>
    BY <1>2 DEF ReadCommand, StateStep, ReconConnect, vars, readVars
  <2>2. QED
    BY <2>1 DEF AckUnderway, netVars, histVars
<1>3. CASE ReadAck
  <2>1. Range(net_in) = {Head(net_in)} \cup Range(Tail(net_in)) /\ Head(net_in) \in Answers
    BY <1>0, <1>3, SeqRange, SeqOps DEF ReadAck, NetTypes
  <2>2. Head(net_in) = <<"ack", Head(net_in)[2]>>
    BY <1>3, <2>1 DEF ReadAck, Answers
  <2>3. /\ acked' \subseteq acked \cup {Head(net_in)[2]} /\ net_in' = Tail(net_in)
        /\ UNCHANGED <<unacked, handled>>
    BY <1>3 DEF ReadAck, histVars
  <2>4. QED
    BY <2>1, <2>2, <2>3 DEF AckUnderway
<1>4. CASE ReadCall
  <2>1. Range(net_in) = {Head(net_in)} \cup Range(Tail(net_in))
    BY <1>0, <1>4, SeqRange DEF ReadCall, NetTypes
  <2>2. QED
    BY <1>4, <2>1 DEF ReadCall, AckUnderway, histVars
<1>5. CASE WireStep
  <2>1. Range(<<>>) = {}
    BY DEF Range
  <2>2. QED
    BY <1>5, <2>1 DEF WireStep, WireEnds, AckUnderway, histVars
<1>6. CASE ServerHandle
  BY <1>6 DEF ServerHandle, Handles, readVars, connVars
<1>7. CASE ServerAck
  <2>1. PICK i \in unacked : unacked' = unacked \ {i} /\ net_in' = Append(net_in, <<"ack", i>>)
    BY <1>7 DEF ServerAck
  <2>2. <<"ack", i>> \in Answers
    BY <1>0 DEF NetTypes, Answers, Ids
  <2>3. Range(net_in') = Range(net_in) \cup {<<"ack", i>>}
    BY <1>0, <2>1, <2>2, SeqRange DEF NetTypes
  <2>4. ASSUME NEW j, AckUnderway(j)' PROVE AckUnderway(j)
    <3>1. acked' = acked
      BY <1>7 DEF ServerAck, readVars
    <3>2. <<"ack", j>> = <<"ack", i>> => j = i
      OBVIOUS
    <3>3. QED
      BY <2>1, <2>3, <2>4, <3>1, <3>2 DEF AckUnderway
  <2>5. QED
    BY <1>7, <2>4 DEF ServerAck, histVars
<1>8. CASE PeerReply \/ PeerCall
  <2>1. PICK i \in 0 .. MaxIds : net_in' = Append(net_in, <<"call", i>>)
    BY <1>0, <1>8, E2ECallAssumption DEF PeerReply, PeerCall, NetTypes, Ids
  <2>2. <<"call", i>> \in Answers
    BY DEF Answers
  <2>3. Range(net_in') = Range(net_in) \cup {<<"call", i>>}
    BY <1>0, <2>1, <2>2, SeqRange DEF NetTypes
  <2>4. \A j : <<"ack", j>> # <<"call", i>>
    OBVIOUS
  <2>5. UNCHANGED <<acked, unacked, handled>>
    BY <1>8 DEF PeerReply, PeerCall, readVars, histVars
  <2>6. QED
    BY <2>3, <2>4, <2>5 DEF AckUnderway
<1>9. QED
  BY <1>0, <1>1, <1>2, <1>3, <1>4, <1>5, <1>6, <1>7, <1>8, Steps DEF NetStep

\* The calls on their way are those of the connection that is up.
LEMMA SentStep == TypeInv /\ IdsInv /\ SentOnConn /\ [Next]_vars => SentOnConn'
<1> SUFFICES ASSUME TypeInv, IdsInv, SentOnConn, [Next]_vars, NEW s \in Callers, id'[s] \in net_out'
             PROVE  conn'[s] = epoch'
  BY DEF SentOnConn
<1>0. /\ TypeOK /\ DeadIsEmpty /\ IdsDrawn /\ TasksInRole /\ TaskTypes /\ NetTypes
      /\ s \in Tasks /\ last_id \in Nat /\ \A i \in net_out : i \in Nat
  <2>1. TypeOK /\ DeadIsEmpty /\ IdsDrawn /\ TasksInRole /\ TaskTypes /\ NetTypes /\ s \in Tasks
    BY TypesAgree, TasksAre, Zenon DEF TypeInv, IdsInv
  <2>2. last_id \in Nat
    BY <2>1 DEF TaskTypes
  <2>3. \A i \in net_out : i \in Nat
    BY <2>1 DEF NetTypes, Ids
  <2>4. QED
    BY <2>1, <2>2, <2>3, Zenon
<1>1. CASE Subscribe(s)
  <2>1. id'[s] = last_id + 1 /\ net_out' = net_out
    BY <1>0, <1>1 DEF Subscribe, TaskTypes, netVars
  <2>2. \A i \in net_out : i <= last_id
    BY <1>0 DEF IdsDrawn
  <2>3. QED
    BY <1>0, <2>1, <2>2
<1>2. CASE CallerGoes(s)
  <2>1. id'[s] = id[s] /\ conn'[s] = conn[s]
    BY <1>2 DEF CallerGoes
  <2>2. CASE id[s] \in net_out /\ epoch' = epoch
    BY <2>1, <2>2 DEF SentOnConn
  <2>3. CASE \E t \in Tasks : TaskStep(t)
    <3>1. PICK t \in Tasks : TaskStep(t)
      BY <2>3
    <3>2. epoch' = epoch
      BY <3>1, TaskOtherStep DEF connVars
    <3>3. CASE Send(t)
      <4>1. net_out' = net_out \cup {id[t]} /\ conn[t] = epoch /\ t \in Callers /\ id[t] \in Ids
        BY <1>0, <3>3 DEF Send, Alive, TasksInRole
      <4>2. CASE id[s] = id[t]
        <5>1. id[s] # 0
          BY <4>1, <4>2 DEF Ids
        <5>2. s = t
          BY <1>0, <4>1, <4>2, <5>1 DEF IdsDrawn
        <5>3. QED
          BY <2>1, <3>2, <4>1, <5>2
      <4>3. CASE id[s] # id[t]
        BY <2>1, <2>2, <3>2, <4>1, <4>3
      <4>4. QED
        BY <4>2, <4>3
    <3>4. CASE ~Send(t)
      <4>1. net_out' = net_out
        BY <3>1, <3>4 DEF TaskStep, Ends, Moves, Skips, Subscribe, RecvSubscribe, Recv, netVars
      <4>2. QED
        BY <2>1, <2>2, <3>2, <4>1
    <3>5. QED
      BY <3>3, <3>4
  <2>4. CASE WireStep
    BY <2>4 DEF WireStep, WireEnds
  <2>5. CASE ReconConnect /\ ~up
    BY <1>0, <2>5 DEF ReconConnect, DeadIsEmpty, netVars
  <2>6. CASE NetStep
    BY <2>1, <2>2, <2>6 DEF NetStep, ServerHandle, ServerAck, PeerReply, PeerCall, connVars
  <2>7. CASE ReadCommand \/ ReadAck \/ ReadCall \/ StateStep \/ UNCHANGED vars
    BY <2>1, <2>2, <2>7 DEF ReadCommand, ReadAck, ReadCall, StateStep, vars, connVars, netVars
  <2>8. QED
    BY <1>0, <2>3, <2>4, <2>5, <2>6, <2>7, Steps
<1>3. QED
  BY <1>1, <1>2, CallerSteps

\* Acks are for what was handled, and a caller past the ack has seen one.
LEMMA AckedStep ==
    TypeInv /\ IdsInv /\ SentOnConn /\ AckedHandled /\ PastAckHandled /\ [Next]_vars
        => AckedHandled' /\ PastAckHandled'
<1> SUFFICES ASSUME TypeInv, IdsInv, SentOnConn, AckedHandled, PastAckHandled, [Next]_vars,
                    NEW s \in Callers
             PROVE  /\ AckUnderway(id[s])' => <<s, id'[s], conn'[s]>> \in handled'
                    /\ pc'[s] \in {"reply", "ok"} => <<s, id'[s], conn'[s]>> \in handled'
  BY DEF AckedHandled, PastAckHandled, AckUnderway
<1>0. /\ TypeOK /\ DeadIsEmpty /\ IdsDrawn /\ TasksInRole /\ TaskTypes /\ NetTypes /\ ReadTypes
      /\ HistTypes /\ s \in Tasks /\ last_id \in Nat /\ id[s] \in 0 .. MaxIds
  BY TypesAgree, TasksAre DEF TypeInv, IdsInv, TaskTypes
<1>a. AckUnderway(id[s]) => <<s, id[s], conn[s]>> \in handled
  BY DEF AckedHandled, AckUnderway
<1>1. CASE Subscribe(s)
  <2>1. /\ id'[s] = last_id + 1 /\ pc'[s] = "send"
        /\ UNCHANGED <<acked, unacked, net_in>>
    BY <1>0, <1>1 DEF Subscribe, Goto, TaskTypes, netVars
  <2>2. ~AckUnderway(last_id + 1)
    <3>1. \A i \in acked \cup unacked : i \in Nat /\ i <= last_id
      BY <1>0 DEF IdsDrawn, ReadTypes, NetTypes, Ids
    <3>2. <<"ack", last_id + 1>> \notin Range(net_in)
      <4>1. SUFFICES ASSUME <<"ack", last_id + 1>> \in Range(net_in) PROVE FALSE
        OBVIOUS
      <4>2. <<"ack", last_id + 1>>[2] <= last_id
        BY <1>0, <4>1 DEF IdsDrawn
      <4>3. QED
        BY <1>0, <4>2
    <3>3. QED
      BY <1>0, <3>1, <3>2 DEF AckUnderway
  <2>3. QED
    BY <2>1, <2>2 DEF AckUnderway
<1>2. CASE CallerGoes(s)
  <2>1. id'[s] = id[s] /\ conn'[s] = conn[s]
    BY <1>2 DEF CallerGoes
  <2>2. CASE \E t \in Callers : Handles(t)
    <3>1. PICK t \in Callers : Handles(t)
      BY <2>2
    <3>2. UNCHANGED <<acked, net_in, pc>> /\ unacked' = unacked \cup {id[t]}
          /\ handled' = handled \cup {<<t, id[t], epoch>>} /\ id[t] \in Ids
      BY <1>0, <3>1 DEF Handles, taskVars, NetTypes
    <3>3. ASSUME id[s] = id[t] PROVE <<s, id[s], conn[s]>> \in handled'
      <4>1. s = t
        BY <1>0, <3>2, <3>3 DEF IdsDrawn, Ids
      <4>2. conn[t] = epoch
        BY <3>1 DEF SentOnConn, Handles
      <4>3. QED
        BY <3>2, <4>1, <4>2
    <3>4. AckUnderway(id[s])' => AckUnderway(id[s]) \/ id[s] = id[t]
      BY <2>1, <3>2 DEF AckUnderway
    <3>5. QED
      BY <1>a, <2>1, <3>2, <3>3, <3>4 DEF PastAckHandled
  <2>3. CASE handled' = handled /\ \A i : AckUnderway(i)' => AckUnderway(i)
    <3>1. AckUnderway(id[s])' => AckUnderway(id[s])
      BY <2>1, <2>3 DEF AckUnderway
    <3>2. QED
      BY <1>2, <1>a, <2>1, <2>3, <3>1 DEF CallerGoes, PastAckHandled, AckUnderway
  <2>4. QED
    BY <2>2, <2>3, AcksAreMade
<1>3. QED
  BY <1>1, <1>2, CallerSteps

\* A task tries again once the connection of its attempt is gone.
LEMMA BreakStep ==
    TypeInv /\ IdsInv /\ RetriesAfterBreak /\ [Next]_vars => RetriesAfterBreak'
<1> SUFFICES ASSUME TypeInv, IdsInv, RetriesAfterBreak, [Next]_vars, ~ct', NEW s \in Callers,
                    pc'[s] \in {"state", "attempt"}
             PROVE  id'[s] = 0 \/ ~Alive(s)'
  BY DEF RetriesAfterBreak
<1>0. s \in Tasks /\ TaskTypes
  BY TasksAre DEF TypeInv
<1>1. CASE Subscribe(s)
  BY <1>0, <1>1 DEF Subscribe, Goto, TaskTypes
<1>2. CASE CallerGoes(s)
  <2>1. id'[s] = id[s] /\ conn'[s] = conn[s] /\ ~ct
    BY <1>2, GoneStaysGone DEF CallerGoes
  <2>2. id[s] = 0 \/ ~Alive(s)
    BY <1>2, <2>1 DEF CallerGoes, RetriesAfterBreak
  <2>3. QED
    BY <1>0, <2>1, <2>2, GoneStaysGone
<1>3. QED
  BY <1>1, <1>2, CallerSteps

\* The server sees the present attempt of a call, after those on earlier connections.
LEMMA HandledStep ==
    /\ TypeInv /\ IdsInv /\ SentOnConn /\ RetriesAfterBreak /\ HandledPast /\ OncePerConnection
    /\ [Next]_vars
    => HandledPast' /\ OncePerConnection'
<1> SUFFICES ASSUME TypeInv, IdsInv, SentOnConn, RetriesAfterBreak, HandledPast,
                    OncePerConnection, [Next]_vars, ~ct'
             PROVE  /\ \A h \in handled' : \/ h[2] = id'[h[1]] /\ h[3] = conn'[h[1]]
                                           \/ h[3] < conn'[h[1]]
                    /\ \A g, h \in handled' : g[1] = h[1] /\ g[3] = h[3] => g[2] = h[2]
  BY DEF HandledPast, OncePerConnection
<1>0. /\ TaskTypes /\ HistTypes /\ ConnsPast /\ ConnTypes /\ ~ct
      /\ \A h \in handled : /\ h[1] \in Callers /\ h[1] \in Tasks /\ h[2] \in Ids
                            /\ h[3] \in Conns
      /\ \A t \in Tasks : conn[t] \in Nat /\ conn[t] <= epoch
      /\ Callers \subseteq Tasks /\ Conns \subseteq Nat /\ epoch \in Nat
  <2>1. TaskTypes /\ HistTypes /\ ConnsPast /\ ConnTypes /\ ~ct
    BY GoneStaysGone DEF TypeInv, IdsInv
  <2>2. Conns \subseteq Nat /\ Callers \subseteq Tasks
    BY TasksAre DEF Conns
  <2>3. QED
    BY <2>1, <2>2 DEF TaskTypes, HistTypes, ConnsPast, ConnTypes
<1>a. \A h \in handled : \/ h[2] = id[h[1]] /\ h[3] = conn[h[1]]
                         \/ h[3] < conn[h[1]]
  BY <1>0 DEF HandledPast
<1>b. \A g, h \in handled : g[1] = h[1] /\ g[3] = h[3] => g[2] = h[2]
  BY <1>0 DEF OncePerConnection
<1>1. CASE \E t \in Callers : Handles(t)
  <2>1. PICK t \in Callers : Handles(t)
    BY <1>1
  <2>2. /\ handled' = handled \cup {<<t, id[t], epoch>>} /\ id' = id /\ conn' = conn
        /\ conn[t] = epoch
    BY <2>1 DEF Handles, SentOnConn, taskVars
  <2>3. \A h \in handled : h[1] = t /\ h[3] = epoch => h[2] = id[t]
    BY <1>0, <1>a, <2>2
  <2>4. QED
    BY <1>0, <1>a, <1>b, <2>2, <2>3
<1>2. CASE handled' = handled
  <2>1. ASSUME NEW h \in handled
        PROVE  (h[2] = id'[h[1]] /\ h[3] = conn'[h[1]]) \/ h[3] < conn'[h[1]]
    <3> DEFINE t == h[1]
    <3>0. t \in Callers /\ t \in Tasks /\ h[2] \in Ids /\ h[3] \in Conns
      BY <1>0, <2>1
    <3>1. (h[2] = id[t] /\ h[3] = conn[t]) \/ h[3] < conn[t]
      BY <1>a, <2>1
    <3> HIDE DEF t
    <3>2. CASE CallerGoes(t)
      BY <3>1, <3>2 DEF CallerGoes, t
    <3>3. CASE Subscribe(t)
      <4>1. conn'[t] = epoch /\ up /\ pc[t] = "attempt"
        BY <1>0, <3>0, <3>3 DEF Subscribe, TaskTypes
      <4>2. id[t] = 0 \/ conn[t] # epoch
        BY <1>0, <3>0, <4>1 DEF RetriesAfterBreak, Alive
      <4>3. CASE id[t] = 0
        <5>1. conn[t] = 1
          BY <1>0, <3>0, <4>3 DEF ConnsPast
        <5>2. h[2] # 0 /\ h[3] >= 1 /\ h[3] \in Nat
          BY <3>0, E2ECallAssumption DEF Ids, Conns
        <5>3. QED
          BY <3>1, <4>3, <5>1, <5>2
      <4>4. CASE conn[t] # epoch
        <5>a. conn[t] \in Nat /\ conn[t] <= epoch /\ epoch \in Nat
          BY <1>0, <3>0
        <5>b. h[3] \in Nat
          BY <3>0 DEF Conns
        <5>1. conn[t] < epoch /\ h[3] \in Nat /\ conn[t] \in Nat
          BY <4>4, <5>a, <5>b
        <5>2. h[3] <= conn[t]
          BY <3>1, <5>1
        <5>3. h[3] < epoch
          BY <1>0, <5>1, <5>2
        <5>4. QED
          BY <4>1, <5>3 DEF t
      <4>5. QED
        BY <4>2, <4>3, <4>4
    <3>4. QED
      BY <3>0, <3>2, <3>3, CallerSteps
  <2>2. QED
    BY <1>2, <1>b, <2>1
<1>3. QED
  BY <1>1, <1>2, AcksAreMade

\* The invariants of the retries hold at the start.
LEMMA RetryInit == Init => IdsInv /\ RetryInv
<1> SUFFICES ASSUME Init PROVE IdsInv /\ RetryInv
  OBVIOUS
<1>1. Range(<<>>) = {}
  BY DEF Range
<1>2. IdsInv
  <2>1. \A c \in Conns : calls[c] = <<>>
    BY DEF Init, Conns
  <2>2. \A c \in Conns : \A i \in 1 .. Len(calls[c]) : calls[c][i] <= last_id
    BY <2>1
  <2>3. \A x \in Range(net_in) \cup Range(commands) : x[2] <= last_id
    BY <1>1 DEF Init
  <2>4. \A t \in Tasks : id[t] = 0 /\ conn[t] = 1
    BY DEF Init
  <2>5. net_out \cup unacked \cup unreplied \cup acked \cup tx_call_ack = {}
    BY DEF Init
  <2>6. last_id = 0 /\ epoch = 1
    BY DEF Init
  <2>7. IdsDrawn
    BY <2>2, <2>3, <2>4, <2>5, <2>6, TasksAre DEF IdsDrawn
  <2>8. QED
    BY <2>4, <2>6, <2>7, TasksAre DEF IdsInv, ConnsPast
<1>3. RetryInv
  BY <1>1, TasksAre DEF Init, RetryInv, SentOnConn, AckedHandled, PastAckHandled,
     RetriesAfterBreak, HandledPast, OncePerConnection
<1>4. QED
  BY <1>2, <1>3

\* They hold always.
LEMMA AlwaysRetried == Spec => [](TypeInv /\ IdsInv /\ RetryInv)
<1>1. TypeInv /\ IdsInv /\ RetryInv /\ [Next]_vars => TypeInv' /\ IdsInv' /\ RetryInv'
  BY TypeInvStep, IdsStep, SentStep, AckedStep, BreakStep, HandledStep DEF RetryInv
<1>2. QED
  BY <1>1, TypeInvInit, RetryInit, PTL DEF Spec

\* A call that returned Ok was handled by the server under the id the caller got;
\* and until the token is cancelled the server sees a call again on another
\* connection only, however the retry loops, the reconnection and the breaks of
\* the connection interleave.
THEOREM SoundRetries == Spec => []RetriesAreSound
<1>1. RetryInv => RetriesAreSound
  BY DEF RetryInv, PastAckHandled, RetriesAreSound, OkWasHandled
<1>2. QED
  BY <1>1, AlwaysRetried, PTL

-----------------------------------------------------------------------------
(* Replies *)

\* Calls arrive ahead of every task, and only calls that do not match are passed.
LEMMA ReplyStep == TypeInv /\ IdsInv /\ ReplyAhead /\ [Next]_vars => ReplyAhead'
<1> SUFFICES ASSUME TypeInv, IdsInv, ReplyAhead, [Next]_vars,
                    NEW s \in Callers, pc'[s] \in {"send", "ack", "reply"},
                    NEW i \in 1 .. Len(calls'[conn'[s]]), calls'[conn'[s]][i] = id'[s]
             PROVE  pos'[s] < i \/ i + Capacity <= Len(calls'[conn'[s]])
  BY DEF ReplyAhead
<1>0. /\ TaskTypes /\ ReadTypes /\ ConnTypes /\ PosBounded /\ IdsDrawn
      /\ s \in Tasks /\ last_id \in Nat /\ Capacity \in Nat
      /\ conn[s] \in Conns /\ epoch \in Conns /\ pos[s] \in Nat
  BY TasksAre, E2ECallAssumption DEF TypeInv, IdsInv, TaskTypes, ConnTypes
<1>1. CASE Subscribe(s)
  <2>1. id'[s] = last_id + 1 /\ conn'[s] = epoch /\ calls' = calls
    BY <1>0, <1>1 DEF Subscribe, TaskTypes
  <2>2. calls[epoch][i] <= last_id
    BY <1>0, <2>1 DEF IdsDrawn
  <2>3. QED
    BY <1>0, <2>1, <2>2
<1>2. CASE CallerGoes(s)
  <2> DEFINE q == calls[conn[s]]
  <2> DEFINE r == calls'[conn[s]]
  <2>1. /\ id'[s] = id[s] /\ conn'[s] = conn[s] /\ pc[s] \in {"send", "ack", "reply"}
        /\ \/ pos'[s] = pos[s]
           \/ HasNext(s) /\ NextCall(s) # id[s] /\ pos'[s] = NextPos(s) /\ calls' = calls
    BY <1>2 DEF CallerGoes
  <2>2. /\ Len(q) <= Len(r) /\ Len(q) \in Nat
        /\ \A j \in 1 .. Len(q) : r[j] = q[j]
    BY <1>0, CallsGrow
  <2>3. r \in Seq(0 .. MaxIds)
    BY <1>0, CallsGrow
  <2>4. Len(r) \in Nat
    BY <2>3
  <2>5. pos[s] <= Len(q)
    BY <1>0 DEF PosBounded
  <2>6. i \in 1 .. Len(r) /\ r[i] = id[s]
    BY <2>1
  <2>7. \A j \in 1 .. Len(q) : q[j] = id[s] => pos[s] < j \/ j + Capacity <= Len(q)
    BY <2>1 DEF ReplyAhead
  <2>8. (HasNext(s) /\ pos'[s] = NextPos(s) /\ NextCall(s) # id[s]) =>
          /\ NextPos(s) \in Nat /\ q[NextPos(s)] # id[s]
          /\ \A j \in Nat : pos[s] < j /\ j < NextPos(s) => j + Capacity <= Len(q)
    BY <1>0, NextPosBounds DEF NextCall
  <2> HIDE DEF q, r
  <2>9. CASE pos'[s] = pos[s]
    <3>1. CASE i \in 1 .. Len(q)
      <4>1. q[i] = id[s]
        BY <2>2, <2>6, <3>1
      <4>2. pos[s] < i \/ i + Capacity <= Len(q)
        BY <2>7, <3>1, <4>1
      <4>3. i + Capacity <= Len(q) => i + Capacity <= Len(r)
        BY <1>0, <2>2, <2>4, <2>6
      <4>4. QED
        BY <2>1, <2>9, <4>2, <4>3 DEF r
    <3>2. CASE i \notin 1 .. Len(q)
      <4>1. pos[s] < i
        BY <1>0, <2>2, <2>4, <2>5, <2>6, <3>2
      <4>2. QED
        BY <2>9, <4>1
    <3>3. QED
      BY <3>1, <3>2
  <2>10. CASE HasNext(s) /\ NextCall(s) # id[s] /\ pos'[s] = NextPos(s) /\ calls' = calls
    <3>1. r = q /\ i \in 1 .. Len(q) /\ q[i] = id[s]
      BY <2>6, <2>10 DEF r, q
    <3>2. NextPos(s) \in Nat /\ i # NextPos(s)
          /\ \A j \in Nat : pos[s] < j /\ j < NextPos(s) => j + Capacity <= Len(q)
      BY <2>8, <2>10, <3>1
    <3>3. pos[s] < i \/ i + Capacity <= Len(q)
      BY <2>7, <3>1
    <3>4. i \in Nat
      BY <3>1
    <3>5. NextPos(s) < i \/ i + Capacity <= Len(q)
      BY <3>2, <3>3, <3>4
    <3>6. QED
      BY <2>1, <2>10, <3>1, <3>5 DEF r
  <2>11. QED
    BY <2>1, <2>9, <2>10
<1>3. QED
  BY <1>1, <1>2, CallerSteps

\* The reply to a call in progress is still ahead of the task that waits for it,
\* whether it overtook the ack or came with calls for others, unless the channel
\* has dropped it.
THEOREM ReplyNotMissed == Spec => []NoReplyMissed
<1>1. Init => ReplyAhead
  BY TasksAre DEF Init, ReplyAhead
<1>2. ReplyAhead => NoReplyMissed
  BY DEF ReplyAhead, NoReplyMissed
<1>3. QED
  BY <1>1, <1>2, AlwaysRetried, ReplyStep, PTL DEF Spec

-----------------------------------------------------------------------------
(* Received calls *)

\* A receiver stays on its connection or goes to the newest one; it starts at the
\* tail of the channel, and moves only when it ends.
ReceiverGoes(r) ==
    /\ conn'[r] \in {conn[r], epoch}
    /\ pc'[r] = "recv" =>
         \/ pc[r] = "recv" /\ conn'[r] = conn[r] /\ pos'[r] = pos[r]
         \/ conn'[r] = epoch /\ pos'[r] = Len(calls[epoch])

\* The receiver returns the call it goes to, and ends.
ReceiverReturns(r) ==
    /\ received'[r] = Append(received[r], <<conn[r], NextPos(r)>>)
    /\ pc[r] = "recv" /\ pc'[r] # "recv" /\ conn'[r] = conn[r] /\ HasNext(r)

\* Every step takes a receiver forward, and adds to what it returned only the
\* call it goes to.
LEMMA ReceiverSteps ==
    ASSUME TypeInv, [Next]_vars, NEW r \in Receivers
    PROVE  ReceiverGoes(r) /\ (received'[r] = received[r] \/ ReceiverReturns(r))
<1>0. /\ TaskTypes /\ HistTypes /\ TypeOK /\ DeadIsEmpty /\ TasksInRole
      /\ r \in Tasks /\ r \notin Callers
  BY TypesAgree, TasksAre DEF TypeInv
<1>1. CASE \E t \in Tasks : TaskStep(t)
  <2>1. PICK t \in Tasks : TaskStep(t)
    BY <1>1
  <2>2. CASE r # t
    <3>1. pc'[r] = pc[r] /\ conn'[r] = conn[r] /\ pos'[r] = pos[r]
      BY <1>0, <2>1, <2>2, OneTask
    <3>2. received'[r] = received[r]
      BY <1>0, <2>1, <2>2 DEF HistTypes, TaskStep, Ends, Moves, Skips, Subscribe, Send,
         RecvSubscribe, Recv, histVars
    <3>3. QED
      BY <1>0, <3>1, <3>2 DEF ReceiverGoes
  <2>3. CASE r = t
    <3>1. CASE \E place \in {"state", "err", "ok"} : Ends(r, place)
      <4>1. PICK place \in {"state", "err", "ok"} : Ends(r, place)
        BY <3>1
      <4>2. conn' = conn /\ received' = received
        BY <4>1 DEF Ends, histVars
      <4>3. pc'[r] = place
        BY <1>0, <4>1 DEF Ends, EndAttempt, Goto, TaskTypes
      <4>4. QED
        BY <4>2, <4>3 DEF ReceiverGoes
    <3>2. CASE \E place \in {"state", "attempt", "err", "reply"} : Moves(r, place)
      <4>1. PICK place \in {"state", "attempt", "err", "reply"} : Moves(r, place)
        BY <3>2
      <4>2. pc'[r] = place /\ conn' = conn /\ received' = received
        BY <1>0, <4>1 DEF Moves, Goto, TaskTypes, histVars
      <4>3. QED
        BY <4>2 DEF ReceiverGoes
    <3>3. CASE Skips(r) \/ Subscribe(r) \/ Send(r)
      BY <1>0, <3>3 DEF Skips, Subscribe, Send, TasksInRole
    <3>4. CASE RecvSubscribe(r)
      <4>1. conn'[r] = epoch /\ pos'[r] = Len(calls[epoch]) /\ received' = received
        BY <1>0, <3>4 DEF RecvSubscribe, TailOfCalls, TaskTypes, histVars
      <4>2. QED
        BY <4>1 DEF ReceiverGoes
    <3>5. CASE Recv(r)
      <4>1. conn' = conn /\ HasNext(r) /\ pc[r] = "recv" /\ pc'[r] # "recv"
        BY <1>0, <3>5 DEF Recv, Goto, TaskTypes
      <4>2. received'[r] = received[r]
              \/ received'[r] = Append(received[r], <<conn[r], NextPos(r)>>)
        BY <1>0, <3>5 DEF Recv, HistTypes
      <4>3. QED
        BY <4>1, <4>2 DEF ReceiverGoes, ReceiverReturns
    <3>6. QED
      BY <2>1, <2>3, <3>1, <3>2, <3>3, <3>4, <3>5 DEF TaskStep
  <2>4. QED
    BY <2>2, <2>3
<1>2. CASE UNCHANGED taskVars /\ received' = received
  BY <1>0, <1>2 DEF taskVars, ReceiverGoes
<1>3. QED
  BY <1>0, <1>1, <1>2, Steps DEF ReadCommand, ReadAck, ReadCall, StateStep, WireStep,
     ReconConnect, NetStep, ServerHandle, ServerAck, PeerReply, PeerCall, vars, histVars

\* A call that is behind a receiver stays behind it.
LEMMA StaysPast ==
    ASSUME TypeInv, IdsInv, [Next]_vars, NEW r \in Receivers, NEW x \in Nat, NEW y \in Nat,
           \/ x < conn[r]
           \/ x = conn[r] /\ y <= Len(calls[conn[r]]) /\ (pc[r] = "recv" => y <= pos[r])
    PROVE  \/ x < conn'[r]
           \/ x = conn'[r] /\ y <= Len(calls'[conn'[r]]) /\ (pc'[r] = "recv" => y <= pos'[r])
<1>0. /\ conn[r] \in Conns /\ epoch \in Conns /\ pos[r] \in Nat
      /\ Conns \subseteq Nat /\ conn[r] <= epoch
  BY TasksAre DEF TypeInv, TaskTypes, ConnTypes, IdsInv, ConnsPast, Conns
<1>1. \A c \in Conns : /\ Len(calls[c]) \in Nat /\ Len(calls'[c]) \in Nat
                       /\ Len(calls[c]) <= Len(calls'[c])
  BY CallsGrow
<1>2. ReceiverGoes(r)
  BY ReceiverSteps
<1>3. CASE conn'[r] = conn[r]
  <2>1. CASE x < conn[r]
    BY <1>3, <2>1
  <2>2. CASE x = conn[r] /\ y <= Len(calls[conn[r]]) /\ (pc[r] = "recv" => y <= pos[r])
    <3> DEFINE n == Len(calls[conn[r]])
    <3> DEFINE m == Len(calls'[conn[r]])
    <3>1. n \in Nat /\ m \in Nat /\ n <= m
      BY <1>0, <1>1
    <3>2. y <= n
      BY <2>2
    <3>3. y <= m
      <4> HIDE DEF n, m
      <4>1. QED
        BY <3>1, <3>2
    <3>4. pc'[r] = "recv" => y <= pos'[r]
      BY <1>2, <1>3, <2>2 DEF ReceiverGoes
    <3>5. QED
      BY <1>3, <2>2, <3>3, <3>4
  <2>3. QED
    BY <2>1, <2>2
<1>4. CASE conn'[r] # conn[r]
  <2>1. conn'[r] = epoch
    BY <1>2, <1>4 DEF ReceiverGoes
  <2>2. PICK c \in Nat : c = conn[r]
    BY <1>0
  <2>3. PICK e \in Nat : e = epoch
    BY <1>0
  <2>4. x <= c /\ c < e
    BY <1>0, <1>4, <2>1, <2>2, <2>3
  <2>5. x < e
    BY <2>2, <2>3, <2>4
  <2>6. QED
    BY <2>1, <2>3, <2>5
<1>5. QED
  BY <1>3, <1>4

\* What is returned comes after what was returned before.
LEMMA ReceivedStep ==
    TypeInv /\ IdsInv /\ LastIsPast /\ ReceivedInOrder /\ [Next]_vars
        => LastIsPast' /\ ReceivedInOrder'
<1> SUFFICES ASSUME TypeInv, IdsInv, LastIsPast, ReceivedInOrder, [Next]_vars,
                    NEW r \in Receivers
             PROVE  /\ received'[r] # <<>> =>
                         LET last == received'[r][Len(received'[r])] IN
                         \/ last[1] < conn'[r]
                         \/ /\ last[1] = conn'[r] /\ last[2] <= Len(calls'[conn'[r]])
                            /\ pc'[r] = "recv" => last[2] <= pos'[r]
                    /\ \A i \in 1 .. Len(received'[r]) - 1 :
                         LET a == received'[r][i]
                             b == received'[r][i + 1]
                         IN  a[1] < b[1] \/ (a[1] = b[1] /\ a[2] < b[2])
  BY DEF LastIsPast, ReceivedInOrder
<1> DEFINE q == received[r]
<1>0. /\ q \in Seq(Conns \X (Nat \ {0})) /\ pos[r] \in Nat /\ conn[r] \in Conns
      /\ Conns \subseteq Nat
  BY TasksAre DEF TypeInv, HistTypes, TaskTypes, Conns
<1>1. Len(q) \in Nat /\ \A i \in 1 .. Len(q) : q[i][1] \in Nat /\ q[i][2] \in Nat
  <2>1. \A i \in 1 .. Len(q) : q[i] \in Conns \X (Nat \ {0})
    BY <1>0
  <2>2. QED
    BY <1>0, <2>1 DEF Conns
<1>2. q # <<>> => /\ Len(q) \in 1 .. Len(q)
                  /\ \/ q[Len(q)][1] < conn[r]
                     \/ /\ q[Len(q)][1] = conn[r] /\ q[Len(q)][2] <= Len(calls[conn[r]])
                        /\ pc[r] = "recv" => q[Len(q)][2] <= pos[r]
  BY <1>0 DEF LastIsPast
<1>3. \A i \in 1 .. Len(q) - 1 :
         q[i][1] < q[i + 1][1] \/ (q[i][1] = q[i + 1][1] /\ q[i][2] < q[i + 1][2])
  BY DEF ReceivedInOrder
<1>4. CASE received'[r] = received[r]
  <2>1. ASSUME q # <<>>
        PROVE  \/ q[Len(q)][1] < conn'[r]
               \/ /\ q[Len(q)][1] = conn'[r] /\ q[Len(q)][2] <= Len(calls'[conn'[r]])
                  /\ pc'[r] = "recv" => q[Len(q)][2] <= pos'[r]
    <3> DEFINE x == q[Len(q)][1]
    <3> DEFINE y == q[Len(q)][2]
    <3>1. /\ x \in Nat /\ y \in Nat
          /\ \/ x < conn[r]
             \/ x = conn[r] /\ y <= Len(calls[conn[r]]) /\ (pc[r] = "recv" => y <= pos[r])
      BY <1>1, <1>2, <2>1
    <3> HIDE DEF x, y
    <3>2. \/ x < conn'[r]
          \/ x = conn'[r] /\ y <= Len(calls'[conn'[r]]) /\ (pc'[r] = "recv" => y <= pos'[r])
      BY <3>1, StaysPast
    <3>3. QED
      BY <3>2 DEF x, y
  <2>2. QED
    BY <1>3, <1>4, <2>1
<1>5. CASE ReceiverReturns(r)
  <2> DEFINE n == NextPos(r)
  <2> DEFINE e == <<conn[r], n>>
  <2>1. n \in Nat /\ pos[r] < n /\ n <= Len(calls[conn[r]])
    BY <1>5, NextPosBounds, TasksAre DEF ReceiverReturns
  <2>2. /\ received'[r] = Append(q, e) /\ pc[r] = "recv" /\ pc'[r] # "recv"
        /\ conn'[r] = conn[r]
    BY <1>5 DEF ReceiverReturns
  <2>3. n <= Len(calls'[conn[r]])
    <3>1. /\ Len(calls[conn[r]]) \in Nat /\ Len(calls'[conn[r]]) \in Nat
          /\ Len(calls[conn[r]]) <= Len(calls'[conn[r]])
      <4>1. \A c \in Conns : /\ Len(calls[c]) \in Nat /\ Len(calls'[c]) \in Nat
                             /\ Len(calls[c]) <= Len(calls'[c])
        BY CallsGrow
      <4>2. QED
        BY <1>0, <4>1
    <3> HIDE DEF n
    <3>2. QED
      BY <2>1, <3>1
  <2> HIDE DEF n
  <2>4. e[1] = conn[r] /\ e[2] = n /\ e \in Conns \X (Nat \ {0})
    BY <1>0, <2>1
  <2> HIDE DEF e, q
  <2>5. /\ Len(Append(q, e)) = Len(q) + 1 /\ Append(q, e)[Len(q) + 1] = e
        /\ \A i \in 1 .. Len(q) : Append(q, e)[i] = q[i]
    BY <1>0, <2>4, AppendIs
  <2>6. LET last == received'[r][Len(received'[r])] IN
          \/ last[1] < conn'[r]
          \/ /\ last[1] = conn'[r] /\ last[2] <= Len(calls'[conn'[r]])
             /\ pc'[r] = "recv" => last[2] <= pos'[r]
    BY <2>2, <2>3, <2>4, <2>5
  <2>7. ASSUME NEW i \in 1 .. Len(received'[r]) - 1
        PROVE  LET a == received'[r][i]
                   b == received'[r][i + 1]
               IN  a[1] < b[1] \/ (a[1] = b[1] /\ a[2] < b[2])
    <3>1. i \in 1 .. Len(q) /\ received'[r][i] = q[i]
      BY <1>1, <2>2, <2>5, <2>7
    <3>2. CASE i = Len(q)
      <4>1. q # <<>>
        BY <3>1 DEF q
      <4>2. received'[r][i + 1] = e
        BY <2>2, <2>5, <3>2
      <4>3. q[i][1] < conn[r] \/ (q[i][1] = conn[r] /\ q[i][2] <= pos[r])
        BY <1>2, <2>2, <3>2, <4>1
      <4>4. q[i][2] \in Nat
        BY <1>1, <3>1
      <4>5. q[i][1] < e[1] \/ (q[i][1] = e[1] /\ q[i][2] < e[2])
        <5>1. \A x, y, z \in Nat : x <= y /\ y < z => x < z
          OBVIOUS
        <5>2. q[i][2] <= pos[r] => q[i][2] < n
          BY <1>0, <2>1, <4>4, <5>1, Zenon
        <5>3. QED
          BY <2>4, <4>3, <5>2, Zenon
      <4>6. QED
        BY <3>1, <4>2, <4>5
    <3>3. CASE i # Len(q)
      <4>1. i \in 1 .. Len(q) - 1 /\ i + 1 \in 1 .. Len(q)
        BY <1>1, <3>1, <3>3
      <4>2. received'[r][i + 1] = q[i + 1]
        BY <2>2, <2>5, <4>1
      <4>3. QED
        BY <1>3, <3>1, <4>1, <4>2
    <3>4. QED
      BY <3>2, <3>3
  <2>8. QED
    BY <2>6, <2>7
<1>6. QED
  BY <1>4, <1>5, ReceiverSteps

\* A loop of recv_call never returns a call twice nor an older one after it,
\* although every receive subscribes anew and the connection may change between.
THEOREM CallsInOrder == Spec => []ReceivedInOrder
<1>1. Init => LastIsPast /\ ReceivedInOrder
  BY DEF Init, LastIsPast, ReceivedInOrder
<1>2. QED
  BY <1>1, AlwaysRetried, ReceivedStep, PTL DEF Spec

-----------------------------------------------------------------------------
(* Subscriptions *)

\* An attempt in progress stays so, is ended with a command to remove its
\* subscription, or has lost its connection.
LEMMA ActiveSteps ==
    ASSUME TypeInv, up, NEW t \in Tasks, TaskStep(t), NEW i \in Ids, Active(i)
    PROVE  \/ Active(i)'
           \/ commands' = Append(commands, <<"remove", i>>)
<1>0. TaskTypes /\ Callers \subseteq Tasks /\ TasksInRole /\ epoch' = epoch
  BY TasksAre, TaskOtherStep DEF TypeInv, connVars
<1>1. PICK s \in Callers : id[s] = i /\ conn[s] = epoch /\ pc[s] \in {"send", "ack", "reply"}
  BY DEF Active
<1>2. CASE s # t
  <2>1. pc'[s] = pc[s] /\ id'[s] = id[s] /\ conn'[s] = conn[s]
    BY <1>0, <1>2, OneTask
  <2>2. QED
    BY <1>0, <1>1, <2>1 DEF Active
<1>3. CASE s = t
  <2>1. CASE \E place \in {"state", "err", "ok"} : Ends(t, place)
    <3>1. commands' = IF t \in Callers /\ Alive(t) THEN Append(commands, <<"remove", id[t]>>)
                                                   ELSE commands
      BY <2>1 DEF Ends, EndAttempt
    <3>2. t \in Callers /\ Alive(t) /\ id[t] = i
      BY <1>1, <1>3 DEF Alive
    <3>3. QED
      BY <3>1, <3>2
  <2>2. CASE \E place \in {"state", "attempt", "err", "reply"} : Moves(t, place)
    <3>1. PICK place \in {"state", "attempt", "err", "reply"} : Moves(t, place)
      BY <2>2
    <3>2. place = "reply"
      BY <1>1, <1>3, <3>1 DEF Moves
    <3>3. pc'[s] = "reply" /\ id'[s] = id[s] /\ conn'[s] = conn[s]
      BY <1>0, <1>3, <3>1, <3>2 DEF Moves, Goto, TaskTypes
    <3>4. QED
      BY <1>0, <1>1, <3>3 DEF Active
  <2>3. CASE Skips(t)
    BY <1>0, <1>1, <2>3 DEF Skips, Active
  <2>4. CASE Send(t)
    <3>1. pc'[s] = "ack" /\ id'[s] = id[s] /\ conn'[s] = conn[s]
      BY <1>0, <1>3, <2>4 DEF Send, Goto, TaskTypes
    <3>2. QED
      BY <1>0, <1>1, <3>1 DEF Active
  <2>5. CASE Subscribe(t) \/ RecvSubscribe(t) \/ Recv(t)
    BY <1>1, <1>3, <2>5 DEF Subscribe, RecvSubscribe, Recv
  <2>6. QED
    BY <2>1, <2>2, <2>3, <2>4, <2>5 DEF TaskStep
<1>4. QED
  BY <1>2, <1>3

\* What a task does to the commands: it adds one that removes, or one that
\* subscribes the id it draws.
LEMMA CommandSteps ==
    ASSUME TypeInv, NEW t \in Tasks, TaskStep(t)
    PROVE  /\ tx_call_ack' = tx_call_ack
           /\ \/ commands' = commands
              \/ \E i \in Ids : commands' = Append(commands, <<"remove", i>>)
              \/ /\ Subscribe(t) /\ last_id + 1 \in Ids
                 /\ commands' = Append(commands, <<"subscribe", last_id + 1>>)
<1>0. TaskTypes /\ TasksInRole
  BY DEF TypeInv
<1>1. CASE \E place \in {"state", "err", "ok"} : Ends(t, place)
  <2>1. commands' = IF t \in Callers /\ Alive(t) THEN Append(commands, <<"remove", id[t]>>)
                                                 ELSE commands
    BY <1>1 DEF Ends, EndAttempt
  <2>2. t \in Callers => id[t] \in Ids
    BY <1>0, <1>1, TasksAre DEF Ends, TasksInRole
  <2>3. tx_call_ack' = tx_call_ack
    BY <1>1 DEF Ends
  <2>4. QED
    BY <2>1, <2>2, <2>3
<1>2. CASE Subscribe(t)
  <2>1. last_id + 1 \in Ids
    BY <1>0, <1>2, E2ECallAssumption DEF Subscribe, TaskTypes, Ids
  <2>2. QED
    BY <1>2, <2>1 DEF Subscribe
<1>3. QED
  BY <1>1, <1>2 DEF TaskStep, Moves, Skips, Send, RecvSubscribe, Recv, readVars

\* Every subscription has its attempt or the command that removes it.
LEMMA SubscriptionTask ==
    ASSUME TypeInv, IdsInv, SubscriptionInv, NEW t \in Tasks, TaskStep(t)
    PROVE  SubscriptionInv'
<1>0. /\ commands \in Seq(Commands) /\ DeadIsEmpty /\ TaskTypes /\ IdsDrawn /\ last_id \in Nat
      /\ connVars' = connVars /\ SubscribedOrRemoved /\ RemovedLast
  BY TaskOtherStep DEF TypeInv, ReadTypes, TaskTypes, IdsInv, SubscriptionInv
<1>1. tx_call_ack' = tx_call_ack /\ epoch' = epoch /\ up' = up
  BY <1>0, CommandSteps DEF connVars
<1>2. CASE commands' = commands
  <2>1. RemovedLast'
    BY <1>0, <1>2 DEF RemovedLast
  <2>2. ASSUME NEW i \in Ids, i \in tx_call_ack \/ <<"subscribe", i>> \in Range(commands)
        PROVE  Active(i)' \/ <<"remove", i>> \in Range(commands)
    <3>1. up
      <4>1. SUFFICES ASSUME ~up PROVE FALSE
        OBVIOUS
      <4>2. tx_call_ack = {} /\ Range(commands) = {}
        BY <1>0, <4>1, SeqRange DEF DeadIsEmpty
      <4>3. QED
        BY <2>2, <4>2
    <3>2. commands # Append(commands, <<"remove", i>>)
      <4>1. <<"remove", i>> \in Commands
        BY DEF Commands
      <4>2. Len(commands) \in Nat /\ Len(Append(commands, <<"remove", i>>)) = Len(commands) + 1
        BY <1>0, <4>1, AppendIs
      <4>3. QED
        BY <4>2
    <3>3. Active(i) => Active(i)'
      BY <1>2, <3>1, <3>2, ActiveSteps
    <3>4. QED
      BY <1>0, <2>2, <3>3 DEF SubscribedOrRemoved
  <2>3. SubscribedOrRemoved'
    BY <1>1, <1>2, <2>2 DEF SubscribedOrRemoved
  <2>4. QED
    BY <2>1, <2>3 DEF SubscriptionInv
<1>3. CASE \E j \in Ids : commands' = Append(commands, <<"remove", j>>)
  <2>1. PICK j \in Ids : commands' = Append(commands, <<"remove", j>>)
    BY <1>3
  <2> DEFINE x == <<"remove", j>>
  <2>2. x \in Commands /\ x[1] = "remove"
    BY DEF Commands
  <2>3. commands' = Append(commands, x)
    BY <2>1
  <2> HIDE DEF x
  <2>4. /\ Len(commands) \in Nat /\ Len(commands') = Len(commands) + 1
        /\ \A i \in 1 .. Len(commands) : commands'[i] = commands[i]
        /\ commands'[Len(commands) + 1] = x
    BY <1>0, <2>2, <2>3, AppendIs
  <2>5. Range(commands') = Range(commands) \cup {x}
    BY <1>0, <2>2, <2>3, SeqRange
  <2>6. RemovedLast'
    <3>1. SUFFICES ASSUME NEW a \in 1 .. Len(commands'), NEW b \in 1 .. Len(commands'),
                          commands'[a][1] = "subscribe",
                          commands'[b] = <<"remove", commands'[a][2]>>
                   PROVE  a < b
      BY DEF RemovedLast
    <3>2. a # Len(commands) + 1
      BY <2>2, <2>4, <3>1
    <3>3. a \in 1 .. Len(commands)
      BY <2>4, <3>1, <3>2
    <3>4. CASE b = Len(commands) + 1
      BY <2>4, <3>3, <3>4
    <3>5. CASE b # Len(commands) + 1
      <4>1. b \in 1 .. Len(commands)
        BY <2>4, <3>1, <3>5
      <4>2. commands[a][1] = "subscribe" /\ commands[b] = <<"remove", commands[a][2]>>
        BY <2>4, <3>1, <3>3, <4>1
      <4>3. QED
        BY <1>0, <3>3, <4>1, <4>2 DEF RemovedLast
    <3>6. QED
      BY <3>4, <3>5
  <2>7. ASSUME NEW i \in Ids, i \in tx_call_ack' \/ <<"subscribe", i>> \in Range(commands')
        PROVE  Active(i)' \/ <<"remove", i>> \in Range(commands')
    <3>1. i \in tx_call_ack \/ <<"subscribe", i>> \in Range(commands)
      BY <1>1, <2>5, <2>7 DEF x
    <3>2. up
      <4>1. SUFFICES ASSUME ~up PROVE FALSE
        OBVIOUS
      <4>2. tx_call_ack = {} /\ Range(commands) = {}
        BY <1>0, <4>1, SeqRange DEF DeadIsEmpty
      <4>3. QED
        BY <3>1, <4>2
    <3>3. Active(i) \/ <<"remove", i>> \in Range(commands)
      BY <1>0, <3>1 DEF SubscribedOrRemoved
    <3>4. CASE Active(i) /\ ~Active(i)'
      <4>1. commands' = Append(commands, <<"remove", i>>)
        BY <3>2, <3>4, ActiveSteps
      <4>2. Range(commands') = Range(commands) \cup {<<"remove", i>>}
        <5>1. <<"remove", i>> \in Commands
          BY DEF Commands
        <5>2. QED
          BY <1>0, <4>1, <5>1, SeqRange
      <4>3. QED
        BY <4>2
    <3>5. QED
      BY <2>5, <3>3, <3>4
  <2>8. QED
    BY <2>6, <2>7 DEF SubscriptionInv, SubscribedOrRemoved
<1>4. CASE /\ Subscribe(t) /\ last_id + 1 \in Ids
           /\ commands' = Append(commands, <<"subscribe", last_id + 1>>)
  <2> DEFINE n == last_id + 1
  <2> DEFINE x == <<"subscribe", n>>
  <2>1. x \in Commands /\ x[1] = "subscribe" /\ x[2] = n
    BY <1>4 DEF Commands
  <2>2. commands' = Append(commands, x) /\ n \in Ids
    BY <1>4
  <2>3. \A y \in Range(commands) : y[2] # n
    BY <1>0 DEF IdsDrawn
  <2>4. t \in Callers /\ pc'[t] = "send" /\ id'[t] = n /\ conn'[t] = epoch'
    BY <1>0, <1>1, <1>4 DEF Subscribe, Goto, TaskTypes
  <2> HIDE DEF x, n
  <2>5. /\ Len(commands) \in Nat /\ Len(commands') = Len(commands) + 1
        /\ \A i \in 1 .. Len(commands) : commands'[i] = commands[i]
        /\ commands'[Len(commands) + 1] = x
    BY <1>0, <2>1, <2>2, AppendIs
  <2>6. Range(commands') = Range(commands) \cup {x}
    BY <1>0, <2>1, <2>2, SeqRange
  <2>7. RemovedLast'
    <3>1. SUFFICES ASSUME NEW a \in 1 .. Len(commands'), NEW b \in 1 .. Len(commands'),
                          commands'[a][1] = "subscribe",
                          commands'[b] = <<"remove", commands'[a][2]>>
                   PROVE  a < b
      BY DEF RemovedLast
    <3>2. b # Len(commands) + 1
      <4>1. commands'[b][1] = "remove"
        BY <3>1
      <4>2. QED
        BY <2>1, <2>5, <4>1
    <3>3. b \in 1 .. Len(commands) /\ commands[b] = commands'[b]
      BY <2>5, <3>1, <3>2
    <3>4. CASE a = Len(commands) + 1
      <4>1. commands[b] \in Range(commands)
        BY <1>0, <3>3, SeqRange
      <4>2. commands[b][2] = n
        BY <2>1, <2>5, <3>1, <3>3, <3>4
      <4>3. QED
        BY <2>3, <4>1, <4>2
    <3>5. CASE a # Len(commands) + 1
      <4>1. a \in 1 .. Len(commands)
        BY <2>5, <3>1, <3>5
      <4>2. commands[a][1] = "subscribe" /\ commands[b] = <<"remove", commands[a][2]>>
        BY <2>5, <3>1, <3>3, <4>1
      <4>3. QED
        BY <1>0, <3>3, <4>1, <4>2 DEF RemovedLast
    <3>6. QED
      BY <3>4, <3>5
  <2>8. ASSUME NEW i \in Ids, i \in tx_call_ack' \/ <<"subscribe", i>> \in Range(commands')
        PROVE  Active(i)' \/ <<"remove", i>> \in Range(commands')
    <3>1. CASE i = n
      BY <2>4, <3>1 DEF Active
    <3>2. CASE i # n
      <4>1. i \in tx_call_ack \/ <<"subscribe", i>> \in Range(commands)
        BY <1>1, <2>6, <2>8, <3>2 DEF x
      <4>2. Active(i) \/ <<"remove", i>> \in Range(commands)
        BY <1>0, <4>1 DEF SubscribedOrRemoved
      <4>3. up
        BY <1>4 DEF Subscribe
      <4>4. x # <<"remove", i>>
        BY <2>1, Zenon DEF x
      <4>5. commands' # Append(commands, <<"remove", i>>)
        <5>1. <<"remove", i>> \in Commands
          BY DEF Commands
        <5>2. Append(commands, <<"remove", i>>)[Len(commands) + 1] = <<"remove", i>>
          BY <1>0, <5>1, AppendIs
        <5>3. QED
          BY <2>5, <4>4, <5>2
      <4>6. Active(i) => Active(i)'
        BY <4>3, <4>5, ActiveSteps
      <4>7. QED
        BY <2>6, <4>2, <4>6
    <3>3. QED
      BY <3>1, <3>2
  <2>9. QED
    BY <2>7, <2>8 DEF SubscriptionInv, SubscribedOrRemoved
<1>5. QED
  BY <1>2, <1>3, <1>4, CommandSteps

\* The read loop takes the commands in turn: what it is told to remove it was told
\* to subscribe before, if at all.
LEMMA SubscriptionCommand ==
    ASSUME TypeInv, SubscriptionInv, ReadCommand
    PROVE  SubscriptionInv'
<1> DEFINE c == Head(commands)
<1>0. /\ commands \in Seq(Commands) /\ commands # <<>> /\ SubscribedOrRemoved /\ RemovedLast
      /\ UNCHANGED <<epoch, pc, id, conn>> /\ commands' = Tail(commands)
      /\ tx_call_ack' = IF c[1] = "subscribe" THEN tx_call_ack \cup {c[2]}
                                              ELSE tx_call_ack \ {c[2]}
  BY DEF TypeInv, ReadTypes, SubscriptionInv, ReadCommand, taskVars, connVars
<1>1. /\ Len(commands) \in Nat /\ Len(commands) >= 1 /\ commands[1] = c
      /\ Len(Tail(commands)) = Len(commands) - 1
      /\ \A i \in 1 .. Len(commands) - 1 : Tail(commands)[i] = commands[i + 1]
  BY <1>0
<1>2. Range(commands) = {c} \cup Range(Tail(commands))
  BY <1>0, SeqRange
<1>3. c \in Commands
  BY <1>0, SeqOps
<1>4. c = <<c[1], c[2]>> /\ c[1] \in {"subscribe", "remove"} /\ c[2] \in Ids
  BY <1>3 DEF Commands
<1>5. RemovedLast'
  <2>1. SUFFICES ASSUME NEW a \in 1 .. Len(commands'), NEW b \in 1 .. Len(commands'),
                        commands'[a][1] = "subscribe",
                        commands'[b] = <<"remove", commands'[a][2]>>
                 PROVE  a < b
    BY DEF RemovedLast
  <2>2. /\ a \in 1 .. Len(commands) - 1 /\ b \in 1 .. Len(commands) - 1
        /\ a + 1 \in 1 .. Len(commands) /\ b + 1 \in 1 .. Len(commands)
    BY <1>0, <1>1, <2>1
  <2>3. commands'[a] = commands[a + 1] /\ commands'[b] = commands[b + 1]
    BY <1>0, <1>1, <2>2
  <2>4. a + 1 < b + 1
    BY <1>0, <2>1, <2>2, <2>3 DEF RemovedLast
  <2>5. QED
    BY <2>2, <2>4
<1>6. ASSUME NEW i \in Ids, <<"subscribe", i>> \in Range(Tail(commands)) PROVE c # <<"remove", i>>
  <2>1. SUFFICES ASSUME c = <<"remove", i>> PROVE FALSE
    OBVIOUS
  <2>2. Tail(commands) \in Seq(Commands)
    BY <1>0, SeqOps
  <2>3. PICK a \in 1 .. Len(Tail(commands)) : Tail(commands)[a] = <<"subscribe", i>>
    BY <1>6, <2>2, SeqRange
  <2>4. a \in 1 .. Len(commands) - 1 /\ a + 1 \in 1 .. Len(commands) /\ 1 \in 1 .. Len(commands)
    BY <1>1
  <2>5. commands[a + 1] = <<"subscribe", i>>
    BY <1>1, <2>3, <2>4
  <2>6. commands[a + 1][1] = "subscribe" /\ commands[a + 1][2] = i
    BY <2>5
  <2>7. commands[1] = <<"remove", commands[a + 1][2]>>
    BY <1>1, <2>1, <2>6
  <2>8. a + 1 < 1
    BY <1>0, <2>4, <2>6, <2>7 DEF RemovedLast
  <2>9. QED
    BY <2>4, <2>8
<1> HIDE DEF c
<1>7. ASSUME NEW i \in Ids, i \in tx_call_ack' \/ <<"subscribe", i>> \in Range(commands')
      PROVE  Active(i) \/ <<"remove", i>> \in Range(commands')
  <2>1. i \in tx_call_ack \/ <<"subscribe", i>> \in Range(commands)
    <3>1. CASE c[1] = "subscribe" /\ i = c[2]
      BY <1>2, <1>4, <3>1
    <3>2. CASE ~(c[1] = "subscribe" /\ i = c[2])
      BY <1>0, <1>2, <1>7, <3>2
    <3>3. QED
      BY <3>1, <3>2
  <2>2. Active(i) \/ <<"remove", i>> \in Range(commands)
    BY <1>0, <2>1 DEF SubscribedOrRemoved
  <2>3. c # <<"remove", i>>
    <3>1. SUFFICES ASSUME c = <<"remove", i>> PROVE FALSE
      OBVIOUS
    <3>2. c[1] = "remove" /\ c[2] = i
      BY <3>1
    <3>3. i \notin tx_call_ack'
      BY <1>0, <3>2
    <3>4. QED
      BY <1>0, <1>6, <1>7, <3>1, <3>3
  <2>4. QED
    BY <1>0, <1>2, <2>2, <2>3
<1>8. \A i \in Ids : Active(i) => Active(i)'
  BY <1>0 DEF Active
<1>9. QED
  BY <1>5, <1>7, <1>8 DEF SubscriptionInv, SubscribedOrRemoved

\* No step leaves a subscription behind.
LEMMA SubscriptionStep ==
    TypeInv /\ IdsInv /\ SubscriptionInv /\ [Next]_vars => SubscriptionInv'
<1> SUFFICES ASSUME TypeInv, IdsInv, SubscriptionInv, [Next]_vars PROVE SubscriptionInv'
  OBVIOUS
<1>0. TypeOK /\ DeadIsEmpty
  BY TypesAgree DEF TypeInv
<1>1. CASE \E t \in Tasks : TaskStep(t)
  BY <1>1, SubscriptionTask
<1>2. CASE ReadCommand
  BY <1>2, SubscriptionCommand
<1>3. CASE UNCHANGED <<pc, id, conn, epoch, commands>> /\ tx_call_ack' \subseteq tx_call_ack
  BY <1>3 DEF SubscriptionInv, SubscribedOrRemoved, RemovedLast, Active
<1>4. ASSUME commands' = <<>>, tx_call_ack' = {} PROVE SubscriptionInv'
  <2>1. Range(commands') = {}
    BY <1>4 DEF Range
  <2>2. Len(commands') = 0
    BY <1>4
  <2>3. SubscribedOrRemoved'
    BY <1>4, <2>1 DEF SubscribedOrRemoved
  <2>4. RemovedLast'
    BY <2>2 DEF RemovedLast
  <2>5. QED
    BY <2>3, <2>4 DEF SubscriptionInv
<1>5. CASE WireStep
  BY <1>4, <1>5 DEF WireStep, WireEnds
<1>6. CASE ReconConnect /\ ~up
  BY <1>0, <1>4, <1>6 DEF ReconConnect, DeadIsEmpty, readVars
<1>7. CASE ReadAck \/ ReadCall \/ StateStep \/ NetStep \/ UNCHANGED vars
  <2>1. UNCHANGED <<pc, id, conn, epoch, commands>> /\ tx_call_ack' \subseteq tx_call_ack
    BY <1>7 DEF ReadAck, ReadCall, StateStep, NetStep, ServerHandle, ServerAck, PeerReply,
       PeerCall, vars, taskVars, connVars, readVars
  <2>2. QED
    BY <1>3, <2>1
<1>8. QED
  BY <1>0, <1>1, <1>2, <1>5, <1>6, <1>7, Steps

\* Once the read loop has caught up with its commands, every subscription to an
\* ack belongs to an attempt in progress on this connection: a call that was
\* dropped, timed out or failed left none.
THEOREM SubscriptionsEnd == Spec => []NoStaleSubscription
<1>1. Init => SubscriptionInv
  <2>1. SUFFICES ASSUME Init PROVE SubscriptionInv
    OBVIOUS
  <2>a. commands = <<>> /\ tx_call_ack = {}
    BY <2>1 DEF Init
  <2>2. Range(commands) = {} /\ Len(commands) = 0 /\ tx_call_ack = {}
    BY <2>a DEF Range
  <2>3. QED
    BY <2>2 DEF SubscriptionInv, SubscribedOrRemoved, RemovedLast
<1>2. TypeInv /\ SubscriptionInv => NoStaleSubscription
  <2>1. SUFFICES ASSUME TypeInv, SubscriptionInv, up, commands = <<>>, NEW i \in tx_call_ack
                 PROVE  i \in {id[t] : t \in {c \in Callers :
                                    pc[c] \in {"send", "ack", "reply"} /\ conn[c] = epoch}}
    BY DEF NoStaleSubscription
  <2>2. i \in Ids /\ Range(commands) = {}
    BY <2>1 DEF TypeInv, ReadTypes, Range
  <2>3. Active(i)
    BY <2>1, <2>2 DEF SubscriptionInv, SubscribedOrRemoved
  <2>4. QED
    BY <2>3 DEF Active
<1>3. QED
  BY <1>1, <1>2, AlwaysRetried, SubscriptionStep, PTL DEF Spec
=============================================================================
