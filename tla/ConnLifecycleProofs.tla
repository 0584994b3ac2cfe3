------------------------ MODULE ConnLifecycleProofs -------------------------
(***************************************************************************)
(* Theorems about ConnLifecycle and the TokenSource it composes, for every  *)
(* set of streams and of callers of close(), with or without a token        *)
(* source.                                                                  *)
(***************************************************************************)
EXTENDS ConnLifecycle, TLAPS

-----------------------------------------------------------------------------
(* Types *)

\* The shared fields of the connection.
InnerTypes ==
    /\ ct \in BOOLEAN
    /\ close_semaphore \in {"free", "held", "closed"}
    /\ conn_state \in {"Connected", "Reconnecting", "Closing", "Closed"}
    /\ stream_ct \subseteq Streams
    /\ has_waiter \in BOOLEAN
    /\ err_counter \in 0 .. ErrLimit - 1

\* The calls of the application, and the streams.
CallTypes ==
    /\ opener \in [Streams -> {"idle", "checked", "requesting", "opened", "returned", "panicked"}]
    /\ open_wire \in [Streams -> 1 .. MaxWires]
    /\ task \in [Streams -> {"none", "running", "ended"}]
    /\ cancelled \subseteq Streams
    /\ closer \in [Closers -> {"idle", "acquired", "wait_streams", "wait_reconnection",
                               "done", "dropped", "panicked"}]

\* The reconnection loop and the wire connections.
ReconTypes ==
    /\ recon \in {"top", "connected", "connecting", "token", "handshake", "returned", "ended"}
    /\ wire \in 1 .. built /\ wire_up \in BOOLEAN
    /\ built \in 1 .. MaxWires /\ abandoned \in BOOLEAN

\* The token source and its channel of capacity one.
TokenTypes ==
    /\ rx_command \in Seq(1 .. asked) /\ Len(rx_command) <= 1
    /\ serving \in 0 .. asked /\ token \in 0 .. asked /\ asked \in 0 .. MaxWires
    /\ token_call \in {"none", "send", "wait", "ok", "err"}
    /\ token_call = "send" => asked > 0

\* Every connect asks for one token at most, after it made a wire connection.
AskedOnce == asked < built

TypeInv == InnerTypes /\ CallTypes /\ ReconTypes /\ TokenTypes /\ AskedOnce

\* The type invariant is made of the groups above.
LEMMA TypeGroups == TypeInv => TypeOK
  BY DEF TypeInv, TypeOK, InnerTypes, CallTypes, ReconTypes, TokenTypes

\* A command that was asked before stays one when another call asks.
LEMMA SeqWidens ==
    ASSUME NEW n \in Nat, NEW q \in Seq(1 .. n)
    PROVE  q \in Seq(1 .. n + 1)
<1>1. /\ Len(q) \in Nat /\ DOMAIN q = 1 .. Len(q)
      /\ q = [i \in 1 .. Len(q) |-> q[i]]
      /\ \A i \in 1 .. Len(q) : q[i] \in 1 .. n + 1
  OBVIOUS
<1>2. QED
  BY <1>1

\* A step of the token source, or of the call that waits for it, keeps the types.
LEMMA TokenStepTypes ==
    ASSUME TokenTypes,
           \/ TokenSend \/ TokenTake \/ TokenDrop
           \/ \E result \in {"ok", "err"} : TokenAnswer(result)
    PROVE  TokenTypes' /\ asked' = asked
<1>1. CASE TokenSend
  <2>1. asked \in 1 .. asked
    BY <1>1 DEF TokenSend, TokenTypes
  <2>2. QED
    BY <1>1, <2>1 DEF TokenSend, TokenTypes
<1>2. CASE TokenTake
  BY <1>2 DEF TokenTake, TokenTypes
<1>3. CASE TokenDrop
  BY <1>3 DEF TokenDrop, TokenTypes
<1>4. ASSUME NEW result \in {"ok", "err"}, TokenAnswer(result)
      PROVE  TokenTypes' /\ asked' = asked
  BY <1>4 DEF TokenAnswer, TokenTypes
<1>5. QED
  BY <1>1, <1>2, <1>3, <1>4

\* Opening a stream keeps the types.
LEMMA OpenTypes ==
    ASSUME TypeInv, NEW s \in Streams, Open(s) \/ StreamEnds(s)
    PROVE  TypeInv'
<1> USE DEF TypeInv, InnerTypes, CallTypes
<1>1. CASE OpenCheck(s)
  BY <1>1 DEF OpenCheck, innerVars, reconVars, dialVars, tokenVars, ReconTypes, TokenTypes,
          AskedOnce
<1>2. CASE OpenWaitGroup(s)
  <2>1. wire \in 1 .. MaxWires
    BY LifecycleAssumption DEF ReconTypes
  <2>2. QED
    BY <1>2, <2>1 DEF OpenWaitGroup, innerVars, reconVars, dialVars, tokenVars, ReconTypes,
            TokenTypes, AskedOnce
<1>3. CASE OpenOk(s)
  BY <1>3, LifecycleAssumption DEF OpenOk, reconVars, dialVars, tokenVars, ReconTypes,
          TokenTypes, AskedOnce
<1>4. CASE OpenErr(s)
  <2>1. err_counter' \in 0 .. ErrLimit - 1
    BY <1>4, LifecycleAssumption DEF OpenErr
  <2>2. wire_up' \in BOOLEAN
    BY <1>4, Zenon DEF OpenErr
  <2>3. QED
    BY <1>4, <2>1, <2>2 DEF OpenErr, dialVars, tokenVars, ReconTypes, TokenTypes, AskedOnce
<1>5. CASE OpenPush(s)
  BY <1>5 DEF OpenPush, reconVars, dialVars, tokenVars, ReconTypes, TokenTypes, AskedOnce
<1>6. CASE StreamEnds(s)
  BY <1>6 DEF StreamEnds, innerVars, reconVars, dialVars, tokenVars, ReconTypes, TokenTypes,
          AskedOnce
<1>7. QED
  BY <1>1, <1>2, <1>3, <1>4, <1>5, <1>6 DEF Open

\* Closing the connection keeps the types.
LEMMA CloseTypes ==
    ASSUME TypeInv, NEW c \in Closers, Close(c)
    PROVE  TypeInv'
<1> USE DEF TypeInv, InnerTypes, CallTypes
<1>1. ReconTypes' /\ TokenTypes' /\ AskedOnce'
  BY DEF Close, CloseAcquire, CloseAlready, CloseTake, CloseStreamsEnded, CloseDone,
         CloseDropped, CloseAgain, reconVars, dialVars, tokenVars, ReconTypes, TokenTypes,
         AskedOnce
<1>2. CASE CloseAcquire(c)
  BY <1>1, <1>2 DEF CloseAcquire, openVars
<1>3. CASE CloseAlready(c)
  BY <1>1, <1>3 DEF CloseAlready, innerVars, openVars
<1>4. CASE CloseTake(c)
  BY <1>1, <1>4 DEF CloseTake
<1>5. CASE CloseStreamsEnded(c)
  BY <1>1, <1>5 DEF CloseStreamsEnded, openVars
<1>6. CASE CloseDone(c)
  BY <1>1, <1>6 DEF CloseDone, openVars
<1>7. CASE CloseDropped(c)
  BY <1>1, <1>7 DEF CloseDropped, openVars
<1>8. CASE CloseAgain(c)
  BY <1>1, <1>8 DEF CloseAgain, innerVars, openVars
<1>9. QED
  BY <1>2, <1>3, <1>4, <1>5, <1>6, <1>7, <1>8 DEF Close

\* The reconnection loop keeps the types.
LEMMA ReconTypesKept ==
    ASSUME TypeInv, Recon
    PROVE  TypeInv'
<1> USE DEF TypeInv
<1>1. CallTypes'
  BY DEF Recon, ReconTop, ReconLost, ReconClose, ReconDial, ReconToken, ReconDialFails,
         ReconConnect, ReconAbort, ReconEnd, openVars, CallTypes
<1>2. InnerTypes'
  BY DEF Recon, ReconTop, ReconLost, ReconClose, ReconDial, ReconToken, ReconDialFails,
         ReconConnect, ReconAbort, ReconEnd, innerVars, InnerTypes
<1>3. CASE ReconTop \/ ReconLost \/ ReconClose \/ ReconConnect \/ ReconEnd
  <2>1. UNCHANGED dialVars
    BY <1>3 DEF ReconTop, ReconLost, ReconClose, ReconConnect, ReconEnd
  <2>2. TokenTypes' /\ AskedOnce'
    BY <2>1 DEF dialVars, tokenVars, TokenTypes, AskedOnce
  <2>3. built' = built /\ built \in 1 .. MaxWires /\ abandoned' \in BOOLEAN
    BY <2>1 DEF dialVars, ReconTypes
  <2>4. wire' \in 1 .. built
    BY <1>3, <2>3, LifecycleAssumption
       DEF ReconTop, ReconLost, ReconClose, ReconConnect, ReconEnd, ReconTypes
  <2>5. wire_up' \in BOOLEAN
    BY <1>3, Zenon DEF ReconTop, ReconLost, ReconClose, ReconConnect, ReconEnd, ReconTypes
  <2>6. recon' \in {"top", "connected", "connecting", "token", "handshake", "returned", "ended"}
    BY <1>3 DEF ReconTop, ReconLost, ReconClose, ReconConnect, ReconEnd
  <2>7. QED
    BY <1>1, <1>2, <2>2, <2>3, <2>4, <2>5, <2>6 DEF ReconTypes
<1>4. CASE ReconDial
  <2>1. ReconTypes'
    BY <1>4, LifecycleAssumption DEF ReconDial, ReconTypes
  <2>2. CASE HasTokenSource
    <3>1. /\ token_call' = "send" /\ asked' = asked + 1
          /\ UNCHANGED <<rx_command, serving, token>> /\ built' = built + 1
      BY <1>4, <2>2 DEF ReconDial, TokenAsk
    <3>2. rx_command' \in Seq(1 .. asked')
      BY <3>1, SeqWidens DEF TokenTypes
    <3>3. asked + 1 \in 0 .. MaxWires
      BY LifecycleAssumption DEF AskedOnce, ReconTypes, TokenTypes
    <3>4. TokenTypes'
      BY <3>1, <3>2, <3>3 DEF TokenTypes
    <3>5. AskedOnce'
      BY <3>1 DEF AskedOnce, TokenTypes, ReconTypes
    <3>6. QED
      BY <1>1, <1>2, <2>1, <3>4, <3>5
  <2>3. CASE ~HasTokenSource
    <3>1. UNCHANGED tokenVars /\ built' = built + 1
      BY <1>4, <2>3 DEF ReconDial
    <3>2. QED
      BY <1>1, <1>2, <2>1, <3>1 DEF tokenVars, TokenTypes, AskedOnce, ReconTypes
  <2>4. QED
    BY <2>2, <2>3
<1>5. CASE ReconToken \/ ReconDialFails \/ ReconAbort
  <2>1. TokenTypes' /\ asked' = asked
    BY <1>5, TokenStepTypes DEF ReconToken, ReconDialFails, ReconAbort
  <2>2. abandoned' \in BOOLEAN
    BY <1>5, Zenon DEF ReconToken, ReconDialFails, ReconAbort, ReconTypes
  <2>3. QED
    BY <1>1, <1>2, <1>5, <2>1, <2>2
       DEF ReconToken, ReconDialFails, ReconAbort, ReconTypes, AskedOnce
<1>6. QED
  BY <1>3, <1>4, <1>5 DEF Recon

\* The type invariant is inductive.
LEMMA TypeStep == TypeInv /\ [Next]_vars => TypeInv'
<1> SUFFICES ASSUME TypeInv, [Next]_vars PROVE TypeInv'
  OBVIOUS
<1>1. CASE TokenSourceStep
  <2>1. TokenTypes' /\ asked' = asked
    BY <1>1, TokenStepTypes DEF TokenSourceStep, TypeInv
  <2>2. QED
    BY <1>1, <2>1 DEF TokenSourceStep, TypeInv, InnerTypes, CallTypes, ReconTypes, AskedOnce,
                      innerVars, openVars
<1>2. CASE WireDown
  <2>1. InnerTypes' /\ CallTypes'
    BY <1>2 DEF WireDown, TypeInv, InnerTypes, CallTypes, innerVars, openVars
  <2>2. TokenTypes' /\ AskedOnce'
    BY <1>2 DEF WireDown, TypeInv, TokenTypes, AskedOnce, dialVars, tokenVars
  <2>3. ReconTypes'
    BY <1>2 DEF WireDown, TypeInv, ReconTypes, dialVars
  <2>4. QED
    BY <2>1, <2>2, <2>3 DEF TypeInv
<1>3. CASE UNCHANGED vars
  BY <1>3 DEF vars, TypeInv, InnerTypes, CallTypes, ReconTypes, TokenTypes, AskedOnce
<1>4. QED
  BY <1>1, <1>2, <1>3, OpenTypes, CloseTypes, ReconTypesKept DEF Next, Finished

\* The connection starts with every variable of its type.
LEMMA TypeInit == Init => TypeInv
<1> SUFFICES ASSUME Init PROVE TypeInv
  OBVIOUS
<1>0. ct \in BOOLEAN /\ has_waiter \in BOOLEAN /\ wire_up \in BOOLEAN /\ abandoned \in BOOLEAN
  BY Zenon DEF Init
<1>1. InnerTypes
  BY <1>0, LifecycleAssumption DEF Init, InnerTypes
<1>2. CallTypes
  BY LifecycleAssumption DEF Init, CallTypes
<1>3. ReconTypes /\ AskedOnce
  BY <1>0, LifecycleAssumption DEF Init, TokenInit, ReconTypes, AskedOnce
<1>4. TokenTypes
  BY LifecycleAssumption DEF Init, TokenInit, TokenTypes
<1>5. QED
  BY <1>1, <1>2, <1>3, <1>4 DEF TypeInv

\* Every variable keeps its type in every behaviour; in particular the channel of
\* the token source never holds more than one command.
THEOREM TypeCorrect == Spec => []TypeOK
  BY TypeInit, TypeStep, TypeGroups, PTL DEF Spec

-----------------------------------------------------------------------------
(* The token source *)

\* A token reaches the call it was fetched for or nobody: each command has a
\* oneshot channel of its own, however many commands were left behind.
THEOREM OwnToken == Spec => []TokenIsOwn
<1>1. Init => TokenIsOwn
  BY DEF Init, TokenInit, TokenIsOwn
<1>2. TokenIsOwn /\ [Next]_vars => TokenIsOwn'
  <2> SUFFICES ASSUME TokenIsOwn, [Next]_vars PROVE TokenIsOwn'
    OBVIOUS
  <2> USE DEF TokenIsOwn, tokenVars, dialVars, reconVars
  <2>1. ASSUME NEW s \in Streams, Open(s) \/ StreamEnds(s) PROVE UNCHANGED tokenVars
    BY <2>1 DEF Open, OpenCheck, OpenWaitGroup, OpenOk, OpenErr, OpenPush, StreamEnds
  <2>2. ASSUME NEW c \in Closers, Close(c) PROVE UNCHANGED tokenVars
    BY <2>2 DEF Close, CloseAcquire, CloseAlready, CloseTake, CloseStreamsEnded, CloseDone,
                CloseDropped, CloseAgain
  <2>3. CASE Recon
    BY <2>3 DEF Recon, ReconTop, ReconLost, ReconClose, ReconDial, ReconToken, ReconDialFails,
                ReconConnect, ReconAbort, ReconEnd, TokenAsk, TokenDrop
  <2>4. CASE TokenSourceStep
    BY <2>4 DEF TokenSourceStep, TokenSend, TokenTake, TokenAnswer
  <2>5. CASE WireDown \/ UNCHANGED vars
    BY <2>5 DEF WireDown, vars
  <2>6. QED
    BY <2>1, <2>2, <2>3, <2>4, <2>5 DEF Next, Finished
<1>3. QED
  BY <1>1, <1>2, PTL DEF Spec

-----------------------------------------------------------------------------
(* close() *)

HoldsPermit(c) == closer[c] \in {"acquired", "wait_streams", "wait_reconnection"}

\* One caller at a time is past the semaphore, and holds its permit.
PermitHeld ==
    \A c \in Closers : HoldsPermit(c) =>
        close_semaphore = "held" /\ \A d \in Closers : HoldsPermit(d) => d = c

\* The waiter is taken before the streams are waited for, and the connection is
\* cancelled after that, and by that caller.
CancelledInTurn ==
    \A c \in Closers :
        /\ closer[c] = "wait_streams" => ~has_waiter /\ ~ct
        /\ closer[c] = "wait_reconnection" => ct

\* Once the connection is cancelled no stream is left, and none can be opened: a
\* call that passed check_close before finds the waiter gone.
CancelledIsQuiet == ct => ~has_waiter /\ \A s \in Streams : ~HoldsWaitGroup(s)

\* The reconnection loop ends only by cancellation, and without a connection.
LoopEndsCancelled ==
    /\ recon \in {"connecting", "token", "handshake", "returned", "ended"} => ~wire_up
    /\ recon \in {"returned", "ended"} => ct

\* Nobody else touches the state between the end of the loop and the return of
\* the close() that waits for it, nor after that.
StateIsClosed ==
    /\ recon = "ended" /\ (\E c \in Closers : closer[c] = "wait_reconnection")
            => conn_state = "Closed"
    /\ close_semaphore = "closed" => recon = "ended" /\ conn_state = "Closed"
    /\ \A c \in Closers : closer[c] = "done" => close_semaphore = "closed"

ClosedInv == /\ PermitHeld /\ CancelledInTurn /\ CancelledIsQuiet /\ LoopEndsCancelled
             /\ StateIsClosed

\* Opening a stream keeps the closing invariant: what it needs of the waiter and
\* of the token is checked by the step that uses it.
LEMMA OpenClosed ==
    ASSUME TypeInv, ClosedInv, NEW s \in Streams, Open(s) \/ StreamEnds(s)
    PROVE  ClosedInv'
<1> USE DEF TypeInv, CallTypes
<1>1. UNCHANGED <<ct, close_semaphore, conn_state, has_waiter, closer, recon>>
  BY DEF Open, OpenCheck, OpenWaitGroup, OpenOk, OpenErr, OpenPush, StreamEnds, innerVars,
         reconVars
<1>2. PermitHeld' /\ CancelledInTurn' /\ StateIsClosed'
  BY <1>1 DEF ClosedInv, PermitHeld, HoldsPermit, CancelledInTurn, StateIsClosed
<1>3. wire_up' => wire_up
  BY DEF Open, OpenCheck, OpenWaitGroup, OpenOk, OpenErr, OpenPush, StreamEnds, reconVars
<1>4. LoopEndsCancelled'
  BY <1>1, <1>3 DEF ClosedInv, LoopEndsCancelled
<1>5. CancelledIsQuiet'
  <2> SUFFICES ASSUME ct, ~has_waiter, \A t \in Streams : ~HoldsWaitGroup(t)
               PROVE  \A t \in Streams : ~HoldsWaitGroup(t)'
    BY <1>1 DEF ClosedInv, CancelledIsQuiet
  <2>1. opener[s] # "requesting" /\ task[s] # "running"
    BY DEF HoldsWaitGroup
  <2>2. opener'[s] # "requesting" /\ task'[s] # "running"
    BY <2>1 DEF Open, OpenCheck, OpenWaitGroup, OpenOk, OpenErr, OpenPush, StreamEnds
  <2>3. \A t \in Streams \ {s} : opener'[t] = opener[t] /\ task'[t] = task[t]
    BY DEF Open, OpenCheck, OpenWaitGroup, OpenOk, OpenErr, OpenPush, StreamEnds
  <2>4. QED
    BY <2>2, <2>3 DEF HoldsWaitGroup
<1>6. QED
  BY <1>2, <1>4, <1>5 DEF ClosedInv

\* The steps of close() keep it: the semaphore orders the callers, so that the one
\* that took the waiter is the only one to cancel and to wait for the loop.
LEMMA CloseClosed ==
    ASSUME TypeInv, ClosedInv, NEW c \in Closers, Close(c)
    PROVE  ClosedInv'
<1> USE DEF TypeInv, CallTypes, InnerTypes
<1>1. UNCHANGED <<opener, task, recon, wire_up>>
  BY DEF Close, CloseAcquire, CloseAlready, CloseTake, CloseStreamsEnded, CloseDone,
         CloseDropped, CloseAgain, openVars, reconVars
<1>2. \A d \in Closers \ {c} : closer'[d] = closer[d]
  BY DEF Close, CloseAcquire, CloseAlready, CloseTake, CloseStreamsEnded, CloseDone,
         CloseDropped, CloseAgain
<1>3. ct => ct'
  BY DEF Close, CloseAcquire, CloseAlready, CloseTake, CloseStreamsEnded, CloseDone,
         CloseDropped, CloseAgain, innerVars
<1>4. LoopEndsCancelled'
  BY <1>1, <1>3 DEF ClosedInv, LoopEndsCancelled
<1>5. has_waiter' => has_waiter
  BY DEF Close, CloseAcquire, CloseAlready, CloseTake, CloseStreamsEnded, CloseDone,
         CloseDropped, CloseAgain, innerVars
<1>6. HoldsPermit(c) => close_semaphore = "held" /\ \A d \in Closers \ {c} : ~HoldsPermit(d)
  BY DEF ClosedInv, PermitHeld
<1>7. CASE CloseAcquire(c)
  <2>1. /\ close_semaphore = "free" /\ close_semaphore' = "held" /\ closer'[c] = "acquired"
        /\ UNCHANGED <<ct, has_waiter>>
    BY <1>7 DEF CloseAcquire
  <2>2. \A d \in Closers : ~HoldsPermit(d)
    BY <2>1 DEF ClosedInv, PermitHeld
  <2>3. PermitHeld'
    BY <1>2, <2>1, <2>2 DEF PermitHeld, HoldsPermit
  <2>4. CancelledInTurn' /\ CancelledIsQuiet'
    BY <1>1, <1>2, <2>1 DEF ClosedInv, CancelledInTurn, CancelledIsQuiet, HoldsWaitGroup
  <2>5. StateIsClosed'
    BY <1>1, <1>2, <2>1, <2>2 DEF ClosedInv, StateIsClosed, HoldsPermit
  <2>6. QED
    BY <1>4, <2>3, <2>4, <2>5 DEF ClosedInv
<1>8. CASE CloseAlready(c) \/ CloseAgain(c)
  <2>1. /\ closer[c] \in {"idle", "done", "dropped"} /\ closer'[c] \in {"idle", "done"}
        /\ closer'[c] = "done" => close_semaphore = "closed"
        /\ UNCHANGED innerVars
    BY <1>8 DEF CloseAlready, CloseAgain
  <2>2. PermitHeld' /\ CancelledInTurn'
    BY <1>2, <2>1 DEF ClosedInv, PermitHeld, HoldsPermit, CancelledInTurn, innerVars
  <2>3. CancelledIsQuiet' /\ StateIsClosed'
    BY <1>1, <1>2, <2>1 DEF ClosedInv, CancelledIsQuiet, StateIsClosed, HoldsWaitGroup, innerVars
  <2>4. QED
    BY <1>4, <2>2, <2>3 DEF ClosedInv
<1>9. CASE CloseTake(c)
  <2>1. /\ HoldsPermit(c) /\ UNCHANGED <<ct, conn_state>> /\ ~has_waiter'
        /\ closer[c] = "acquired"
        /\ closer'[c] = IF has_waiter THEN "wait_streams" ELSE "panicked"
        /\ close_semaphore' = IF has_waiter THEN "held" ELSE "free"
    BY <1>9 DEF CloseTake, HoldsPermit
  <2>2. has_waiter => ~ct
    BY DEF ClosedInv, CancelledIsQuiet
  <2>3. PermitHeld'
    BY <1>2, <1>6, <2>1 DEF PermitHeld, HoldsPermit
  <2>4. CancelledInTurn' /\ CancelledIsQuiet'
    BY <1>1, <1>2, <2>1, <2>2 DEF ClosedInv, CancelledInTurn, CancelledIsQuiet, HoldsWaitGroup
  <2>5. StateIsClosed'
    BY <1>1, <1>2, <1>6, <2>1 DEF ClosedInv, StateIsClosed, HoldsPermit
  <2>6. QED
    BY <1>4, <2>3, <2>4, <2>5 DEF ClosedInv
<1>10. CASE CloseStreamsEnded(c)
  <2>1. /\ HoldsPermit(c) /\ closer[c] = "wait_streams" /\ ct'
        /\ \A s \in Streams : ~HoldsWaitGroup(s)
        /\ closer'[c] = "wait_reconnection"
        /\ UNCHANGED <<close_semaphore, conn_state, has_waiter>>
    BY <1>10 DEF CloseStreamsEnded, HoldsPermit
  <2>2. ~has_waiter /\ recon # "ended"
    BY <2>1 DEF ClosedInv, CancelledInTurn, LoopEndsCancelled
  <2>3. PermitHeld'
    BY <1>2, <1>6, <2>1 DEF PermitHeld, HoldsPermit
  <2>4. CancelledInTurn'
    BY <1>2, <1>6, <2>1 DEF ClosedInv, CancelledInTurn, HoldsPermit
  <2>5. CancelledIsQuiet'
    BY <1>1, <2>1, <2>2 DEF CancelledIsQuiet, HoldsWaitGroup
  <2>6. StateIsClosed'
    BY <1>1, <1>2, <2>1, <2>2 DEF ClosedInv, StateIsClosed
  <2>7. QED
    BY <1>4, <2>3, <2>4, <2>5, <2>6 DEF ClosedInv
<1>11. CASE CloseDone(c)
  <2>1. /\ HoldsPermit(c) /\ closer[c] = "wait_reconnection" /\ recon = "ended"
        /\ closer'[c] = "done" /\ close_semaphore' = "closed"
        /\ UNCHANGED <<ct, conn_state, has_waiter>>
    BY <1>11 DEF CloseDone, HoldsPermit
  <2>2. conn_state = "Closed"
    BY <2>1 DEF ClosedInv, StateIsClosed
  <2>3. PermitHeld'
    BY <1>2, <1>6, <2>1 DEF PermitHeld, HoldsPermit
  <2>4. CancelledInTurn' /\ CancelledIsQuiet'
    BY <1>1, <1>2, <2>1 DEF ClosedInv, CancelledInTurn, CancelledIsQuiet, HoldsWaitGroup
  <2>5. StateIsClosed'
    BY <1>1, <1>2, <2>1, <2>2 DEF StateIsClosed
  <2>6. QED
    BY <1>4, <2>3, <2>4, <2>5 DEF ClosedInv
<1>12. CASE CloseDropped(c)
  <2>1. /\ HoldsPermit(c) /\ closer'[c] = "dropped" /\ close_semaphore' = "free"
        /\ UNCHANGED <<ct, conn_state, has_waiter>>
    BY <1>12 DEF CloseDropped, HoldsPermit
  <2>2. PermitHeld'
    BY <1>2, <1>6, <2>1 DEF PermitHeld, HoldsPermit
  <2>3. CancelledInTurn' /\ CancelledIsQuiet'
    BY <1>1, <1>2, <2>1 DEF ClosedInv, CancelledInTurn, CancelledIsQuiet, HoldsWaitGroup
  <2>4. StateIsClosed'
    BY <1>1, <1>2, <1>6, <2>1 DEF ClosedInv, StateIsClosed
  <2>5. QED
    BY <1>4, <2>2, <2>3, <2>4 DEF ClosedInv
<1>13. QED
  BY <1>7, <1>8, <1>9, <1>10, <1>11, <1>12 DEF Close

\* The reconnection loop keeps it: it goes down only when the token is cancelled
\* or the connection is lost, and the last thing it does is to write Closed.
LEMMA ReconClosed ==
    ASSUME TypeInv, ClosedInv, Recon
    PROVE  ClosedInv'
<1> USE DEF TypeInv, ReconTypes
<1>1. UNCHANGED <<ct, close_semaphore, has_waiter, opener, task, closer>>
  BY DEF Recon, ReconTop, ReconLost, ReconClose, ReconDial, ReconToken, ReconDialFails,
         ReconConnect, ReconAbort, ReconEnd, innerVars, openVars
<1>2. PermitHeld' /\ CancelledInTurn' /\ CancelledIsQuiet'
  BY <1>1 DEF ClosedInv, PermitHeld, HoldsPermit, CancelledInTurn, CancelledIsQuiet,
              HoldsWaitGroup
<1>3. LoopEndsCancelled'
  BY <1>1 DEF ClosedInv, LoopEndsCancelled, Recon, ReconTop, ReconLost, ReconClose, ReconDial,
              ReconToken, ReconDialFails, ReconConnect, ReconAbort, ReconEnd
<1>4. /\ recon # "ended"
      /\ recon' = "ended" => conn_state' = "Closed"
  BY DEF Recon, ReconTop, ReconLost, ReconClose, ReconDial, ReconToken, ReconDialFails,
         ReconConnect, ReconAbort, ReconEnd
<1>5. StateIsClosed'
  BY <1>1, <1>4 DEF ClosedInv, StateIsClosed
<1>6. QED
  BY <1>2, <1>3, <1>5 DEF ClosedInv

\* The closing invariant is inductive.
LEMMA ClosedStep == TypeInv /\ ClosedInv /\ [Next]_vars => ClosedInv'
<1> SUFFICES ASSUME TypeInv, ClosedInv, [Next]_vars PROVE ClosedInv'
  OBVIOUS
<1>1. CASE TokenSourceStep \/ WireDown \/ UNCHANGED vars
  <2>1. /\ UNCHANGED <<ct, close_semaphore, conn_state, has_waiter, opener, task, closer, recon>>
        /\ wire_up' => wire_up
    BY <1>1 DEF TokenSourceStep, WireDown, vars, innerVars, openVars
  <2>2. QED
    BY <2>1 DEF ClosedInv, PermitHeld, HoldsPermit, CancelledInTurn, CancelledIsQuiet,
                HoldsWaitGroup, LoopEndsCancelled, StateIsClosed
<1>2. QED
  BY <1>1, OpenClosed, CloseClosed, ReconClosed DEF Next, Finished

\* When close() has returned, to whichever caller, no stream task is left, the
\* loop has ended, its connection is down and the state is Closed: for any number
\* of streams that are being opened and of callers that close, drop and retry.
THEOREM CloseIsFinal == Spec => []ClosedMeansClosed
<1>1. Init => ClosedInv
  BY DEF Init, ClosedInv, PermitHeld, HoldsPermit, CancelledInTurn, CancelledIsQuiet,
         LoopEndsCancelled, StateIsClosed
<1>2. ClosedInv => ClosedMeansClosed
  BY DEF ClosedInv, CancelledIsQuiet, LoopEndsCancelled, StateIsClosed, ClosedMeansClosed
<1>3. QED
  BY <1>1, <1>2, TypeInit, TypeStep, ClosedStep, PTL DEF Spec
=============================================================================
