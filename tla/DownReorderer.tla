--------------------------- MODULE DownReorderer ----------------------------
(***************************************************************************)
(* The chunk reordering of a reliable downstream (enabled: BestEffort or    *)
(* Strict).  A chunk that arrives goes into the store of its upstream, and  *)
(* the iterator then yields what may be delivered; between two chunks the   *)
(* downstream loop waits for the application's channel.  Chunks arrive in   *)
(* any order and any number of times: the server sends again after a        *)
(* resume what was not acknowledged.  A chunk is its sequence number.       *)
(***************************************************************************)
EXTENDS Integers, Sequences, FiniteSets

CONSTANTS
    Streams,      \* upstreams the downstream receives from
    Modes,        \* the values of config.reordering to consider
    Limit,        \* config.reordering_chunks
    MaxSeq,       \* u32::MAX
    MaxArrivals   \* bound: chunks that arrive

ASSUME ReordererAssumption ==
    /\ Modes \subseteq {"BestEffort", "Strict"}
    /\ Limit \in Nat
    /\ MaxSeq \in Nat
    /\ MaxArrivals \in Nat

VARIABLES
    reordering,  \* config.reordering, fixed when the reorderer is made
    known,       \* streams with an entry in next and store
    next,        \* sequence number expected next, for the streams in known
    store,       \* chunks held back
    current,     \* the stream of the iterator in use: at most one
    failed,      \* Error::Reordering was returned, the downstream loop has ended
    stopped,     \* the loop left an iterator early: the receiver is closed
    arrivals,    \* chunks that arrived
    arrived,     \* history: the chunks that arrived, by stream
    output       \* history: the chunks the iterators yielded, by stream

vars == <<reordering, known, next, store, current, failed, stopped, arrivals, arrived, output>>

\* config.reordering is Strict: the limit rejects chunks and never reorders them.
Strict == reordering = "Strict"

SeqNumbers == 0 .. MaxSeq

\* Mutant: no wrap-around.
SuccUnwrapped(n) == n + 1

\* u32::wrapping_add(1)
Succ(n) == IF n = MaxSeq THEN 0 ELSE n + 1

Init ==
    /\ reordering \in Modes
    /\ known = {}
    /\ next = [s \in Streams |-> 0]
    /\ store = [s \in Streams |-> {}]
    /\ current = {}
    /\ failed = FALSE
    /\ stopped = FALSE
    /\ arrivals = 0
    /\ arrived = [s \in Streams |-> {}]
    /\ output = [s \in Streams |-> <<>>]

-----------------------------------------------------------------------------
\* The first chunk of a stream decides which number is expected.
Expected(s, n) == IF s \in known THEN next[s] ELSE n

\* Mutant: off by one at the limit.
RejectsLate(s, n) == Strict /\ Cardinality(store[s]) > Limit /\ Expected(s, n) # n

\* A strict reorderer whose store is full takes the expected chunk only.
Rejects(s, n) == Strict /\ Cardinality(store[s]) >= Limit /\ Expected(s, n) # n

\* iter(chunk)
Iter(s, n) ==
    /\ ~failed /\ current = {}
    /\ arrivals < MaxArrivals
    /\ arrivals' = arrivals + 1
    /\ known' = known \cup {s}
    /\ next' = [next EXCEPT ![s] = Expected(s, n)]
    /\ IF Rejects(s, n)
       THEN /\ failed' = TRUE
            /\ UNCHANGED <<store, current, arrived>>
       ELSE /\ store' = [store EXCEPT ![s] = @ \cup {n}]
            /\ arrived' = [arrived EXCEPT ![s] = @ \cup {n}]
            /\ current' = {s}
            /\ UNCHANGED failed
    /\ UNCHANGED <<reordering, stopped, output>>

\* Mutant: a full store is drained in strict mode too.
OverfullAnyMode(s) == Cardinality(store[s]) >= Limit

\* pop: a full best-effort store yields its first chunk, expected or not.
Overfull(s) == ~Strict /\ Cardinality(store[s]) >= Limit

IsFirst(s, n) == n \in store[s] /\ \A m \in store[s] : n <= m

Pops(s, n) == IF Overfull(s) THEN IsFirst(s, n) ELSE n = next[s] /\ n \in store[s]

\* Mutant: what is below the yielded chunk is discarded with it.
PopPurging(s, n) ==
    /\ s \in current
    /\ Pops(s, n)
    /\ store' = [store EXCEPT ![s] = {m \in @ : m > n}]
    /\ next' = [next EXCEPT ![s] = Succ(n)]
    /\ output' = [output EXCEPT ![s] = Append(@, n)]
    /\ UNCHANGED <<reordering, known, current, failed, stopped, arrivals, arrived>>

Pop(s, n) ==
    /\ s \in current
    /\ Pops(s, n)
    /\ store' = [store EXCEPT ![s] = @ \ {n}]
    /\ next' = [next EXCEPT ![s] = Succ(n)]
    /\ output' = [output EXCEPT ![s] = Append(@, n)]
    /\ UNCHANGED <<reordering, known, current, failed, stopped, arrivals, arrived>>

\* Mutant: the iterator is left before it is used up.
PopNoneEarly(s) ==
    /\ s \in current
    /\ current' = {}
    /\ UNCHANGED <<reordering, known, next, store, failed, stopped, arrivals, arrived, output>>

\* pop returns None: the iterator is used up.
PopNone(s) ==
    /\ s \in current
    /\ \A n \in SeqNumbers : ~Pops(s, n)
    /\ current' = {}
    /\ UNCHANGED <<reordering, known, next, store, failed, stopped, arrivals, arrived, output>>

\* The application's receiver is closed: the loop drops the iterator, and goes
\* on with the chunks that are still in its channel.
Break(s) ==
    /\ s \in current
    /\ stopped' = TRUE
    /\ current' = {}
    /\ UNCHANGED <<reordering, known, next, store, failed, arrivals, arrived, output>>

\* No more chunks.
Finished ==
    /\ current = {} /\ (failed \/ arrivals = MaxArrivals)
    /\ UNCHANGED vars

Next ==
    \/ \E s \in Streams, n \in SeqNumbers : Iter(s, n) \/ Pop(s, n)
    \/ \E s \in Streams : PopNone(s) \/ Break(s)
    \/ Finished

Spec == Init /\ [][Next]_vars

-----------------------------------------------------------------------------
(* Properties *)

\* Every variable has its type.
TypeOK ==
    /\ reordering \in Modes
    /\ known \subseteq Streams
    /\ next \in [Streams -> SeqNumbers]
    /\ store \in [Streams -> SUBSET SeqNumbers]
    /\ current \subseteq Streams
    /\ failed \in BOOLEAN /\ stopped \in BOOLEAN
    /\ arrivals \in 0 .. MaxArrivals
    /\ arrived \in [Streams -> SUBSET SeqNumbers]
    /\ output \in [Streams -> Seq(SeqNumbers)]

\* A strict reorderer yields consecutive sequence numbers (modulo 2^32),
\* whatever arrives, in whichever order and how often.
StrictInOrder ==
    Strict => \A s \in Streams : \A i \in 1 .. Len(output[s]) - 1 :
                  output[s][i + 1] = Succ(output[s][i])

\* Every chunk that was taken in is in the store or was yielded.
NothingLost ==
    \A s \in Streams : \A n \in arrived[s] :
        n \in store[s] \/ \E i \in 1 .. Len(output[s]) : output[s][i] = n

\* When an iterator is used up, the chunk expected next is not in the store:
\* nothing that could be delivered is held back.
NothingHeldBack ==
    current = {} /\ ~stopped => \A s \in known : next[s] \notin store[s]

\* When an iterator is used up, a strict store holds at most Limit chunks and a
\* best-effort store fewer than Limit (none when Limit is 0).
StoreBounded ==
    current = {} /\ ~stopped => \A s \in Streams :
        IF Strict THEN Cardinality(store[s]) <= Limit
                  ELSE store[s] = {} \/ Cardinality(store[s]) < Limit

-----------------------------------------------------------------------------
(* Stronger readings of the code that TLC refutes: the README says with which *)
(* constants, and what happens.                                              *)

\* reordering_chunks is "並び替えを待つチャンクの最大値", the number of chunks
\* waiting to be reordered: the error is for that many waiting chunks.
LimitCountsWaiting ==
    failed => \E s \in Streams :
        Cardinality({n \in store[s] : \A i \in 1 .. Len(output[s]) : output[s][i] # n})
            >= Limit
=============================================================================
