------------------------ MODULE DownReordererProofs -------------------------
(***************************************************************************)
(* Theorems about DownReorderer, for every set of streams, limit, width of  *)
(* the sequence numbers and number of arrivals.                             *)
(***************************************************************************)
EXTENDS DownReorderer, FiniteSetTheorems, WellFoundedInduction, TLAPS

\* u32::wrapping_add stays within the sequence numbers.
LEMMA SuccType == \A n \in SeqNumbers : Succ(n) \in SeqNumbers
  BY ReordererAssumption DEF Succ, SeqNumbers

\* The number that iter expects of a stream is a sequence number.
LEMMA ExpectedType ==
    ASSUME TypeOK, NEW s \in Streams, NEW n \in SeqNumbers
    PROVE  Expected(s, n) \in SeqNumbers
  BY DEF TypeOK, Expected

\* The type invariant is inductive: every step of the reorderer keeps it.
LEMMA TypeStep == TypeOK /\ [Next]_vars => TypeOK'
<1> SUFFICES ASSUME TypeOK, [Next]_vars PROVE TypeOK'
  OBVIOUS
<1>1. ASSUME NEW s \in Streams, NEW n \in SeqNumbers, Iter(s, n) PROVE TypeOK'
  <2>1. Expected(s, n) \in SeqNumbers
    BY ExpectedType
  <2>2. next' \in [Streams -> SeqNumbers]
    BY <1>1, <2>1 DEF Iter, TypeOK
  <2>3. arrivals' \in 0 .. MaxArrivals
    BY <1>1, ReordererAssumption DEF Iter, TypeOK
  <2>4. /\ reordering' \in Modes /\ known' \subseteq Streams /\ stopped' \in BOOLEAN
        /\ output' \in [Streams -> Seq(SeqNumbers)]
    BY <1>1 DEF Iter, TypeOK
  <2>5. /\ store' \in [Streams -> SUBSET SeqNumbers]
        /\ arrived' \in [Streams -> SUBSET SeqNumbers]
    <3>1. CASE Rejects(s, n)
      BY <1>1, <3>1 DEF Iter, TypeOK
    <3>2. CASE ~Rejects(s, n)
      <4>1. store' = [store EXCEPT ![s] = @ \cup {n}]
        BY <1>1, <3>2 DEF Iter
      <4>2. arrived' = [arrived EXCEPT ![s] = @ \cup {n}]
        BY <1>1, <3>2 DEF Iter
      <4>3. store[s] \cup {n} \in SUBSET SeqNumbers /\ arrived[s] \cup {n} \in SUBSET SeqNumbers
        BY DEF TypeOK
      <4>4. QED
        BY <4>1, <4>2, <4>3 DEF TypeOK
    <3>3. QED
      BY <3>1, <3>2
  <2>6. current' \subseteq Streams /\ failed' \in BOOLEAN
    BY <1>1 DEF Iter, TypeOK
  <2>7. QED
    BY <2>2, <2>3, <2>4, <2>5, <2>6 DEF TypeOK
<1>2. ASSUME NEW s \in Streams, NEW n \in SeqNumbers, Pop(s, n) PROVE TypeOK'
  <2>1. Succ(n) \in SeqNumbers
    BY SuccType
  <2>2. output' \in [Streams -> Seq(SeqNumbers)]
    BY <1>2 DEF Pop, TypeOK
  <2>3. QED
    BY <1>2, <2>1, <2>2 DEF Pop, TypeOK
<1>3. ASSUME NEW s \in Streams, PopNone(s) PROVE TypeOK'
  BY <1>3 DEF PopNone, TypeOK
<1>4. ASSUME NEW s \in Streams, Break(s) PROVE TypeOK'
  BY <1>4 DEF Break, TypeOK
<1>5. CASE UNCHANGED vars
  BY <1>5 DEF vars, TypeOK
<1>6. QED
  BY <1>1, <1>2, <1>3, <1>4, <1>5 DEF Next, Finished

\* Every variable keeps its type in every behaviour of the reorderer.
THEOREM TypeCorrect == Spec => []TypeOK
<1>1. Init => TypeOK
  <2> SUFFICES ASSUME Init PROVE TypeOK
    OBVIOUS
  <2>1. 0 \in SeqNumbers /\ 0 \in 0 .. MaxArrivals
    BY ReordererAssumption DEF SeqNumbers
  <2>2. <<>> \in Seq(SeqNumbers)
    OBVIOUS
  <2>3. QED
    BY <2>1, <2>2 DEF Init, TypeOK
<1>2. QED
  BY <1>1, TypeStep, PTL DEF Spec

-----------------------------------------------------------------------------
\* The iterator in use is one of a stream that has an entry in next and store.
CurrentKnown == current \subseteq known

\* A strict reorderer expects the successor of the last chunk it yielded.
ExpectsSuccessor ==
    Strict => \A s \in Streams : Len(output[s]) > 0 =>
                  s \in known /\ next[s] = Succ(output[s][Len(output[s])])

StrictInv == CurrentKnown /\ StrictInOrder /\ ExpectsSuccessor

\* Appending to a sequence leaves its elements where they are.
LEMMA AppendElements ==
    ASSUME NEW S, NEW q \in Seq(S), NEW e \in S
    PROVE  /\ Append(q, e) \in Seq(S)
           /\ Len(q) \in Nat
           /\ Len(Append(q, e)) = Len(q) + 1
           /\ \A i \in 1 .. Len(q) : Append(q, e)[i] = q[i]
           /\ Append(q, e)[Len(q) + 1] = e
  OBVIOUS

\* The strengthened order invariant is inductive: iter moves next only for a new
\* stream, and a strict pop yields next itself.
LEMMA StrictStep == TypeOK /\ StrictInv /\ [Next]_vars => StrictInv'
<1> SUFFICES ASSUME TypeOK, StrictInv, [Next]_vars PROVE StrictInv'
  OBVIOUS
<1> USE DEF StrictInv, CurrentKnown, Strict
<1>1. ASSUME NEW s \in Streams, NEW n \in SeqNumbers, Iter(s, n) PROVE StrictInv'
  <2>1. output' = output /\ known' = known \cup {s} /\ reordering' = reordering
    BY <1>1 DEF Iter
  <2>2. \A t \in known : next'[t] = next[t]
    BY <1>1 DEF Iter, Expected, TypeOK
  <2>3. CurrentKnown'
    BY <1>1 DEF Iter
  <2>4. QED
    BY <2>1, <2>2, <2>3 DEF StrictInOrder, ExpectsSuccessor
<1>2. ASSUME NEW s \in Streams, NEW n \in SeqNumbers, Pop(s, n) PROVE StrictInv'
  <2>1. Strict => n = next[s]
    BY <1>2 DEF Pop, Pops, Overfull
  <2>2. output'[s] = Append(output[s], n) /\ next'[s] = Succ(n)
    BY <1>2 DEF Pop, TypeOK
  <2>3. \A t \in Streams \ {s} : output'[t] = output[t] /\ next'[t] = next[t]
    BY <1>2 DEF Pop, TypeOK
  <2>4. /\ s \in known /\ known' = known /\ current' = current
        /\ reordering' = reordering
    BY <1>2 DEF Pop
  <2>5. output[s] \in Seq(SeqNumbers)
    BY DEF TypeOK
  <2>6. ExpectsSuccessor'
    <3>1. Len(output'[s]) > 0 /\ output'[s][Len(output'[s])] = n
      BY <2>2, <2>5, AppendElements
    <3>2. QED
      BY <2>2, <2>3, <2>4, <3>1 DEF ExpectsSuccessor
  <2>7. StrictInOrder'
    <3> SUFFICES ASSUME Strict, NEW t \in Streams,
                        NEW i \in 1 .. Len(output'[t]) - 1
                 PROVE  output'[t][i + 1] = Succ(output'[t][i])
      BY <2>4 DEF StrictInOrder
    <3>1. CASE t # s
      BY <2>3, <3>1 DEF StrictInOrder
    <3>2. CASE t = s /\ i = Len(output[s])
      BY <2>1, <2>2, <2>5, <3>2, AppendElements DEF ExpectsSuccessor
    <3>3. CASE t = s /\ i # Len(output[s])
      <4>1. /\ i \in 1 .. Len(output[s]) - 1
            /\ output'[s][i] = output[s][i]
            /\ output'[s][i + 1] = output[s][i + 1]
        BY <2>2, <2>5, <3>3, AppendElements
      <4>2. QED
        BY <4>1, <3>3 DEF StrictInOrder
    <3>4. QED
      BY <3>1, <3>2, <3>3
  <2>8. QED
    BY <2>4, <2>6, <2>7
<1>3. ASSUME NEW s \in Streams, PopNone(s) PROVE StrictInv'
  BY <1>3 DEF PopNone, StrictInOrder, ExpectsSuccessor
<1>4. ASSUME NEW s \in Streams, Break(s) PROVE StrictInv'
  BY <1>4 DEF Break, StrictInOrder, ExpectsSuccessor
<1>5. CASE UNCHANGED vars
  BY <1>5 DEF vars, StrictInOrder, ExpectsSuccessor
<1>6. QED
  BY <1>1, <1>2, <1>3, <1>4, <1>5 DEF Next, Finished

\* A strict reorderer yields consecutive sequence numbers, wrapping at 2^32,
\* whatever arrives, in whichever order and how often.
THEOREM StrictOrder == Spec => []StrictInOrder
<1>1. Init => StrictInv
  BY DEF Init, StrictInv, CurrentKnown, StrictInOrder, ExpectsSuccessor
<1>2. StrictInv => StrictInOrder
  BY DEF StrictInv
<1>3. QED
  BY <1>1, <1>2, TypeCorrect, StrictStep, PTL DEF Spec

-----------------------------------------------------------------------------
\* iter and pop, in either mode, keep every chunk that was taken in.
LEMMA LossStep == TypeOK /\ NothingLost /\ [Next]_vars => NothingLost'
<1> SUFFICES ASSUME TypeOK, NothingLost, [Next]_vars PROVE NothingLost'
  OBVIOUS
<1>1. ASSUME NEW s \in Streams, NEW n \in SeqNumbers, Iter(s, n) PROVE NothingLost'
  <2>1. CASE Rejects(s, n)
    BY <1>1, <2>1 DEF Iter, NothingLost
  <2>2. CASE ~Rejects(s, n)
    BY <1>1, <2>2 DEF Iter, NothingLost, TypeOK
  <2>3. QED
    BY <2>1, <2>2
<1>2. ASSUME NEW s \in Streams, NEW n \in SeqNumbers, Pop(s, n) PROVE NothingLost'
  <2>1. /\ output'[s] = Append(output[s], n)
        /\ store'[s] = store[s] \ {n}
        /\ arrived' = arrived
    BY <1>2 DEF Pop, TypeOK
  <2>2. \A t \in Streams \ {s} : output'[t] = output[t] /\ store'[t] = store[t]
    BY <1>2 DEF Pop, TypeOK
  <2>3. output[s] \in Seq(SeqNumbers)
    BY DEF TypeOK
  <2>4. output'[s][Len(output[s]) + 1] = n /\ Len(output[s]) + 1 \in 1 .. Len(output'[s])
    BY <2>1, <2>3, AppendElements
  <2>5. \A i \in 1 .. Len(output[s]) :
            i \in 1 .. Len(output'[s]) /\ output'[s][i] = output[s][i]
    BY <2>1, <2>3, AppendElements
  <2>6. ASSUME NEW m \in arrived[s]
        PROVE  m \in store'[s] \/ \E i \in 1 .. Len(output'[s]) : output'[s][i] = m
    <3>1. m \in store[s] \/ \E i \in 1 .. Len(output[s]) : output[s][i] = m
      BY <2>6 DEF NothingLost
    <3>2. QED
      BY <2>1, <2>4, <2>5, <3>1
  <2>7. QED
    BY <2>1, <2>2, <2>6 DEF NothingLost
<1>3. ASSUME NEW s \in Streams, PopNone(s) PROVE NothingLost'
  BY <1>3 DEF PopNone, NothingLost
<1>4. ASSUME NEW s \in Streams, Break(s) PROVE NothingLost'
  BY <1>4 DEF Break, NothingLost
<1>5. CASE UNCHANGED vars
  BY <1>5 DEF vars, NothingLost
<1>6. QED
  BY <1>1, <1>2, <1>3, <1>4, <1>5 DEF Next, Finished

\* No chunk that was taken in gets lost: it is in the store or was yielded.
THEOREM NoLoss == Spec => []NothingLost
<1>1. Init => NothingLost
  BY DEF Init, NothingLost
<1>2. QED
  BY <1>1, TypeCorrect, LossStep, PTL DEF Spec

-----------------------------------------------------------------------------
\* A store is finite, and one that is not empty has a first chunk: BTreeMap's
\* first_key_value finds something to yield in it.
LEMMA StoreFirst ==
    ASSUME TypeOK, NEW s \in Streams
    PROVE  /\ IsFiniteSet(store[s])
           /\ Cardinality(store[s]) \in Nat
           /\ store[s] # {} => \E n \in SeqNumbers : IsFirst(s, n)
<1>1. store[s] \in SUBSET SeqNumbers
  BY DEF TypeOK
<1>2. IsFiniteSet(SeqNumbers)
  BY FS_Interval, ReordererAssumption DEF SeqNumbers
<1>3. IsFiniteSet(store[s]) /\ Cardinality(store[s]) \in Nat
  BY <1>1, <1>2, FS_Subset, FS_CardinalityType
<1>4. ASSUME store[s] # {} PROVE \E n \in SeqNumbers : IsFirst(s, n)
  <2> DEFINE Below(n) == {m \in store[s] : m <= n}
             Downsets == {Below(n) : n \in store[s]}
  <2>1. store[s] \subseteq Nat
    BY <1>1, ReordererAssumption DEF SeqNumbers
  <2>2. Downsets \subseteq FiniteSubsetsOf(store[s]) /\ Downsets # {}
    <3>1. \A n \in store[s] : Below(n) \in SUBSET store[s] /\ IsFiniteSet(Below(n))
      BY <1>3, FS_Subset
    <3>2. QED
      BY <1>4, <3>1 DEF FiniteSubsetsOf
  <2>3. PICK D \in Downsets :
          \A E \in Downsets : ~(<<E, D>> \in StrictSubsetOrdering(store[s]))
    BY <2>2, FS_StrictSubsetOrderingWellFounded, WFMin
  <2>4. PICK n \in store[s] : D = Below(n)
    OBVIOUS
  <2>5. \A m \in store[s] : n <= m
    <3> SUFFICES ASSUME NEW m \in store[s], m < n PROVE FALSE
      BY <2>1
    <3>1. Below(m) \subseteq D /\ Below(m) # D /\ D \subseteq store[s]
      BY <2>1, <2>4
    <3>2. <<Below(m), D>> \in StrictSubsetOrdering(store[s])
      BY <3>1 DEF StrictSubsetOrdering
    <3>3. QED
      BY <2>3, <3>2
  <2>6. QED
    BY <1>1, <2>5 DEF IsFirst
<1>5. QED
  BY <1>3, <1>4

\* One iterator at a time: the loop takes the next chunk when it is used up.
OneIterator == \A s, t \in current : s = t

\* The stores that no iterator works on have been emptied as far as they can be.
SettledHoldsNothing == ~stopped => \A s \in known \ current : next[s] \notin store[s]

\* The same stores keep the limit.
SettledBounded ==
    ~stopped => \A s \in Streams \ current :
        IF Strict THEN Cardinality(store[s]) <= Limit
                  ELSE store[s] = {} \/ Cardinality(store[s]) < Limit

\* The store an iterator works on is over a strict limit by the expected chunk
\* at most, which pop yields before the iterator is used up.
AtMostOneOver ==
    ~stopped /\ Strict => \A s \in current :
        \/ Cardinality(store[s]) <= Limit
        \/ Cardinality(store[s]) = Limit + 1 /\ next[s] \in store[s]

DrainInv == CurrentKnown /\ OneIterator /\ SettledHoldsNothing /\ SettledBounded /\ AtMostOneOver

\* What iter puts into a store leaves it over a strict limit by the expected
\* chunk at most.
LEMMA IterDrains ==
    ASSUME TypeOK, DrainInv, NEW s \in Streams, NEW n \in SeqNumbers, Iter(s, n)
    PROVE  DrainInv'
<1> USE DEF Strict
<1>1. /\ current = {} /\ stopped' = stopped /\ reordering' = reordering
      /\ known' = known \cup {s}
      /\ next' = [next EXCEPT ![s] = Expected(s, n)]
  BY DEF Iter
<1>2. CASE Rejects(s, n)
  <2>1. store' = store /\ current' = current
    BY <1>2 DEF Iter
  <2>2. s \in known /\ next' = next /\ known' = known
    BY <1>1, <1>2 DEF Rejects, Expected, TypeOK
  <2>3. QED
    BY <1>1, <2>1, <2>2 DEF DrainInv, CurrentKnown, OneIterator, SettledHoldsNothing,
                            SettledBounded, AtMostOneOver
<1>3. CASE ~Rejects(s, n)
  <2>1. store' = [store EXCEPT ![s] = @ \cup {n}] /\ current' = {s}
    BY <1>3 DEF Iter
  <2>2. \A t \in Streams \ {s} : store'[t] = store[t] /\ next'[t] = next[t]
    BY <1>1, <2>1 DEF TypeOK
  <2>3. store'[s] = store[s] \cup {n} /\ next'[s] = Expected(s, n)
    BY <1>1, <2>1 DEF TypeOK
  <2>4. CurrentKnown' /\ OneIterator'
    BY <1>1, <2>1 DEF CurrentKnown, OneIterator
  <2>5. SettledHoldsNothing' /\ SettledBounded'
    BY <1>1, <2>1, <2>2 DEF DrainInv, SettledHoldsNothing, SettledBounded, TypeOK
  <2>6. AtMostOneOver'
    <3> SUFFICES ASSUME ~stopped, Strict
                 PROVE  \/ Cardinality(store'[s]) <= Limit
                        \/ Cardinality(store'[s]) = Limit + 1 /\ next'[s] \in store'[s]
      BY <1>1, <2>1 DEF AtMostOneOver
    <3>1. IsFiniteSet(store[s]) /\ Cardinality(store[s]) \in Nat
      BY StoreFirst
    <3>2. Cardinality(store'[s]) \in {Cardinality(store[s]), Cardinality(store[s]) + 1}
      BY <2>3, <3>1, FS_AddElement
    <3>3. Cardinality(store[s]) <= Limit
      BY <1>1 DEF DrainInv, SettledBounded
    <3>4. Cardinality(store[s]) >= Limit => Expected(s, n) = n
      BY <1>3 DEF Rejects
    <3>5. QED
      BY <2>3, <3>1, <3>2, <3>3, <3>4, ReordererAssumption
  <2>7. QED
    BY <2>4, <2>5, <2>6 DEF DrainInv
<1>4. QED
  BY <1>2, <1>3

\* A strict pop yields the expected chunk, which takes the store back to its limit.
LEMMA PopDrains ==
    ASSUME TypeOK, DrainInv, NEW s \in Streams, NEW n \in SeqNumbers, Pop(s, n)
    PROVE  DrainInv'
<1> USE DEF Strict
<1>1. /\ s \in current /\ Pops(s, n)
      /\ current' = current /\ known' = known /\ stopped' = stopped
      /\ reordering' = reordering
  BY DEF Pop
<1>2. \A t \in Streams \ {s} : store'[t] = store[t] /\ next'[t] = next[t]
  BY DEF Pop, TypeOK
<1>3. store'[s] = store[s] \ {n}
  BY DEF Pop, TypeOK
<1>4. current = {s}
  BY <1>1 DEF DrainInv, OneIterator
<1>5. CurrentKnown' /\ OneIterator'
  BY <1>1 DEF DrainInv, CurrentKnown, OneIterator
<1>6. SettledHoldsNothing' /\ SettledBounded'
  BY <1>1, <1>2, <1>4 DEF DrainInv, SettledHoldsNothing, SettledBounded, TypeOK
<1>7. AtMostOneOver'
  <2> SUFFICES ASSUME ~stopped, Strict PROVE Cardinality(store'[s]) <= Limit
    BY <1>1, <1>4 DEF AtMostOneOver
  <2>1. n \in store[s]
    BY <1>1 DEF Pops, Overfull
  <2>2. IsFiniteSet(store[s]) /\ Cardinality(store[s]) \in Nat
    BY StoreFirst
  <2>3. Cardinality(store'[s]) = Cardinality(store[s]) - 1
    BY <1>3, <2>1, <2>2, FS_RemoveElement
  <2>4. Cardinality(store[s]) <= Limit + 1
    BY <1>4, <2>2, ReordererAssumption DEF DrainInv, AtMostOneOver
  <2>5. QED
    BY <2>2, <2>3, <2>4, ReordererAssumption
<1>8. QED
  BY <1>5, <1>6, <1>7 DEF DrainInv

\* An iterator that is used up leaves nothing to yield, and a store within its
\* limit.
LEMMA PopNoneDrains ==
    ASSUME TypeOK, DrainInv, NEW s \in Streams, PopNone(s)
    PROVE  DrainInv'
<1> USE DEF Strict
<1>1. /\ s \in current /\ \A n \in SeqNumbers : ~Pops(s, n)
      /\ current' = {}
      /\ UNCHANGED <<known, next, store, stopped, reordering>>
  BY DEF PopNone
<1>2. current = {s}
  BY <1>1 DEF DrainInv, OneIterator
<1>3. IsFiniteSet(store[s]) /\ Cardinality(store[s]) \in Nat
  BY StoreFirst
<1>4. Overfull(s) => store[s] = {}
  BY <1>1, StoreFirst DEF Pops
<1>5. next[s] \notin store[s]
  BY <1>1, <1>4 DEF Pops, TypeOK
<1>6. Strict /\ ~stopped => Cardinality(store[s]) <= Limit
  BY <1>2, <1>5 DEF DrainInv, AtMostOneOver
<1>7. ~Strict => store[s] = {} \/ Cardinality(store[s]) < Limit
  BY <1>3, <1>4, ReordererAssumption DEF Overfull
<1>8. SettledHoldsNothing'
  BY <1>1, <1>2, <1>5 DEF DrainInv, SettledHoldsNothing
<1>9. SettledBounded'
  BY <1>1, <1>2, <1>6, <1>7 DEF DrainInv, SettledBounded
<1>10. QED
  BY <1>1, <1>8, <1>9 DEF DrainInv, CurrentKnown, OneIterator, AtMostOneOver

\* Every step keeps the settled stores drained.
LEMMA DrainStep == TypeOK /\ DrainInv /\ [Next]_vars => DrainInv'
<1> SUFFICES ASSUME TypeOK, DrainInv, [Next]_vars PROVE DrainInv'
  OBVIOUS
<1> USE DEF DrainInv, CurrentKnown, OneIterator, SettledHoldsNothing, SettledBounded,
            AtMostOneOver, Strict
<1>1. ASSUME NEW s \in Streams, Break(s) PROVE DrainInv'
  BY <1>1 DEF Break
<1>2. CASE UNCHANGED vars
  BY <1>2 DEF vars
<1>3. QED
  BY <1>1, <1>2, IterDrains, PopDrains, PopNoneDrains DEF Next, Finished

\* The initial state has no iterator and nothing in the stores.
LEMMA DrainInit == Init => DrainInv
  BY FS_EmptySet, ReordererAssumption
     DEF Init, DrainInv, CurrentKnown, OneIterator, SettledHoldsNothing, SettledBounded,
         AtMostOneOver

\* Nothing that could be delivered is held back: when an iterator is used up, the
\* chunk that its stream expects is not in the store.
THEOREM NoneHeldBack == Spec => []NothingHeldBack
<1>1. DrainInv => NothingHeldBack
  BY DEF DrainInv, SettledHoldsNothing, NothingHeldBack
<1>2. QED
  BY <1>1, DrainInit, TypeCorrect, DrainStep, PTL DEF Spec

\* The limit bounds what a stream holds back, in either mode, for every limit.
THEOREM Bounded == Spec => []StoreBounded
<1>1. DrainInv => StoreBounded
  BY DEF DrainInv, SettledBounded, StoreBounded
<1>2. QED
  BY <1>1, DrainInit, TypeCorrect, DrainStep, PTL DEF Spec
=============================================================================
