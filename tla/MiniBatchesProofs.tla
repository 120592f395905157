------------------------- MODULE MiniBatchesProofs -------------------------
(***************************************************************************)
(* The mini-batches are right for every number of samples and every batch  *)
(* size, also one that is not positive: the invariant IInv of MiniBatches  *)
(* is inductive and implies the properties that TLC checks for up to 12    *)
(* samples.                                                                *)
(***************************************************************************)
EXTENDS MiniBatches, TLAPS

\* The facts about Append that the proofs below need (NeuralNetwork.cpp:166
\* and 180, push_back).
LEMMA PushSlice ==
    ASSUME NEW seq \in Seq(Slice), NEW e \in Slice
    PROVE  /\ Append(seq, e) \in Seq(Slice)
           /\ Append(seq, e) # <<>>
           /\ Len(Append(seq, e)) = Len(seq) + 1
           /\ Append(seq, e)[Len(seq) + 1] = e
           /\ \A i \in 1 .. Len(seq) : Append(seq, e)[i] = seq[i]
           /\ \A i \in 1 .. Len(seq) : seq[i] \in Slice
           /\ Len(seq) \in Nat
           /\ seq = <<>> <=> Len(seq) = 0
  OBVIOUS

\* The bounds of the slices pushed so far are numbers.
LEMMA SliceBounds ==
    ASSUME TypeOK
    PROVE  /\ Len(batches) \in Nat
           /\ \A i \in 1 .. Len(batches) :
                 batches[i].from \in Nat /\ batches[i].to \in Nat
<1>1. batches \in Seq(Slice) /\ Len(batches) \in Nat
  BY DEF TypeOK
<1>2. \A i \in 1 .. Len(batches) : batches[i] \in Slice
  BY <1>1
<1> QED BY <1>1, <1>2 DEF Slice

\* The invariant holds when the generator is called.
LEMMA InitIInv == Init => IInv
  BY SizesAssumption DEF Init, IInv, TypeOK, LoopInv, ChainInv, LastInv,
                         CoverInv, OrderInv, Upto, In, Slice, ThrowsIfNotPositive

\* A round of the loop keeps it: the new slice begins where the last one ends.
LEMMA FullBatchIInv == IInv /\ FullBatch => IInv'
<1> SUFFICES ASSUME IInv, FullBatch PROVE IInv'
  OBVIOUS
<1> USE SizesAssumption DEF IInv, FullBatch, More, Room
<1> DEFINE e == [from |-> startCol, to |-> endCol]
           n == Len(batches)
<1>1. /\ e \in Slice /\ startCol <= endCol /\ endCol < m
      /\ endCol = startCol + miniBatchSize
      /\ startCol \in Nat /\ endCol \in Nat /\ m \in Nat /\ miniBatchSize \in Int
  BY DEF TypeOK, LoopInv, Slice
<1>0. /\ batches' = Append(batches, e) /\ batches \in Seq(Slice)
      /\ \A i \in 1 .. n : batches[i].from \in Nat /\ batches[i].to \in Nat
  BY SliceBounds DEF TypeOK
<1>2. /\ batches' = Append(batches, e)
      /\ batches' \in Seq(Slice)
      /\ batches' # <<>>
      /\ Len(batches') = n + 1
      /\ batches'[n + 1] = e
      /\ \A i \in 1 .. n : batches'[i] = batches[i]
      /\ \A i \in 1 .. n : batches[i].from \in Nat /\ batches[i].to \in Nat
      /\ n \in Nat
      /\ batches = <<>> <=> n = 0
  <2> HIDE DEF IInv, FullBatch, More, Room, e
  <2> QED BY <1>0, <1>1, PushSlice
<1> HIDE DEF e, n
<1>3. e.from = startCol /\ e.to = endCol
  BY DEF e
<1>4. TypeOK'
  BY <1>1, <1>2 DEF TypeOK
<1>5. LoopInv'
  BY <1>1, <1>2, <1>3 DEF LoopInv, TypeOK
<1>6. ChainInv'
  BY <1>1, <1>2, <1>3 DEF ChainInv, LoopInv, TypeOK, n
<1>7. LastInv'
  BY DEF LastInv
<1>8. CoverInv'
  <2> SUFFICES ASSUME NEW s \in 0 .. m, s < endCol
               PROVE  \E i \in 1 .. n + 1 : batches'[i].from <= s /\ s < batches'[i].to
    BY <1>2 DEF CoverInv, Upto, In
  <2>1. CASE s < startCol
    BY <2>1, <1>2 DEF CoverInv, Upto, In, n
  <2>2. CASE ~(s < startCol)
    BY <2>2, <1>1, <1>2, <1>3 DEF TypeOK
  <2> QED BY <2>1, <2>2
<1>9. OrderInv'
  BY <1>1, <1>2, <1>3 DEF OrderInv, Upto, TypeOK, n
<1>10. ThrowsIfNotPositive'
  BY <1>1 DEF ThrowsIfNotPositive, LoopInv
<1> QED BY <1>4, <1>5, <1>6, <1>7, <1>8, <1>9, <1>10

\* The code after the loop keeps it: the last slice ends at m.
LEMMA RemainderIInv == IInv /\ Remainder => IInv'
<1> SUFFICES ASSUME IInv, Remainder PROVE IInv'
  OBVIOUS
<1> USE SizesAssumption DEF IInv, Remainder, More
<1> DEFINE e == [from |-> startCol, to |-> m]
           n == Len(batches)
<1>1. /\ e \in Slice /\ startCol <= m /\ m <= startCol + miniBatchSize
      /\ m > 0 => startCol < m
      /\ startCol \in Nat /\ m \in Nat /\ miniBatchSize \in Int
  BY DEF TypeOK, LoopInv, Slice
<1>2. /\ batches' = Append(batches, e)
      /\ batches' \in Seq(Slice)
      /\ batches' # <<>>
      /\ Len(batches') = n + 1
      /\ batches'[n + 1] = e
      /\ \A i \in 1 .. n : batches'[i] = batches[i]
      /\ \A i \in 1 .. n : batches[i].from \in Nat /\ batches[i].to \in Nat
      /\ n \in Nat
      /\ batches = <<>> <=> n = 0
  BY <1>1, PushSlice DEF TypeOK, Slice
<1> HIDE DEF e, n
<1>3. e.from = startCol /\ e.to = m
  BY DEF e
<1>4. TypeOK'
  BY <1>1, <1>2 DEF TypeOK
<1>5. LoopInv'
  BY DEF LoopInv
<1>6. ChainInv'
  BY <1>1, <1>2, <1>3 DEF ChainInv, LoopInv, TypeOK, n
<1>7. LastInv'
  BY <1>1, <1>2, <1>3 DEF LastInv, TypeOK
<1>8. CoverInv'
  <2> SUFFICES ASSUME NEW s \in 0 .. m, s < m
               PROVE  \E i \in 1 .. n + 1 : batches'[i].from <= s /\ s < batches'[i].to
    BY <1>2 DEF CoverInv, Upto, In
  <2>1. CASE s < startCol
    BY <2>1, <1>2 DEF CoverInv, Upto, In, n
  <2>2. CASE ~(s < startCol)
    BY <2>2, <1>1, <1>2, <1>3 DEF TypeOK
  <2> QED BY <2>1, <2>2
<1>9. OrderInv'
  BY <1>1, <1>2, <1>3 DEF OrderInv, Upto, TypeOK, n
<1>10. ThrowsIfNotPositive'
  BY <1>1 DEF ThrowsIfNotPositive, LoopInv
<1> QED BY <1>4, <1>5, <1>6, <1>7, <1>8, <1>9, <1>10

\* The generator throws only if a slice ends before it starts, or if there are
\* more mini-batches than samples: the size is not positive.
LEMMA ThrowIInv == IInv /\ Throw => IInv'
<1> SUFFICES ASSUME IInv, Throw PROVE IInv'
  OBVIOUS
<1> USE SizesAssumption DEF IInv, Throw, More, Room
<1>1. /\ UNCHANGED <<m, miniBatchSize, startCol, endCol, batches>>
      /\ pc = "loop" /\ pc' = "thrown"
  OBVIOUS
<1>2. TypeOK' /\ LoopInv' /\ LastInv'
  BY <1>1 DEF TypeOK, LoopInv, LastInv
<1>3. ChainInv' /\ CoverInv' /\ OrderInv'
  BY <1>1 DEF ChainInv, CoverInv, OrderInv, Upto, In
<1>4. miniBatchSize <= 0
  BY DEF TypeOK, LoopInv
<1>5. ThrowsIfNotPositive'
  BY <1>1, <1>4 DEF ThrowsIfNotPositive
<1> QED BY <1>2, <1>3, <1>5

\* IInv is an invariant of the generator.
THEOREM Inductive == Spec => []IInv
<1>1. IInv /\ [Next]_vars => IInv'
  <2> SUFFICES ASSUME IInv, [Next]_vars PROVE IInv'
    OBVIOUS
  <2>1. CASE FullBatch
    BY <2>1, FullBatchIInv
  <2>2. CASE Remainder
    BY <2>2, RemainderIInv
  <2>3. CASE Throw
    BY <2>3, ThrowIInv
  <2>4. CASE UNCHANGED vars
    BY <2>4 DEF vars, IInv, TypeOK, LoopInv, ChainInv, LastInv, CoverInv,
                OrderInv, Upto, In, ThrowsIfNotPositive
  <2> QED BY <2>1, <2>2, <2>3, <2>4 DEF Next
<1> QED BY <1>1, InitIInv, PTL DEF Spec

\* For every number of samples and every batch size, an epoch visits every
\* sample exactly once (NeuralNetwork.cpp:147-183 and 39).
THEOREM SampleOnce == Spec => []EachSampleOnce
<1>1. IInv => EachSampleOnce
  <2> SUFFICES ASSUME IInv, pc = "done", NEW s \in 0 .. m - 1
               PROVE  \E i \in 1 .. Len(batches) :
                          /\ batches[i].from <= s /\ s < batches[i].to
                          /\ \A j \in 1 .. Len(batches) :
                                batches[j].from <= s /\ s < batches[j].to => j = i
    BY DEF EachSampleOnce
  <2>1. PICK i \in 1 .. Len(batches) : batches[i].from <= s /\ s < batches[i].to
    BY SizesAssumption DEF IInv, TypeOK, CoverInv, Upto, In
  <2>2. ASSUME NEW j \in 1 .. Len(batches), batches[j].from <= s, s < batches[j].to
        PROVE  j = i
    <3>1. /\ batches[i].from \in Nat /\ batches[i].to \in Nat
          /\ batches[j].from \in Nat /\ batches[j].to \in Nat
          /\ Len(batches) \in Nat
          /\ m \in Nat
      BY SliceBounds, SizesAssumption DEF IInv, TypeOK
    <3>2. i < j => batches[i].to <= batches[j].from
      BY DEF IInv, OrderInv
    <3>3. j < i => batches[j].to <= batches[i].from
      BY DEF IInv, OrderInv
    <3> QED BY <2>1, <2>2, <3>1, <3>2, <3>3
  <2> QED BY <2>1, <2>2
<1> QED BY <1>1, Inductive, PTL

\* All mini-batches are full but the last, which is not empty.
THEOREM BatchesWellSized == Spec => []WellSized
<1>1. IInv => WellSized
  BY DEF IInv, TypeOK, Slice, ChainInv, LastInv, WellSized
<1> QED BY <1>1, Inductive, PTL

\* No slice leaves the rows of the data set.
THEOREM SlicesInBounds == Spec => []InBounds
<1>1. IInv => InBounds
  <2> SUFFICES ASSUME IInv PROVE InBounds
    OBVIOUS
  <2>1. Upto \in Nat /\ Upto <= m /\ m \in Nat
    BY SliceBounds, SizesAssumption DEF IInv, TypeOK, LoopInv, LastInv, Upto
  <2> QED BY <2>1, SliceBounds DEF IInv, OrderInv, InBounds
<1> QED BY <1>1, Inductive, PTL

\* The generator throws exactly for the sizes it cannot cut by, 0 and below
\* (NeuralNetwork.cpp:147-168).
THEOREM ThrowsRightly == Spec => []ThrowsIfNotPositive
<1>1. IInv => ThrowsIfNotPositive
  BY DEF IInv
<1> QED BY <1>1, Inductive, PTL
=============================================================================
