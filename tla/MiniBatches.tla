----------------------------- MODULE MiniBatches -----------------------------
(***************************************************************************)
(* NeuralNetwork::miniBatchGenerator: how the m columns (samples) of a     *)
(* data set are cut into mini-batches of miniBatchSize columns.  One       *)
(* action is one round of the while loop, or the code after it.  Inputs    *)
(* and targets are cut at the same columns; only the columns are kept.     *)
(*                                                                         *)
(* miniBatchSize is what somebody typed into the form of the view, which   *)
(* nobody checks (ProcessPage.js:1572, RouteHandlers.cpp:48).  With a      *)
(* negative one the first slice ends before it starts, which the           *)
(* constructor of std::vector refuses; with 0 the loop pushes empty        *)
(* mini-batches until the memory is exhausted.  Both throw.                *)
(***************************************************************************)
EXTENDS Integers, Sequences

CONSTANTS
    Samples,        \* possible numbers of samples
    BatchSizes,     \* possible values of miniBatchSize
    MaxBatches      \* mini-batches that memory holds (bound): more than samples

ASSUME SizesAssumption ==
    /\ Samples \subseteq Nat
    /\ BatchSizes \subseteq Int
    /\ MaxBatches \in Nat
    /\ \A n \in Samples : n < MaxBatches

VARIABLES
    m, miniBatchSize,   \* the arguments
    startCol, endCol,   \* the local variables
    batches,            \* the columns of the mini-batches pushed so far
    pc                  \* "loop", "done" or "thrown"

vars == <<m, miniBatchSize, startCol, endCol, batches, pc>>

\* The columns from, from + 1, ..., to - 1.
Slice == [from : Nat, to : Nat]

TypeOK ==
    /\ m \in Samples
    /\ miniBatchSize \in BatchSizes
    /\ startCol \in Nat
    /\ endCol \in Int
    /\ batches \in Seq(Slice)
    /\ pc \in {"loop", "done", "thrown"}

Init ==
    /\ m \in Samples
    /\ miniBatchSize \in BatchSizes
    /\ startCol = 0
    /\ endCol = miniBatchSize
    /\ batches = <<>>
    /\ pc = "loop"

\* Faulty loop condition: `<=`.
MoreOrEqual == endCol <= m

\* Faulty loop condition: it tests where the slice starts.
MoreByStart == startCol < m

\* The loop condition.
More == endCol < m

\* The slice from startCol to endCol can be made, and pushed.
Room == startCol <= endCol /\ Len(batches) < MaxBatches

\* Faulty body of the loop: the sample at endCol is skipped.
FullBatchSkips ==
    /\ pc = "loop"
    /\ More
    /\ Room
    /\ batches' = Append(batches, [from |-> startCol, to |-> endCol])
    /\ startCol' = endCol + 1
    /\ endCol' = endCol + miniBatchSize
    /\ UNCHANGED <<m, miniBatchSize, pc>>

\* The body of `while (endCol < m)`.
FullBatch ==
    /\ pc = "loop"
    /\ More
    /\ Room
    /\ batches' = Append(batches, [from |-> startCol, to |-> endCol])
    /\ startCol' = endCol
    /\ endCol' = endCol + miniBatchSize
    /\ UNCHANGED <<m, miniBatchSize, pc>>

\* The range constructor throws std::length_error, or push_back std::bad_alloc.
Throw ==
    /\ pc = "loop"
    /\ More
    /\ ~ Room
    /\ pc' = "thrown"
    /\ UNCHANGED <<m, miniBatchSize, startCol, endCol, batches>>

\* Faulty ends: the last slice is a full one; there is one only when the sizes
\* divide.
RemainderFull ==
    /\ pc = "loop"
    /\ ~More
    /\ batches' = Append(batches, [from |-> startCol, to |-> endCol])
    /\ pc' = "done"
    /\ UNCHANGED <<m, miniBatchSize, startCol, endCol>>
RemainderIfExact ==
    /\ pc = "loop"
    /\ endCol = m
    /\ batches' = Append(batches, [from |-> startCol, to |-> m])
    /\ pc' = "done"
    /\ UNCHANGED <<m, miniBatchSize, startCol, endCol>>

\* After the loop: what remains.
Remainder ==
    /\ pc = "loop"
    /\ ~More
    /\ batches' = Append(batches, [from |-> startCol, to |-> m])
    /\ pc' = "done"
    /\ UNCHANGED <<m, miniBatchSize, startCol, endCol>>

Next == FullBatch \/ Throw \/ Remainder

Spec == Init /\ [][Next]_vars /\ WF_vars(Next)

-----------------------------------------------------------------------------
(* Properties *)

\* When the generator returns, every sample is in exactly one mini-batch, so
\* that an epoch visits it once; train's averages over the mini-batches rely on
\* it (NeuralNetwork.cpp:39-61, 147-183).
EachSampleOnce ==
    pc = "done" =>
        \A s \in 0 .. m - 1 :
            \E i \in 1 .. Len(batches) :
                /\ batches[i].from <= s /\ s < batches[i].to
                /\ \A j \in 1 .. Len(batches) :
                      batches[j].from <= s /\ s < batches[j].to => j = i

\* Every mini-batch but the last has miniBatchSize columns, and the last has at
\* least one (accuracy and loss divide by the number of columns) and at most
\* miniBatchSize, if there is any sample.
WellSized ==
    pc = "done" =>
        \A i \in 1 .. Len(batches) :
            IF i < Len(batches)
            THEN batches[i].to = batches[i].from + miniBatchSize
            ELSE /\ batches[i].to <= batches[i].from + miniBatchSize
                 /\ m > 0 => batches[i].from < batches[i].to

\* The slices stay inside the rows: begin() + endCol is never past the end.
InBounds ==
    \A i \in 1 .. Len(batches) : batches[i].from <= batches[i].to /\ batches[i].to <= m

\* The generator throws for a size that is not positive, whatever the number of
\* samples, and only then; no samples in batches of 0 are one empty mini-batch.
ThrowsIfNotPositive ==
    /\ pc = "thrown" => miniBatchSize <= 0
    /\ pc = "done" => miniBatchSize > 0 \/ (miniBatchSize = 0 /\ m = 0)

\* The generator returns or throws.
Terminates == <>(pc # "loop")

-----------------------------------------------------------------------------
(* The inductive invariant behind them *)

\* Where the loop stands, or stopped: all slices pushed are full ones that follow each
\* other up to startCol, and samples remain.
LoopInv ==
    pc # "done" =>
        /\ endCol = startCol + miniBatchSize
        /\ IF batches = <<>> THEN startCol = 0
                             ELSE /\ startCol = batches[Len(batches)].to
                                  /\ startCol < m
        /\ miniBatchSize > 0 => Len(batches) <= startCol

\* Slices in their order: adjacent, the first at 0, all but the last full.
ChainInv ==
    \A i \in 1 .. Len(batches) :
        /\ i = 1 => batches[i].from = 0
        /\ i > 1 => batches[i].from = batches[i - 1].to
        /\ i < Len(batches) \/ pc = "loop" =>
              /\ batches[i].to = batches[i].from + miniBatchSize
              /\ batches[i].to < m

\* The last slice of a finished run.
LastInv ==
    pc = "done" =>
        /\ batches # <<>>
        /\ batches[Len(batches)].to = m
        /\ batches[Len(batches)].from <= m
        /\ m <= batches[Len(batches)].from + miniBatchSize
        /\ m > 0 => batches[Len(batches)].from < m

\* The samples cut so far.
Upto == IF pc = "done" THEN m ELSE startCol
In(s, i) == batches[i].from <= s /\ s < batches[i].to

\* Each of them is in a slice, and only in one, as slices are in order.
CoverInv == \A s \in 0 .. m : s < Upto => \E i \in 1 .. Len(batches) : In(s, i)
OrderInv ==
    /\ \A i, j \in 1 .. Len(batches) : i < j => batches[i].to <= batches[j].from
    /\ \A i \in 1 .. Len(batches) : batches[i].from <= batches[i].to /\ batches[i].to <= Upto

IInv ==
    /\ TypeOK /\ LoopInv /\ ChainInv /\ LastInv /\ CoverInv /\ OrderInv
    /\ ThrowsIfNotPositive
=============================================================================
