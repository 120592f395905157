-------------------------- MODULE MCTrainingServer --------------------------
(* Small instances of TrainingServer. *)
EXTENDS TrainingServer, TLC

MCTexts == Messages

ThreadSymmetry == Permutations(Threads)

\* One epoch of one mini-batch on two features, one class.
OneEpoch == {[epochs |-> 1, batches |-> 1, width |-> 2, classes |-> 1]}
\* Two epochs of one mini-batch, two classes: more than Chain has outputs.
TwoEpochs == {[epochs |-> 2, batches |-> 1, width |-> 2, classes |-> 2]}

NoModels == {}
Chain == [input |-> 2, sizes |-> <<3, 1>>, bad |-> 0, loss |-> "built"]
Wider == [input |-> 3, sizes |-> <<2>>, bad |-> 0, loss |-> "built"]
TwoModels == {Chain, Wider}
AllModels == { Chain, [Chain EXCEPT !.bad = 2], [Wider EXCEPT !.loss = "unknown"],
               [Wider EXCEPT !.loss = "noReturn"] }
=============================================================================
