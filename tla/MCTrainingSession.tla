------------------------- MODULE MCTrainingSession -------------------------
(* Small instances of TrainingSession: two networks, and requests for each. *)
EXTENDS TrainingSession

MCTexts == Messages

MCJobs == { [epochs |-> 2, batches |-> 2, width |-> 2, classes |-> 3],
            [epochs |-> 1, batches |-> 1, width |-> 4, classes |-> 1],
            [epochs |-> 0, batches |-> 1, width |-> 4, classes |-> 2] }

MCModels == { [input |-> 2, sizes |-> <<4, 3>>, bad |-> 0, loss |-> "built"],
              [input |-> 4, sizes |-> <<2>>, bad |-> 0, loss |-> "built"],
              [input |-> 2, sizes |-> <<4, 3>>, bad |-> 2, loss |-> "built"],
              [input |-> 4, sizes |-> <<2>>, bad |-> 0, loss |-> "unknown"],
              [input |-> 2, sizes |-> <<3>>, bad |-> 0, loss |-> "noReturn"] }
=============================================================================
