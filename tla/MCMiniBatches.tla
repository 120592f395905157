--------------------------- MODULE MCMiniBatches ---------------------------
(* Every data set of up to 12 samples cut into batches of -2 to 14. *)
EXTENDS MiniBatches

MCSamples == 0 .. 12
MCBatchSizes == -2 .. 14
=============================================================================
