\* Two attempts, overlapping, at every batch of at most two events.
CONSTANTS
  MaxAttempts = 2
  Batches <- MCBatches
SPECIFICATION FairSpec
INVARIANTS StatusIsTruthful AckMeansHandled BadBatchNeverCalls
PROPERTIES EveryAttemptSettles
