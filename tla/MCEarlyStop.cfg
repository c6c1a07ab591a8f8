\* All curves of up to six epochs.
SPECIFICATION Spec
CONSTANTS
  MaxRmse = 4
  NaN = NaN
  Tolerance = 1
  Patience = 2
  MaxEpochs = 6
  BEST_RMSE = 100
  Infinity = 100
INVARIANTS TypeOK StopMeansStalled StallMeansStopped BestIsReturned SameStop
