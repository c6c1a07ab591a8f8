\* GCP-FedAvg and GCP-FedOpt on a grid of four ranks.  Every rank stops in the end,
\* which AllFinish says.
CONSTANTS
  Grid <- TwoByTwo
  EpochIters = 3
  DpIters = 2
  MaxEpochs = 2
  MaxFails = 1
  Tol = 0
  LocalValues = {0, 1}
  Setups <- AverageAndOptimise
  NaN = NaN
SPECIFICATION Spec
CHECK_DEADLOCK FALSE
INVARIANTS
  TypeOK
  RanksDecideAlike
  ReplicasAgree
  FailedEpochsAreForgotten
  LocalStepperIsRestored
  ModelIsWhole
PROPERTIES
  AllFinish
  ImplementsGcpSgd
