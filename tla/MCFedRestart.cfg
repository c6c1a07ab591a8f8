\* GCP-FedOpt with ADAM as meta step, more gradient steps than synchronisations.
CONSTANTS
  Grid <- TwoByOne
  EpochIters = 3
  DpIters = 2
  MaxEpochs = 2
  MaxFails = 1
  Tol = 0
  LocalValues = {0, 1}
  Setups <- MetaAdam
  NaN = NaN
SPECIFICATION Spec
CHECK_DEADLOCK FALSE
INVARIANTS
  MetaStepperIsRestored
