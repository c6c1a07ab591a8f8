\* Waiters and runners are killed or told to stop at any step, the two of them
\* together or each alone.
SPECIFICATION Spec
CONSTANTS
  p1 = p1
  p2 = p2
  d1 = d1
  Pid <- TwoWaiters
  NoPid = NoPid
  Spaced = TRUE
  Reuse = FALSE
  Data <- OneDataSet
  Plan <- OneExperiment
  MaxRows = 1
  NoFile = NoFile
  Signals = {TRUE, FALSE}
PROPERTIES RunnersInTurn RefusalsAreTrue StartGetsResults RunnersFinish
