\* Three runners in turn, each of which may be killed at any step.
SPECIFICATION Safety
CONSTANTS
  r1 = r1
  r2 = r2
  r3 = r3
  d1 = d1
  d2 = d2
  Runner <- ThreeRunners
  Data <- TwoDataSets
  Plan <- ThreeExperiments
  MaxRows = 2
  NoFile = NoFile
  Serial = TRUE
  Synced = {1}
INVARIANTS RunnerInv AcceptedIsComplete DoneMeansAllDone
PROPERTIES AcceptedIsFinal
SYMMETRY Interchangeable
