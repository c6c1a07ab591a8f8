\* Two waiters killed anywhere, their ids given to other programs, while root locks
\* the devices for them twice.
SPECIFICATION LockSpec
CONSTANTS
  p1 = p1
  p2 = p2
  c1 = c1
  c2 = c2
  Pid <- TwoWaiters
  NoPid = NoPid
  Spaced = TRUE
  Reuse = TRUE
  Call <- TwoCalls
  InTurn = TRUE
INVARIANTS
  LockDiscipline
  AtMostOneActive
  LockedWhileWatched
PROPERTIES
  OnlyStaleLocksRemoved
  DevicesComeBack
