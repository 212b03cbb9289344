SPECIFICATION FairSpec
CONSTANTS
  i1 = i1
  Issue = {i1}
  Task = {"comment", "directive", "review", "cleanup"}
  Cap = 1
  SweepLimit = 20
  ReapLimit = 500
  MaxRows = 1
  MaxExits = 1
INVARIANTS TypeOK RedispatchBounded
PROPERTIES SweepActsOnStranded StrandedMoves AbandonedReaped
CHECK_DEADLOCK FALSE
