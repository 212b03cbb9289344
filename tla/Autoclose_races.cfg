SPECIFICATION FairSpec
CONSTANTS
  i1 = i1
  None = None
  Issue = {i1}
  MaxAnswers = 2
  MaxExits = 1
  MaxOutages = 2
  MayVanish = TRUE
INVARIANT TypeOK
PROPERTIES ResolvedOnce EngagedStaysOpen UndisturbedScheduleResolves
CHECK_DEADLOCK FALSE
