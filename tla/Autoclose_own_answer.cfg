SPECIFICATION Spec
CONSTANTS
  i1 = i1
  None = None
  Issue = {i1}
  MaxAnswers = 1
  MaxExits = 0
  MaxOutages = 0
  MayVanish = FALSE
PROPERTY OnlyPeopleCancel
CHECK_DEADLOCK FALSE
