SPECIFICATION Spec
CONSTANTS
  t1 = t1
  t2 = t2
  w1 = w1
  w2 = w2
  Tag = {t1, t2}
  Workflow = {w1, w2}
  None = None
  MaxRounds = 1
  MaxCommits = 3
  MaxMishaps = 1
SYMMETRY Alike
INVARIANTS TypeOK OneRoundPerFailure OneActiveRelease VerdictsDecide
PROPERTIES TerminalIsFinal
CHECK_DEADLOCK FALSE
