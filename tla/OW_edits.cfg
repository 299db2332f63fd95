CONSTANTS
  r1 = r1
  r2 = r2
  new = new
  old = old
  hand = hand
  Runs = {r1}
  NumRd = 2
  Generated = {new, old}
  Unmanaged = {hand}
  Wants <- OneText
  MaxStarts = 2
  MaxEdits = 2
  MaxFaults = 1
  MaxKills = 1
SPECIFICATION Spec
INVARIANTS
  PreflightIsAllOrNothing
  SuccessMeansPublished
  ReportsAreTrue
PROPERTIES
  UnmanagedSurvives
  UnchangedIsNotRewritten
CHECK_DEADLOCK FALSE
