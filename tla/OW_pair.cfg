CONSTANTS
  r1 = r1
  r2 = r2
  new = new
  old = old
  hand = hand
  Runs = {r1, r2}
  NumRd = 1
  Generated = {new, old}
  Unmanaged = {hand}
  Wants <- OneText
  MaxStarts = 2
  MaxEdits = 1
  MaxFaults = 0
  MaxKills = 0
SPECIFICATION Spec
INVARIANTS
  SomeRunSucceeds
PROPERTIES
  ImplementsTree
CHECK_DEADLOCK FALSE
