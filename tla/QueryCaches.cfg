SPECIFICATION Spec
CONSTANTS
  Docs = {d1, d2}
  Handlers = {h1, h2}
  MaxEdits = 2
  MaxChanges = 1
  MaxEpoch = 0
  FirstVersion = 1
  Transport = "push"
INVARIANTS TypeOK ServedTextIsStored  ActionsFollowRepublish
SYMMETRY Symmetry
CHECK_DEADLOCK FALSE
