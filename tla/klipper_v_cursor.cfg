SPECIFICATION Spec
CONSTANTS
  Uuid = {a, b, c}
  NoItem = NoItem
  Gone = Gone
  Sizes = {1, 2, 3}
  Resizing = "any"
  Editing = "any"
INVARIANTS
  CycleStaysInHistory
CHECK_DEADLOCK FALSE
