SPECIFICATION Spec
CONSTANTS
  Uuid = {a, b, c, d, e}
  NoItem = NoItem
  Gone = Gone
  Sizes = {1, 2, 3, 5}
  Resizing = "kept"
  Editing = "careful"
INVARIANTS
  TypeOK
  RingIsWhole
  SizeBounded
PROPERTIES
  ImplementsHistory
