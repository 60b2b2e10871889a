SPECIFICATION DesktopsSpec
CONSTANT
  MaxDesktops = 4
INVARIANT
  WrapsAround
CHECK_DEADLOCK FALSE
