SPECIFICATION Spec
CONSTANTS
  c1 = c1
  c2 = c2
  c3 = c3
  Clients <- MCClients
  NoClient = NoClient
  App <- MCApp
  MaxDesktops = 3
  MaxLoad = 5
  Fickle = {c3}
SYMMETRY MCSymmetry
INVARIANTS
  TypeOK
  DesktopsValid
  FollowsDesktops
  ChainsOnce
  WalkSeesAll
  ListedTogether
  ActiveIsShown
  ActiveHere
PROPERTIES
  OthersKeepOrder
  BackIsPrevious
CHECK_DEADLOCK FALSE
