SPECIFICATION Spec
CONSTANTS
  wmc = wmc
  app1 = app1
  app2 = app2
  null = null
  NoClient = null
  Client <- MCClient3
  Present <- MCPair
  Program = {"kwin", "other"}
  InitialWM = "kwin"
  ProgramOf <- MCProgramOf3
  Requests = {"logout", "interact", "connect", "outOfTurn"}
  MaxShots = 1
INVARIANTS TypeOK InhibitedWhileLeaving InteractionServed
PROPERTIES WMFirst WMLast
