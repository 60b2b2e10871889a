SPECIFICATION Spec
CONSTANTS
  wmc = wmc
  app1 = app1
  app2 = app2
  null = null
  NoClient = null
  Client <- MCClient3
  Present <- MCClient3
  Program = {"kwin", "other"}
  InitialWM = "kwin"
  ProgramOf <- MCProgramOf3
  Requests = {"logout", "interact", "phase2", "outOfTurn"}
  MaxShots = 1
INVARIANTS QuitOnlyWhenLeaving
