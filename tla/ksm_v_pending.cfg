SPECIFICATION FairSpec
CONSTANTS
  wmc = wmc
  app1 = app1
  app2 = app2
  null = null
  NoClient = null
  Client <- MCClient2
  Present <- MCClient2
  Program = {"kwin", "other"}
  InitialWM = "kwin"
  ProgramOf <- MCProgramOf2
  Requests = {"logout", "checkpoint"}
  MaxShots = 1
PROPERTIES PendingLogoutHonoured
