SPECIFICATION FairSpec
CONSTANTS
  plasma = plasma
  other = other
  mail = mail
  editor = editor
  term = term
  never = never
  App = {plasma, other}
  Id = {mail, editor, term, never}
  NoId = NoId
  Saved <- MCSaved
  InitialWM = "metacity"
  SubSessions = "idle"
  MaxSuspend = 2
INVARIANTS TypeOK StartupDriven TimerMeansHeldUp
PROPERTIES ImplementsStartup
