SPECIFICATION Spec
CONSTANTS
  plasma = plasma
  other = other
  mail = mail
  editor = editor
  term = term
  never = never
  App = {plasma, other}
  Id = {mail, editor, term, never}
  NoId = NoId
  Saved <- MCSaved
  InitialWM = "metacity"
  SubSessions = "any"
  MaxSuspend = 1
PROPERTIES StartupNotAborted
