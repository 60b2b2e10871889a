SPECIFICATION Spec
CONSTANTS
  a1 = a1
  a2 = a2
  ksmserver = ksmserver
  Services = {a1, a2, ksmserver}
  NoService = NoService
  MaxCookie = 4
  NoCaller = NoCaller
  GraceTimes = {"timed"}
  MaxInhibits = 4
  MaxFailures = 1
  Apps = {a1, a2}
  Locker = ksmserver
  Agent = kded
  AppTypes <- MCAppTypes
  MaxEvents = 4
  MaxForced = 2
  MaxRestarts = 1
INVARIANTS
  TypeOK
  TablesAgree
  AnnouncedIsTrue
  AnsweredIsWatched
  LockerCookiesAccounted
  ReleasesOwn
  CounterIsRequests
  
CHECK_DEADLOCK FALSE
PROPERTIES
  CallsAreAnswered
  GoneIsReleased
