SPECIFICATION LoopSpec
CONSTANTS
  home = home
  Credentials <- MCCredentials
  None = None
  CloseDelay = 1
  Hours = 1
  Minutes = 2
PROPERTIES AlarmSwitchesMeant
