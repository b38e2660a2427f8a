SPECIFICATION Spec
CONSTANTS
  home = home
  shop = shop
  Credentials <- MCCredentials
  None = None
  CloseDelay = 2
INVARIANTS ApBackOn
