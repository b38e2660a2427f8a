SPECIFICATION Spec
CONSTANTS
  LedTypes <- MCLedTypes
  Hi <- OneValue
  Debounce = 1
  RepeatValue = 1
  HoldValue = 1
  Confirm = 1
  HoldMode = 2
  HoldClear = 3
PROPERTIES WipeNeedsDown
