SPECIFICATION LiveSpec
CONSTANTS
  LedTypes <- MCLedTypes
  Hi <- OneValue
  Debounce = 1
  RepeatValue = 1
  HoldValue = 1
  Confirm = 1
  HoldMode = 1
  HoldClear = 2
INVARIANTS IInv SetupIsSaved
PROPERTIES ModeNeedsHold WipeNotEarly SetHeldEntersSetup
