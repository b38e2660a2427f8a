SPECIFICATION LiveSpec
CONSTANTS
  Configs <- MCConfigs
  DutyMax = 2
  Wrap = 8
INVARIANTS Shown
PROPERTIES ExactBlink BlinkGoesOn
