SPECIFICATION LiveSpec
CONSTANTS
  Frames <- MCFrames
INVARIANTS IInv BodyDelivered
PROPERTIES FramesEnd
