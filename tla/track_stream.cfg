SPECIFICATION FairSpec
CONSTANTS
  Cap = 2
  MaxFrames = 4
  FrameKinds = {"full", "empty", "bad"}
INVARIANT TypeOK
PROPERTIES StreamPromise CancelEndsStream LossEndsStream ListsArrive
CHECK_DEADLOCK FALSE
