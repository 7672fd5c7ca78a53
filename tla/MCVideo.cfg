SPECIFICATION Spec
CONSTANTS
  MaxCalls = 2
  MaxCameras = 2
  MaxFrames = 2
INVARIANTS TypeOK NoStrayConnection OwnFramesOnly DiesOnlyExposed KeyFramesCarryConfig FilmingGoesOn
PROPERTY FramesInOrder
CHECK_DEADLOCK FALSE
