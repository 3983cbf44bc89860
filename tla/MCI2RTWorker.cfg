SPECIFICATION Spec
CONSTANTS
  MaxAge = 1
  StatusCap = 2
  ControlCap = 2
INVARIANTS IdleHolds HoldIsWatched
CHECK_DEADLOCK FALSE
PROPERTIES ImplementsArmBus GivenUpEnds
