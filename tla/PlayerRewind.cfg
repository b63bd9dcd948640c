\* The remote control alone, for one sentence of a comment.
SPECIFICATION Spec
CONSTANTS
  Songs <- SomeSongs
  Loops = {1, 2}
  DefaultPlaylistSize = 2
  Kind <- SomeKinds
  Real <- SomeReal
  Estimate <- SomeEstimate
  Loads = {"a", "b", "d", "m", "s"}
  Jumps = {1, 2}
  Limits <- SomeLimits
  Skips = {0, 2}
  MaxSignals = 2
  MaxTime = 3
  MaxBelow = 1
  None = none
CHECK_DEADLOCK FALSE
INVARIANT
  FrameIsKnown
