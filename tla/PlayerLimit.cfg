\* No skipping and no jumps, for one sentence of the manual page.
SPECIFICATION Spec
CONSTANTS
  Songs <- SomeSongs
  Loops = {1}
  DefaultPlaylistSize = 2
  Kind <- SomeKinds
  Real <- SomeReal
  Estimate <- SomeEstimate
  Loads = {"a"}
  Jumps = {}
  Limits <- SomeLimits
  Skips = {0}
  MaxSignals = 0
  MaxTime = 3
  MaxBelow = 1
  None = none
CHECK_DEADLOCK FALSE
INVARIANT
  FirstFramesOnly
