\* Detection on two pins that is never taken back, one of them exported by others.
SPECIFICATION FairSpec
CONSTANTS
  Pins = {1, 2}
  Foreign = {2}
  Calls <- Watching
  MaxCalls = 2
  MaxEdges = 1
  MaxInterrupts = 1
  MaxThreads = 2
  MaxFd = 4
INVARIANTS
  NoSpuriousEvent
  DetectionServed
  CallbacksBounded
PROPERTIES
  EventNoticed
  CallbacksRun
