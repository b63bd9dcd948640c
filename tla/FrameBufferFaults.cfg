\* Streams, a FIFO and files, -n 1, signals and a device that fails, two slots.
SPECIFICATION FairSpec
CONSTANTS
  N = 2
  Sources <- FaultSources
  MaxFrames = 1
  Events = {"stop", "quit", "idlestop", "device", "sigint"}
  MaxFiles = 2
  MaxSigints = 1
PROPERTIES
  EmptyStreamEnds
  DeviceFailureExits
  StopNoticed
\* the playlist ends, and a SIGINT may leave one process behind
CHECK_DEADLOCK FALSE
