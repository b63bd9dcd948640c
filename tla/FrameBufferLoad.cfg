\* LOAD during playback.
SPECIFICATION FairSpec
CONSTANTS
  N = 3
  Sources <- TwoFiles
  MaxFrames <- NoLimit
  Events = {"load"}
  MaxFiles = 2
  MaxSigints = 0
PROPERTY LoadTakesEffect
CHECK_DEADLOCK FALSE
