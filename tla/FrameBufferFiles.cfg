\* Regular files, the remote shell's commands, three slots.
SPECIFICATION FairSpec
CONSTANTS
  N = 3
  Sources <- RegularSources
  MaxFrames <- NoLimit
  Events = {"load", "rewind", "stop", "quit", "seek", "corrupt"}
  MaxFiles = 2
  MaxSigints = 0
INVARIANTS
  TypeOK
  TokensConserved
  SlotExclusive
  CleanBetweenFiles
  FilesInv
PROPERTIES
  HeardInOrder
  EofNoticed
  ImplementsPlayback
\* the playlist ends, and a drained buffer blocks both processes
CHECK_DEADLOCK FALSE
