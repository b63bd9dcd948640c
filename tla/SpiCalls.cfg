\* Two objects and one device they may share, with a polarity the controller refuses.
SPECIFICATION Spec
CONSTANTS
  Objects = {o1, o2}
  Devices = {d1}
  None = none
  Unsupported = {"CPOL"}
  Bits = {"CS_HIGH"}
  Modes = {1, 258}
  Words = {16, 257}
  Speeds = {1}
  Lengths = {1024, 66561}
  MaxFd = 3
  MaxFaults = 1
SYMMETRY Symmetric
INVARIANTS
  Bookkeeping
  TransfersWhole
  CacheAgrees
PROPERTIES
  OthersKept
