\* One object, and a list of 512 values.
SPECIFICATION Spec
CONSTANTS
  Objects = {o1}
  Devices = {d1}
  None = none
  Unsupported = {"LSB_FIRST"}
  Bits = {"CS_HIGH", "LSB_FIRST"}
  Modes = {0, 1}
  Words = {16}
  Speeds = {1}
  Lengths = {512}
  MaxFd = 1
  MaxFaults = 0
INVARIANT EveryValueSent
