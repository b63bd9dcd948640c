\* Two pins, one exported by others: added with a callback, read, removed, cleaned up.
SPECIFICATION Spec
CONSTANTS
  Pins = {1, 2}
  Foreign = {2}
  Calls <- CleaningUp
  MaxCalls = 4
  MaxEdges = 1
  MaxInterrupts = 1
  MaxThreads = 1
  MaxFd = 3
INVARIANTS
  TypeOK
  CallbackListsAgree
  DescriptorsConsistent
\* a read of a freed node may end the process
CHECK_DEADLOCK FALSE
