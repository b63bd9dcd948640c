\* Every option, seven installations of libao, two formats.
SPECIFICATION Spec
CONSTANTS
  Requests <- EveryRequest
  Formats = {44, 48}
  Installations <- SomeInstallations
  DefaultDevices = {"alsa", "oss", "sun", "esd", "other"}
  None = none
CHECK_DEADLOCK FALSE
INVARIANTS
  Bookkeeping
  UserObeyed
  PlaysRight
  CrashAfterFallback
PROPERTIES
  ClosedTwiceOnlyOpening
